---------------------------- MODULE StartupProofs ----------------------------
(***************************************************************************)
(* What holds of the start for every number of regions, sites, drives,     *)
(* cores and queues: calls always reach the kernel, all code is hooked     *)
(* when main starts, the two pieces of arithmetic on which a request       *)
(* relies, the place of a sector and the number of a request, are exact,   *)
(* and the page that calls go through brings them back to their callers.   *)
(***************************************************************************)
EXTENDS Startup, Trampoline, SequenceTheorems, TLAPS

-----------------------------------------------------------------------------
(* Arithmetic.                                                              *)

(* A division with a remainder has one result. *)
LEMMA DivUnique ==
    ASSUME NEW b \in Nat \ {0}, NEW q \in Nat, NEW r \in 0..(b - 1)
    PROVE  (b * q + r) \div b = q /\ (b * q + r) % b = r
BY Z3

(* What a division with a remainder returns. *)
LEMMA DivPos ==
    ASSUME NEW a \in Nat, NEW b \in Nat \ {0}
    PROVE  a \div b \in Nat /\ a % b \in 0..(b - 1) /\ a = b * (a \div b) + (a % b)
BY Z3

(* decode takes apart what ridOf has put together. *)
LEMMA DecodeOwn ==
    ASSUME NEW d \in Nat, NEW core \in Cores, NEW c \in Cids
    PROVE  decode(ridOf(d, core, c)) = <<d, core + 1, c>>
<1> DEFINE q == N_CORE * d + core
<1>1. QD \in Nat \ {0} /\ N_CORE \in Nat \ {0}
  BY SizesAssumption
<1>2. c \in 0..(QD - 1) /\ core \in 0..(N_CORE - 1)
  BY DEF Cores, Cids
<1>3. q \in Nat
  BY <1>1, <1>2, Z3
<1>4. ridOf(d, core, c) = QD * q + c
  BY <1>1, <1>2, Z3 DEF ridOf
<1> HIDE DEF q
<1>5. (QD * q + c) \div QD = q /\ (QD * q + c) % QD = c
  BY <1>1, <1>2, <1>3, DivUnique
<1>6. q \div N_CORE = d /\ q % N_CORE = core
  BY <1>1, <1>2, DivUnique DEF q
<1> QED
  BY <1>4, <1>5, <1>6 DEF decode

(* The drive of a sector, and its place there, which is not beyond its      *)
(* place in the volume.                                                     *)
LEMMA PlaceExists ==
    ASSUME NEW l \in Sectors
    PROVE  did(l) \in Disks /\ CDW10(l) \in Sectors
<1> DEFINE s == l \div RAID_FACTOR
           t == s \div ND
<1>1. RAID_FACTOR \in Nat \ {0} /\ ND \in Nat \ {0} /\ N_SECTORS \in Nat /\ l \in Nat
      /\ l <= N_SECTORS - 1
  BY SizesAssumption, SectorsAssumption DEF Sectors
<1>2. s \in Nat /\ l % RAID_FACTOR \in 0..(RAID_FACTOR - 1)
      /\ l = RAID_FACTOR * s + (l % RAID_FACTOR)
  BY <1>1, DivPos
<1>3. t \in Nat /\ s % ND \in 0..(ND - 1) /\ s = ND * t + (s % ND)
  BY <1>1, <1>2, DivPos
<1>4. CDW10(l) = t * RAID_FACTOR + (l % RAID_FACTOR) /\ did(l) = s % ND
  BY DEF CDW10, did
<1> HIDE DEF s, t
<1>5. t <= s
  <2>1. ND * t >= t
    BY <1>1, <1>3, Z3
  <2> QED
    BY <2>1, <1>1, <1>3, Z3
<1>6. t * RAID_FACTOR <= RAID_FACTOR * s
  BY <1>1, <1>2, <1>3, <1>5, Z3
<1>7. t * RAID_FACTOR \in Nat
  BY <1>1, <1>3, Z3
<1>8. CDW10(l) \in 0..(N_SECTORS - 1)
  <2> DEFINE u == t * RAID_FACTOR
             v == RAID_FACTOR * s
  <2>1. v \in Nat
    BY <1>1, <1>2, Z3
  <2> HIDE DEF u, v
  <2> QED
    BY <2>1, <1>1, <1>2, <1>4, <1>6, <1>7, SMT DEF u, v
<1> QED
  BY <1>3, <1>4, <1>8 DEF Disks, Sectors

(* Sectors of one stripe are on one drive, one after the other. *)
LEMMA StripeTogether ==
    ASSUME NEW l \in Nat, NEW k \in Nat, (l % RAID_FACTOR) + k < RAID_FACTOR
    PROVE  did(l + k) = did(l) /\ CDW10(l + k) = CDW10(l) + k
<1> DEFINE s == l \div RAID_FACTOR
           r == l % RAID_FACTOR
<1>1. RAID_FACTOR \in Nat \ {0} /\ ND \in Nat \ {0}
  BY SizesAssumption
<1>2. s \in Nat /\ r \in 0..(RAID_FACTOR - 1) /\ l = RAID_FACTOR * s + r
  BY <1>1, DivPos
<1> HIDE DEF s
<1>3. r + k \in 0..(RAID_FACTOR - 1)
  BY <1>1, <1>2, SMT
<1>4. l + k = RAID_FACTOR * s + (r + k)
  BY <1>1, <1>2, <1>3, Z3
<1>5. (l + k) \div RAID_FACTOR = s /\ (l + k) % RAID_FACTOR = r + k
  <2>1. /\ (RAID_FACTOR * s + (r + k)) \div RAID_FACTOR = s
        /\ (RAID_FACTOR * s + (r + k)) % RAID_FACTOR = r + k
    BY <1>1, <1>2, <1>3, DivUnique
  <2> QED
    BY <2>1, <1>4, Zenon
<1>6. did(l + k) = did(l)
  BY <1>5 DEF did, s
<1>7. CDW10(l + k) = (s \div ND) * RAID_FACTOR + (r + k)
  BY <1>5 DEF CDW10
<1>8. CDW10(l) = (s \div ND) * RAID_FACTOR + r
  BY DEF CDW10, s
<1>9. (s \div ND) * RAID_FACTOR \in Nat
  <2>1. s \div ND \in Nat
    BY <1>1, <1>2, DivPos
  <2> QED
    BY <2>1, <1>1, Z3
<1> HIDE DEF r
<1>10. CDW10(l + k) = CDW10(l) + k
  <2> DEFINE w == (s \div ND) * RAID_FACTOR
  <2>1. w \in Nat /\ CDW10(l + k) = w + (r + k) /\ CDW10(l) = w + r
    BY <1>7, <1>8, <1>9
  <2> HIDE DEF w
  <2> QED
    BY <2>1, <1>2, SMT
<1> QED
  BY <1>6, <1>10

(* No two sectors have one place. *)
LEMMA PlaceUnique ==
    ASSUME NEW l \in Nat, NEW m \in Nat, did(m) = did(l), CDW10(m) = CDW10(l)
    PROVE  m = l
<1> DEFINE R == RAID_FACTOR
<1>1. R \in Nat \ {0} /\ ND \in Nat \ {0}
  BY SizesAssumption
<1>2. \A a \in Nat : /\ a \div R \in Nat /\ a % R \in 0..(R - 1)
                     /\ a = R * (a \div R) + (a % R)
                     /\ (a \div R) \div ND \in Nat
                     /\ a \div R = ND * ((a \div R) \div ND) + did(a)
  <2> TAKE a \in Nat
  <2>1. a \div R \in Nat /\ a % R \in 0..(R - 1) /\ a = R * (a \div R) + (a % R)
    BY <1>1, DivPos
  <2> QED
    BY <2>1, <1>1, DivPos DEF did
<1>3. \A a \in Nat : CDW10(a) = R * ((a \div R) \div ND) + (a % R)
  <2> TAKE a \in Nat
  <2> DEFINE t == (a \div R) \div ND
  <2>1. t \in Nat /\ CDW10(a) = t * R + (a % R)
    BY <1>2 DEF CDW10
  <2>2. t * R = R * t
    BY <2>1, <1>1, Z3
  <2> QED
    BY <2>1, <2>2
<1>4. \A a \in Nat : CDW10(a) \div R = (a \div R) \div ND /\ CDW10(a) % R = a % R
  <2> TAKE a \in Nat
  <2> DEFINE t == (a \div R) \div ND
             v == a % R
  <2>1. t \in Nat /\ v \in 0..(R - 1) /\ CDW10(a) = R * t + v
    BY <1>2, <1>3
  <2> HIDE DEF t, v
  <2>2. (R * t + v) \div R = t /\ (R * t + v) % R = v
    BY <1>1, <2>1, DivUnique
  <2>3. CDW10(a) \div R = t /\ CDW10(a) % R = v
    BY <2>1, <2>2, Zenon
  <2> QED
    BY <2>3 DEF t, v
<1>5. (m \div R) \div ND = (l \div R) \div ND /\ m % R = l % R
  BY <1>4
<1>6. m \div R = l \div R
  BY <1>2, <1>5
<1> QED
  BY <1>2, <1>5, <1>6

-----------------------------------------------------------------------------
(* Requests.  Only Write changes what is on the drives and the last number. *)
LEMMA OnlyWrite ==
    ASSUME [Next]_vars
    PROVE  \/ UNCHANGED requests
           \/ \E core \in Cores, lba \in Sectors, n \in 1..RAID_FACTOR, c \in Cids :
                 lba + n - 1 \in Sectors /\ Write(core, lba, n, c)
<1>1. CASE UNCHANGED vars
  BY <1>1 DEF vars, driveVars
<1>2. CASE Boot /\ UNCHANGED driveVars
  BY <1>2 DEF driveVars
<1>3. CASE BringUp
  BY <1>3 DEF BringUp, NotUio, Unmapped, Disable, DrivesDone, Disabled, AdminQueue,
              Enable, Enabled, Submit, submit, Complete, Waited, DriveUp, ctlVars
<1>4. CASE Controller
  BY <1>4 DEF Controller, CtlStop, CtlStart, CtlExec, ctlVars
<1>5. CASE Request
  BY <1>5 DEF Request, NullQP
<1> QED
  BY <1>1, <1>2, <1>3, <1>4, <1>5 DEF Next

(* nvme_check divides a number into the drive, queue and slot it was made   *)
(* of (nvme.cc, nvme_check and nvme_write_req).                             *)
THEOREM SpecChecksOwn == Spec => []ChecksOwn
<1>1. Init => ChecksOwn
  <2> SUFFICES ASSUME Init PROVE ChecksOwn
    OBVIOUS
  <2>1. rid = 0 /\ where = <<0, 1, 0>>
    BY DEF Init, DrivesInit
  <2>2. 0 \in Cores /\ 0 \in Cids
    BY SizesAssumption, SMT DEF Cores, Cids
  <2>3. ridOf(0, 0, 0) = 0
    BY SizesAssumption, Z3 DEF ridOf
  <2>4. decode(ridOf(0, 0, 0)) = <<0, 0 + 1, 0>>
    BY <2>2, DecodeOwn
  <2> QED
    BY <2>1, <2>3, <2>4 DEF ChecksOwn
<1>2. ChecksOwn /\ [Next]_vars => ChecksOwn'
  <2> SUFFICES ASSUME ChecksOwn, [Next]_vars PROVE ChecksOwn'
    OBVIOUS
  <2>1. CASE UNCHANGED requests
    BY <2>1 DEF ChecksOwn, requests, decode
  <2>2. ASSUME NEW core \in Cores, NEW lba \in Sectors, NEW n \in 1..RAID_FACTOR, NEW c \in Cids,
               Write(core, lba, n, c)
        PROVE  ChecksOwn'
    <3>1. did(lba) \in Nat
      BY PlaceExists, SMT DEF Disks
    <3>2. decode(ridOf(did(lba), core, c)) = <<did(lba), core + 1, c>>
      BY <3>1, DecodeOwn
    <3>3. rid' = ridOf(did(lba), core, c) /\ where' = <<did(lba), core + 1, c>>
      BY <2>2 DEF Write
    <3> QED
      BY <3>2, <3>3 DEF ChecksOwn, decode
  <2> QED
    BY <2>1, <2>2, OnlyWrite
<1> QED
  BY <1>1, <1>2, PTL DEF Spec

(* With the domain of media and the range of what was written, SectorsApart *)
(* is inductive.                                                            *)
OnDrives ==
    /\ DOMAIN media = Disks \X Sectors
    /\ written \subseteq Sectors
    /\ SectorsApart

(* A request keeps what was written before and adds its own sectors.        *)
LEMMA WriteKeeps ==
    ASSUME OnDrives, NEW core \in Cores, NEW lba \in Sectors, NEW n \in 1..RAID_FACTOR,
           NEW c \in Cids, lba + n - 1 \in Sectors, Write(core, lba, n, c)
    PROVE  OnDrives'
<1>1. /\ lba \in Nat /\ n \in Nat /\ lba % RAID_FACTOR \in Nat /\ RAID_FACTOR \in Nat
      /\ lba + n - 1 <= N_SECTORS - 1 /\ N_SECTORS \in Nat
  BY SizesAssumption, SectorsAssumption, DivPos DEF Sectors
<1>2. written' = written \cup (lba..(lba + n - 1)) /\ (lba % RAID_FACTOR) + n <= RAID_FACTOR
  BY DEF Write
<1>3. DOMAIN media' = Disks \X Sectors
  BY DEF Write, OnDrives
<1>4. written' \subseteq Sectors
  <2>1. \A l \in lba..(lba + n - 1) : l \in Sectors
    BY <1>1, SMT DEF Sectors
  <2> QED
    BY <1>2, <2>1 DEF OnDrives
<1>5. ASSUME NEW k \in 0..(n - 1)
      PROVE  did(lba + k) = did(lba) /\ CDW10(lba + k) = CDW10(lba) + k
  <2>1. (lba % RAID_FACTOR) + k < RAID_FACTOR /\ k \in Nat
    BY <1>1, <1>2
  <2> QED
    BY <2>1, <1>1, StripeTogether
<1>6. \A l \in Sectors : CDW10(l) \in Nat /\ l \in Nat
  <2> TAKE l \in Sectors
  <2>1. CDW10(l) \in Sectors
    BY PlaceExists
  <2> QED
    BY <2>1, SectorsAssumption DEF Sectors
<1>7. ASSUME NEW l \in written'
      PROVE  media'[<<did(l), CDW10(l)>>] = l
  <2> DEFINE at_l == <<did(l), CDW10(l)>>
             k == CDW10(l) - CDW10(lba)
  <2>1. l \in Sectors /\ at_l \in Disks \X Sectors
    BY <1>4, PlaceExists
  <2>2. media'[at_l] = IF did(l) = did(lba) /\ k \in 0..(n - 1) THEN lba + CDW10(l) - CDW10(lba)
                       ELSE media[at_l]
    BY <2>1 DEF Write, OnDrives
  <2>3. CASE did(l) = did(lba) /\ k \in 0..(n - 1)
    <3>1. did(lba + k) = did(l) /\ CDW10(lba + k) = CDW10(lba) + k
      BY <2>3, <1>5
    <3>2. CDW10(lba + k) = CDW10(l) /\ lba + k \in Nat /\ lba + k = lba + CDW10(l) - CDW10(lba)
      BY <2>1, <2>3, <3>1, <1>1, <1>6
    <3> HIDE DEF k
    <3>3. lba + k = l
      BY <2>1, <1>6, <3>1, <3>2, PlaceUnique
    <3> QED
      BY <2>2, <2>3, <3>2, <3>3
  <2>4. CASE ~(did(l) = did(lba) /\ k \in 0..(n - 1))
    <3>1. l \notin lba..(lba + n - 1)
      <4> SUFFICES ASSUME l \in lba..(lba + n - 1) PROVE FALSE
        OBVIOUS
      <4>1. l - lba \in 0..(n - 1) /\ lba + (l - lba) = l
        BY <1>1
      <4>2. did(l) = did(lba) /\ CDW10(l) = CDW10(lba) + (l - lba)
        BY <4>1, <1>5
      <4> QED
        BY <4>1, <4>2, <2>4, <2>1, <1>6, <1>1
    <3> QED
      BY <2>2, <2>4, <3>1, <1>2 DEF OnDrives, SectorsApart
  <2> QED
    BY <2>3, <2>4
<1> QED
  BY <1>3, <1>4, <1>7 DEF OnDrives, SectorsApart, did, CDW10

(* Blocks do not share a place: what was written is where it will be read   *)
(* (nvme.cc, the addresses in nvme_read_req and nvme_write_req).            *)
THEOREM SpecSectorsApart == Spec => []SectorsApart
<1>1. Init => OnDrives
  BY DEF Init, DrivesInit, OnDrives, SectorsApart
<1>2. OnDrives /\ [Next]_vars => OnDrives'
  <2> SUFFICES ASSUME OnDrives, [Next]_vars PROVE OnDrives'
    OBVIOUS
  <2>1. CASE UNCHANGED requests
    BY <2>1 DEF OnDrives, SectorsApart, requests, did, CDW10
  <2> QED
    BY <2>1, OnlyWrite, WriteKeeps
<1>3. OnDrives => SectorsApart
  BY DEF OnDrives
<1> QED
  BY <1>1, <1>2, <1>3, PTL DEF Spec

-----------------------------------------------------------------------------
(* The way of a call.  A site is recorded when it is rewritten, which is    *)
(* after the page is there; the site of enter_syscall never is; and the     *)
(* hook is in place only when it can pass a call on.                        *)
Routed ==
    /\ hooks \in 0..2
    /\ code[syscall_addr] = "syscall"
    /\ code \in [Sites -> {"syscall", "callq"}]
    /\ \A s \in Sites : code[s] = "callq" => s \in bm_mem /\ page = "sled"
    /\ pc = "rewrite" \/ current # NULL => page = "sled"
    /\ hooks >= 1 => next_sys_call = "enter_syscall"
    /\ hook_fn = "hook_function" => hooks >= 2

LEMMA RoutedInit == Init => Routed
BY RegionsAssumption DEF Init, Routed

LEMMA RoutedStep == Routed /\ [Next]_vars => Routed'
<1> SUFFICES ASSUME Routed, [Next]_vars PROVE Routed'
  OBVIOUS
<1>1. CASE UNCHANGED bootVars
  BY <1>1 DEF Routed, bootVars
<1>2. CASE Setup
  BY <1>2 DEF Routed, Setup, stage
<1>3. CASE CloseRegion
  BY <1>3 DEF Routed, CloseRegion
<1>4. CASE CodeRewritten
  BY <1>4 DEF Routed, CodeRewritten, stage
<1>5. CASE AssignHook
  <2>1. CASE hooks = 0
    BY <1>5, <2>1 DEF Routed, AssignHook, HookOrder
  <2>2. CASE hooks = 1
    BY <1>5, <2>2 DEF Routed, AssignHook, HookOrder
  <2> QED
    BY <1>5, <2>1, <2>2 DEF Routed, AssignHook
<1>6. CASE Mount
  BY <1>6 DEF Routed, Mount, stage
<1>7. CASE Start
  BY <1>7 DEF Routed, Start, stage
<1>8. ASSUME NEW r \in Regions, OpenRegion(r)
      PROVE  Routed'
  BY <1>8 DEF Routed, OpenRegion
<1>9. ASSUME NEW s \in Sites, do_rewrite(s)
      PROVE  Routed'
  <2>1. CASE Skipped(s)
    BY <1>9, <2>1 DEF Routed, do_rewrite
  <2>2. CASE ~Skipped(s)
    <3>1. /\ code' = [code EXCEPT ![s] = "callq"] /\ bm_mem' = bm_mem \cup {s}
          /\ current # NULL /\ s # syscall_addr
          /\ UNCHANGED <<pc, page, current, hook_fn, next_sys_call, hooks>>
      BY <1>9, <2>2 DEF do_rewrite, Skipped
    <3>2. code' \in [Sites -> {"syscall", "callq"}] /\ code'[syscall_addr] = "syscall"
      BY <3>1, RegionsAssumption DEF Routed
    <3>3. \A t \in Sites : code'[t] = "callq" => t \in bm_mem' /\ page' = "sled"
      BY <3>1 DEF Routed
    <3> QED
      BY <3>1, <3>2, <3>3 DEF Routed
  <2> QED
    BY <2>1, <2>2
<1> QED
  BY <1>1, <1>2, <1>3, <1>4, <1>5, <1>6, <1>7, <1>8, <1>9 DEF Next, Boot, vars

(* At every point of the start a system call reaches the kernel             *)
(* (zpoline.c, do_rewrite and syscall_hook; hook.c, __hook_init).           *)
THEOREM SpecCallsReach == Spec => []CallsReach
<1>1. Routed => CallsReach
  BY ApartAssumption DEF Routed, CallsReach, route, syscall_hook, enter_syscall
<1> QED
  BY <1>1, RoutedInit, RoutedStep, PTL DEF Spec

-----------------------------------------------------------------------------
(* The regions.  A region that is not being rewritten has its protection,   *)
(* the sites that were looked at are rewritten, and a region that was       *)
(* looked at has no other sites.                                            *)
Looked ==
    /\ current = NULL => prot = Prot
    /\ current # NULL => current \in Regions /\ prot = [Prot EXCEPT ![current] = {"r", "w", "x"}]
    /\ DOMAIN code = Sites
    /\ \A s \in done \cap Sites : s # syscall_addr => code[s] = "callq"
    /\ \A s \in Sites : RegionOf[s] \in done => s \in done
    /\ pc \in {"hook", "drives", "main"} => Executable \subseteq done /\ current = NULL

LEMMA LookedInit == Init => Looked
BY DEF Init, Looked

LEMMA LookedStep == Looked /\ [Next]_vars => Looked'
<1> SUFFICES ASSUME Looked, [Next]_vars PROVE Looked'
  OBVIOUS
<1> USE DEF Executable
<1>1. CASE UNCHANGED bootVars
  BY <1>1 DEF Looked, bootVars
<1>2. CASE Setup
  BY <1>2 DEF Looked, Setup, stage
<1>3. CASE CloseRegion
  <2>1. current \in Regions /\ prot' = Prot /\ current' = NULL
    BY <1>3, ApartAssumption, RegionsAssumption DEF Looked, CloseRegion, mem_prot
  <2>2. done' \cap Sites = done \cap Sites
    BY <1>3, <2>1, ApartAssumption DEF CloseRegion
  <2>3. \A s \in Sites : RegionOf[s] \in done' => s \in done'
    BY <1>3 DEF Looked, CloseRegion
  <2> QED
    BY <1>3, <2>1, <2>2, <2>3 DEF Looked, CloseRegion
<1>4. CASE CodeRewritten
  BY <1>4 DEF Looked, CodeRewritten, stage
<1>5. CASE AssignHook
  BY <1>5 DEF Looked, AssignHook
<1>6. CASE Mount
  BY <1>6 DEF Looked, Mount, stage
<1>7. CASE Start
  BY <1>7 DEF Looked, Start, stage
<1>8. ASSUME NEW r \in Regions, OpenRegion(r)
      PROVE  Looked'
  BY <1>8, ApartAssumption DEF Looked, OpenRegion
<1>9. ASSUME NEW s \in Sites, do_rewrite(s)
      PROVE  Looked'
  <2>1. \A t \in Sites : RegionOf[t] \in done' => RegionOf[t] \in done
    BY <1>9, ApartAssumption, RegionsAssumption DEF do_rewrite
  <2>2. DOMAIN code' = Sites
    BY <1>9 DEF Looked, do_rewrite
  <2>3. \A t \in done' \cap Sites : t # syscall_addr => code'[t] = "callq"
    <3>1. CASE s = syscall_addr
      BY <1>9, <3>1 DEF Looked, do_rewrite, Skipped
    <3>2. CASE s # syscall_addr
      BY <1>9, <3>2 DEF Looked, do_rewrite, Skipped
    <3> QED
      BY <3>1, <3>2
  <2> QED
    BY <1>9, <2>1, <2>2, <2>3 DEF Looked, do_rewrite
<1> QED
  BY <1>1, <1>2, <1>3, <1>4, <1>5, <1>6, <1>7, <1>8, <1>9 DEF Next, Boot, vars

(* Main starts with every executable region rewritten and protected as      *)
(* before (zpoline.c, disassemble_and_rewrite).                             *)
THEOREM SpecAllHooked == Spec => []AllHooked
<1>1. Looked => AllHooked
  BY DEF Looked, AllHooked
<1> QED
  BY <1>1, LookedInit, LookedStep, PTL DEF Spec

-----------------------------------------------------------------------------
(* The drives.  Slots of the admin ring and what they hold.                 *)

Slots == 0..(AQD - 1)
CommandSet == [opc : {"identify", "cq", "sq"}, qid : 0..N_CORE]

AdminType ==
    /\ DRIVE_IDS \in Lists /\ i \in Nat /\ j \in Nat
    /\ at \in {"next", "exit", "disabled", "admin", "assert", "enable", "enabled", "command",
               "wait", "up", "fault"}
    /\ qps \subseteq Disks \X (0..N_CORE) /\ todo \in Seq(CommandSet)
    /\ sq_tail \in Slots /\ cq_head \in Slots /\ cid \in Slots /\ db \in Slots
    /\ cq_phase \in 0..1
    /\ done_flag \in [Slots -> 0..2] /\ DOMAIN sqe = Slots
    /\ cqe \in [Slots -> [P : 0..1, CID : Slots]]
    /\ ctl \in [head : Slots, tail : Slots, phase : 0..1]
    /\ aq \in [Disks -> BOOLEAN]
    /\ cqs \in [Disks -> SUBSET Queues] /\ sqs \in [Disks -> SUBSET Queues]

(* Where __nvme_init is in the list, and what nvme_init has left behind. *)
PlaceInv ==
    /\ i = j + 1 /\ j <= ND /\ i <= Len(DRIVE_IDS) + 1
    /\ at \notin {"next", "up", "fault"} => i <= Len(DRIVE_IDS) /\ j < ND
    /\ at = "up" => i > Len(DRIVE_IDS) \/ j = ND
    /\ \A d \in Disks : d > j \/ (d = j /\ at \in {"next", "disabled", "admin"}) => ~aq[d]

(* The completions up to n are of this round, the others of the one before. *)
Phases(n) == \A c \in Slots : cqe[c].P = IF c < n THEN cq_phase ELSE 1 - cq_phase

(* Between two commands all positions in the rings are one; a command was     *)
(* asked for, then answered, then seen by check_cq.                           *)
Rests == /\ db = sq_tail /\ ctl.head = sq_tail /\ ctl.tail = sq_tail /\ cq_head = sq_tail
         /\ ctl.phase = cq_phase /\ Phases(sq_tail)
Asked == /\ db = sq_tail /\ ctl.head = cid /\ ctl.tail = cid /\ cq_head = cid
         /\ ctl.phase = cq_phase /\ Phases(cid) /\ done_flag[cid] = 0
Answered == /\ db = sq_tail /\ ctl.head = sq_tail /\ ctl.tail = sq_tail /\ cq_head = cid
            /\ ctl.phase = (IF sq_tail = 0 THEN 1 - cq_phase ELSE cq_phase)
            /\ cqe[cid].CID = cid /\ Phases(cid + 1) /\ done_flag[cid] = 0
Seen == Rests /\ done_flag[cid] = 1

AdminInv ==
    /\ at \in {"enable", "enabled", "command"} => Rests
    /\ at = "wait" => sq_tail = succ(cid) /\ (Asked \/ Answered \/ Seen)

(* The commands of a drive are made in their order.  The controller has done  *)
(* those that were made, but for one that it was only asked for.              *)
NCommands == 2 * N_CORE + 1
made == NCommands - Len(todo)
Executed(n) ==
    /\ Commands[n].opc = "cq" => Commands[n].qid \in cqs[j]
    /\ Commands[n].opc = "sq" => Commands[n].qid \in sqs[j]
Waiting == at = "wait" /\ Asked
CommandInv == at \in {"enabled", "command", "wait"} =>
    /\ Len(todo) <= NCommands
    /\ \A n \in 1..Len(todo) : todo[n] = Commands[made + n]
    /\ \A n \in 1..made : <<j, Commands[n].qid>> \in qps
    /\ Waiting => made >= 1 /\ sqe[cid] = Commands[made]
    /\ Fits => \A n \in 1..made : Executed(n) \/ (n = made /\ Waiting)

ReadyInv == Fits => \A d \in Disks : d < j => \A q \in Queues :
    <<d, q>> \in qps /\ q \in cqs[d] /\ q \in sqs[d]

DrivesInv == AdminType /\ PlaceInv /\ AdminInv /\ CommandInv /\ ReadyInv

(* The next slot of the admin ring. *)
LEMMA SuccIs ==
    ASSUME NEW n \in Slots
    PROVE  /\ succ(n) = IF n = AQD - 1 THEN 0 ELSE n + 1
           /\ succ(n) \in Slots /\ succ(n) # n
<1>1. AQD \in Nat /\ AQD > 1
  BY SizesAssumption
<1>2. n \in Nat /\ n <= AQD - 1
  BY <1>1 DEF Slots
<1>3. n = AQD - 1 => (n + 1) % AQD = 0
  BY <1>1, <1>2, Z3
<1>4. n # AQD - 1 => (n + 1) % AQD = n + 1
  BY <1>1, <1>2, Z3
<1> QED
  BY <1>1, <1>2, <1>3, <1>4 DEF succ, Slots

(* The commands of a drive: identify, then a completion queue and a          *)
(* submission queue for every core.                                          *)
LEMMA CommandsAre ==
    /\ Commands \in Seq(CommandSet) /\ Len(Commands) = NCommands /\ NCommands \in Nat \ {0}
    /\ Commands[1] = [opc |-> "identify", qid |-> 0]
    /\ \A q \in Queues : /\ {2 * q, 2 * q + 1} \subseteq 2..NCommands
                         /\ Commands[2 * q] = [opc |-> "cq", qid |-> q]
                         /\ Commands[2 * q + 1] = [opc |-> "sq", qid |-> q]
    /\ \A n \in 2..NCommands : \E q \in Queues : n = 2 * q \/ n = 2 * q + 1
<1> DEFINE first == <<[opc |-> "identify", qid |-> 0]>>
           create(n) == Creates((n + 1) \div 2)[2 - (n % 2)]
           rest == [n \in 1..(2 * N_CORE) |-> create(n)]
<1>1. N_CORE \in Nat \ {0}
  BY SizesAssumption
<1>2. ASSUME NEW q \in Queues
      PROVE  /\ create(2 * q - 1) = [opc |-> "cq", qid |-> q]
             /\ create(2 * q) = [opc |-> "sq", qid |-> q]
  <2>1. q \in Nat /\ q >= 1 /\ q <= N_CORE
    BY <1>1 DEF Queues
  <2>2. ((2 * q - 1) + 1) \div 2 = q /\ (2 * q - 1) % 2 = 1
    BY <2>1
  <2>3. (2 * q + 1) \div 2 = q /\ (2 * q) % 2 = 0
    BY <2>1
  <2> QED
    BY <2>2, <2>3 DEF Creates
<1>3. ASSUME NEW n \in 1..(2 * N_CORE)
      PROVE  \E q \in Queues : n = 2 * q - 1 \/ n = 2 * q
  <2>1. n % 2 \in 0..1 /\ n = 2 * (n \div 2) + (n % 2) /\ n \div 2 \in Nat
    BY DivPos
  <2> DEFINE h == n \div 2
             m == n % 2
  <2>2. h \in Nat /\ m \in 0..1 /\ n = 2 * h + m
    BY <2>1
  <2> HIDE DEF h, m
  <2>3. CASE m = 0
    <3>1. h \in Queues /\ n = 2 * h
      BY <2>2, <2>3, <1>1 DEF Queues
    <3> QED
      BY <3>1
  <2>4. CASE m = 1
    <3>1. h + 1 \in Queues /\ n = 2 * (h + 1) - 1
      BY <2>2, <2>4, <1>1 DEF Queues
    <3> QED
      BY <3>1
  <2> QED
    BY <2>2, <2>3, <2>4
<1>4. \A q \in Queues : [opc |-> "cq", qid |-> q] \in CommandSet
                        /\ [opc |-> "sq", qid |-> q] \in CommandSet
  BY <1>1 DEF CommandSet, Queues
<1>5. first \in Seq(CommandSet) /\ Len(first) = 1
  BY <1>1 DEF CommandSet
<1> HIDE DEF create
<1>6. \A n \in 1..(2 * N_CORE) : create(n) \in CommandSet
  BY <1>2, <1>3, <1>4
<1>7. rest \in Seq(CommandSet) /\ Len(rest) = 2 * N_CORE
  <2>1. 2 * N_CORE \in Nat
    BY <1>1
  <2> QED
    BY <2>1, <1>6
<1>8. Commands = first \o rest
  BY DEF Commands, create
<1> HIDE DEF first, rest
<1>9. /\ first \o rest \in Seq(CommandSet) /\ Len(first \o rest) = 1 + 2 * N_CORE
      /\ \A n \in 1..(1 + 2 * N_CORE) :
            (first \o rest)[n] = IF n <= 1 THEN first[n] ELSE rest[n - 1]
  <2>1. /\ first \o rest \in Seq(CommandSet) /\ Len(first \o rest) = Len(first) + Len(rest)
        /\ \A n \in 1..(Len(first) + Len(rest)) :
              (first \o rest)[n] = IF n <= Len(first) THEN first[n] ELSE rest[n - Len(first)]
    BY <1>5, <1>7, ConcatProperties, Zenon
  <2> QED
    BY <2>1, <1>5, <1>7
<1>10. Commands[1] = [opc |-> "identify", qid |-> 0]
  <2>1. first[1] = [opc |-> "identify", qid |-> 0]
    BY DEF first
  <2> QED
    BY <1>1, <1>8, <1>9, <2>1
<1>11. ASSUME NEW q \in Queues
       PROVE  /\ {2 * q, 2 * q + 1} \subseteq 2..NCommands
              /\ Commands[2 * q] = [opc |-> "cq", qid |-> q]
              /\ Commands[2 * q + 1] = [opc |-> "sq", qid |-> q]
  <2>1. q \in Nat /\ q >= 1 /\ q <= N_CORE
    BY <1>1 DEF Queues
  <2>2. 2 * q - 1 \in 1..(2 * N_CORE) /\ 2 * q \in 1..(2 * N_CORE)
    BY <2>1, <1>1
  <2>3. rest[2 * q - 1] = create(2 * q - 1) /\ rest[2 * q] = create(2 * q)
    BY <2>2 DEF rest
  <2>4. Commands[2 * q] = rest[2 * q - 1]
    BY <2>1, <1>1, <1>8, <1>9
  <2>5. Commands[2 * q + 1] = rest[2 * q]
    <3>1. 2 * q + 1 \in 1..(1 + 2 * N_CORE) /\ ~(2 * q + 1 <= 1) /\ (2 * q + 1) - 1 = 2 * q
      BY <2>1, <1>1
    <3> QED
      BY <3>1, <1>8, <1>9
  <2>6. {2 * q, 2 * q + 1} \subseteq 2..NCommands
    BY <2>1, <1>1 DEF NCommands
  <2> QED
    BY <1>2, <2>3, <2>4, <2>5, <2>6
<1>12. ASSUME NEW n \in 2..NCommands
       PROVE  \E q \in Queues : n = 2 * q \/ n = 2 * q + 1
  <2>1. n - 1 \in 1..(2 * N_CORE) /\ n \in Int
    BY <1>1 DEF NCommands
  <2>2. PICK q \in Queues : n - 1 = 2 * q - 1 \/ n - 1 = 2 * q
    BY <2>1, <1>3
  <2>3. q \in Nat
    BY <1>1 DEF Queues
  <2>4. n = 2 * q \/ n = 2 * q + 1
    BY <2>1, <2>2, <2>3
  <2> QED
    BY <2>4
<1>13. NCommands = 1 + 2 * N_CORE /\ NCommands \in Nat \ {0}
  BY <1>1 DEF NCommands
<1> QED
  BY <1>8, <1>9, <1>10, <1>11, <1>12, <1>13

LEMMA DrivesAtStart == Init => DrivesInv
<1> SUFFICES ASSUME Init PROVE DrivesInv
  OBVIOUS
<1>1. AQD \in Nat /\ AQD > 1 /\ ND \in Nat /\ ND > 0
  BY SizesAssumption
<1>2. DRIVE_IDS \in Seq(Conditions) /\ Len(DRIVE_IDS) \in Nat
  BY ListsAssumption DEF Init, DrivesInit
<1>3. 0 \in Slots
  BY <1>1 DEF Slots
<1>4. AdminType
  BY <1>1, <1>3 DEF Init, DrivesInit, AdminType, Slots
<1>5. PlaceInv
  BY <1>1, <1>2 DEF Init, DrivesInit, PlaceInv
<1>6. AdminInv /\ CommandInv
  BY DEF Init, DrivesInit, AdminInv, CommandInv
<1>7. ReadyInv
  BY DEF Init, DrivesInit, ReadyInv, Disks
<1> QED
  BY <1>4, <1>5, <1>6, <1>7 DEF DrivesInv

(* A command that nvme_init makes is asked for in the slot all positions are at. *)
LEMMA SubmitAsks ==
    ASSUME AdminType, Rests, Submit
    PROVE  sq_tail' = succ(cid') /\ Asked' /\ sqe'[cid'] = Head(todo)
<1>1. /\ cid' = sq_tail /\ sq_tail' = succ(sq_tail) /\ db' = succ(sq_tail)
      /\ done_flag' = [done_flag EXCEPT ![sq_tail] = 0]
      /\ sqe' = [sqe EXCEPT ![sq_tail] = Head(todo)]
      /\ UNCHANGED <<cq_head, cq_phase, cqe, ctl>>
  BY DEF Submit, submit, ctlVars
<1>2. succ(cid') = succ(sq_tail)
  BY <1>1 DEF succ
<1>3. done_flag'[cid'] = 0 /\ sqe'[cid'] = Head(todo)
  BY <1>1 DEF AdminType
<1>4. Phases(cid)'
  BY <1>1 DEF Rests, Phases
<1> QED
  BY <1>1, <1>2, <1>3, <1>4 DEF Asked, Rests

(* The controller only moves when it was asked for a command, and answers it. *)
LEMMA ExecAnswers ==
    ASSUME AdminType, PlaceInv, AdminInv, CtlExec
    PROVE  at = "wait" /\ Asked /\ Answered'
<1>1. at = "wait" /\ Asked
  <2>1. at \in {"disabled", "admin", "enable", "enabled", "command", "wait"}
    BY DEF CtlExec, Current, AdminType
  <2>2. at \notin {"disabled", "admin"}
    <3>1. j \in Disks \/ at \notin {"disabled", "admin"}
      BY SizesAssumption DEF PlaceInv, Disks, AdminType
    <3> QED
      BY <3>1 DEF CtlExec, PlaceInv
  <2>3. ~Rests /\ ~Answered
    BY DEF CtlExec, Rests, Answered
  <2> QED
    BY <2>1, <2>2, <2>3 DEF AdminInv, Seen
<1>2. /\ sq_tail = succ(cid) /\ db = sq_tail /\ ctl.head = cid /\ ctl.tail = cid /\ cq_head = cid
      /\ ctl.phase = cq_phase /\ Phases(cid) /\ done_flag[cid] = 0
  BY <1>1 DEF AdminInv, Asked
<1>3. /\ cqe' = [cqe EXCEPT ![cid] = [P |-> cq_phase, CID |-> cid]]
      /\ ctl' = [head |-> sq_tail, tail |-> sq_tail,
                 phase |-> IF sq_tail = 0 THEN 1 - cq_phase ELSE cq_phase]
      /\ UNCHANGED <<at, cid, sq_tail, cq_head, cq_phase, done_flag, db>>
  BY <1>2 DEF CtlExec, admin
<1>4. cid \in Slots /\ AQD \in Nat
  BY SizesAssumption DEF AdminType
<1>5. cqe'[cid] = [P |-> cq_phase, CID |-> cid] /\ \A c \in Slots \ {cid} : cqe'[c] = cqe[c]
  BY <1>3, <1>4 DEF AdminType
<1>6. \A c \in Slots : cqe'[c].P = IF c < cid + 1 THEN cq_phase ELSE 1 - cq_phase
  <2> TAKE c \in Slots
  <2>1. CASE c = cid
    BY <2>1, <1>4, <1>5 DEF Slots
  <2>2. CASE c # cid
    <3>1. cqe'[c].P = IF c < cid THEN cq_phase ELSE 1 - cq_phase
      BY <2>2, <1>2, <1>5 DEF Phases
    <3>2. c < cid <=> c < cid + 1
      BY <2>2, <1>4 DEF Slots
    <3> QED
      BY <3>1, <3>2
  <2> QED
    BY <2>1, <2>2
<1>7. Phases(cid + 1)'
  BY <1>3, <1>6 DEF Phases
<1>8. cqe'[cid'].CID = cid' /\ done_flag'[cid'] = 0
  BY <1>2, <1>3, <1>5
<1> QED
  BY <1>1, <1>2, <1>3, <1>7, <1>8 DEF Answered

(* check_cq only finds the completion that answers the command. *)
LEMMA CompleteSees ==
    ASSUME AdminType, AdminInv, Complete
    PROVE  Answered /\ Seen' /\ sq_tail' = succ(cid')
<1>1. at = "wait" /\ cqe[cq_head].P = cq_phase /\ sq_tail = succ(cid)
      /\ cq_phase \in 0..1 /\ cid \in Slots /\ sq_tail \in Slots /\ AQD \in Nat /\ cid \in Nat
  BY SizesAssumption DEF Complete, AdminInv, AdminType, Slots
<1>2. ~Asked
  BY <1>1 DEF Asked, Phases
<1>3. ~Seen
  <2>1. sq_tail \in Nat
    BY <1>1 DEF Slots
  <2> QED
    BY <1>1, <2>1 DEF Seen, Rests, Phases
<1>4. Answered
  BY <1>1, <1>2, <1>3 DEF AdminInv
<1>5. /\ done_flag' = [done_flag EXCEPT ![cid] = 1] /\ cq_head' = sq_tail
      /\ cq_phase' = IF sq_tail = 0 THEN 1 - cq_phase ELSE cq_phase
      /\ UNCHANGED <<at, cid, sq_tail, db, ctl, cqe>>
  BY <1>1, <1>4 DEF Complete, Answered, ctlVars
<1>6. Phases(sq_tail)'
  <2>1. \A c \in Slots : cqe'[c].P = IF c < cid + 1 THEN cq_phase ELSE 1 - cq_phase
    BY <1>4, <1>5 DEF Answered, Phases
  <2>2. sq_tail = (IF cid = AQD - 1 THEN 0 ELSE cid + 1)
    BY <1>1, SuccIs
  <2>3. CASE sq_tail = 0
    <3>1. cid = AQD - 1
      BY <1>1, <2>2, <2>3
    <3>2. \A c \in Slots : c < cid + 1 /\ ~(c < 0)
      BY <3>1, <1>1 DEF Slots
    <3> QED
      <4>1. 1 - cq_phase' = cq_phase /\ sq_tail' = 0
        BY <1>1, <1>5, <2>3
      <4>2. \A c \in Slots : cqe'[c].P = cq_phase
        BY <2>1, <3>2
      <4> QED
        BY <3>2, <4>1, <4>2, <2>3 DEF Phases
  <2>4. CASE sq_tail # 0
    <3>1. sq_tail = cid + 1
      BY <2>2, <2>4
    <3> QED
      BY <1>5, <2>1, <2>4, <3>1 DEF Phases
  <2> QED
    BY <2>3, <2>4
<1>7. done_flag'[cid'] = 1
  BY <1>1, <1>5 DEF AdminType
<1>8. succ(cid)' = succ(cid)
  BY <1>5 DEF succ
<1>9. Rests'
  BY <1>4, <1>5, <1>6 DEF Answered, Rests
<1> QED
  BY <1>1, <1>4, <1>5, <1>7, <1>8, <1>9 DEF Seen

(* What a step that is not the drives' leaves alone. *)
Quiet == /\ UNCHANGED <<listVars, qps, admin, regs, ctlVars>>
         /\ at' = at \/ (at = "up" /\ at' = "fault")

LEMMA Moves == [Next]_vars => Quiet \/ BringUp \/ Controller
<1> SUFFICES ASSUME [Next]_vars PROVE Quiet \/ BringUp \/ Controller
  OBVIOUS
<1>1. CASE UNCHANGED driveVars
  BY <1>1 DEF Quiet, driveVars
<1>2. CASE Request
  BY <1>2 DEF Quiet, Request, Write, NullQP, goto
<1> QED
  BY <1>1, <1>2 DEF Next, vars

LEMMA QuietKeeps == DrivesInv /\ Quiet => DrivesInv'
<1> SUFFICES ASSUME DrivesInv, Quiet PROVE DrivesInv'
  OBVIOUS
<1> USE DEF DrivesInv, Quiet, listVars, admin, regs, ctlVars
<1>1. AdminType' /\ PlaceInv'
  BY DEF AdminType, PlaceInv
<1>2. Rests' = Rests /\ Asked' = Asked /\ Answered' = Answered /\ Seen' = Seen
  BY DEF Rests, Asked, Answered, Seen, Phases
<1>3. AdminInv'
  BY <1>2 DEF AdminInv, succ
<1>4. CommandInv'
  BY <1>2 DEF CommandInv, made, Executed, Waiting, Fits
<1>5. ReadyInv'
  BY DEF ReadyInv, Fits
<1> QED
  BY <1>1, <1>3, <1>4, <1>5

(* The steps of nvme_init that leave the admin queue, the queues and the    *)
(* controllers' queues alone and make no command.                           *)
Passing == NotUio \/ Unmapped \/ Disable \/ DrivesDone \/ Disabled \/ DriveUp

LEMMA DriveUpReady ==
    ASSUME DrivesInv, DriveUp, Fits, NEW q \in Queues
    PROVE  <<j, q>> \in qps /\ q \in cqs[j] /\ q \in sqs[j]
<1>1. made = NCommands /\ ~Waiting
  BY CommandsAre DEF DriveUp, made, Waiting
<1>2. /\ \A n \in 1..NCommands : <<j, Commands[n].qid>> \in qps
      /\ \A n \in 1..NCommands : Executed(n)
  BY <1>1 DEF DriveUp, DrivesInv, CommandInv
<1>3. /\ 2 * q \in 1..NCommands /\ 2 * q + 1 \in 1..NCommands
      /\ Commands[2 * q] = [opc |-> "cq", qid |-> q]
      /\ Commands[2 * q + 1] = [opc |-> "sq", qid |-> q]
  BY CommandsAre
<1>4. Executed(2 * q) /\ Executed(2 * q + 1) /\ <<j, Commands[2 * q].qid>> \in qps
  BY <1>2, <1>3
<1> QED
  BY <1>3, <1>4 DEF Executed

LEMMA PassingKeeps == DrivesInv /\ Passing => DrivesInv'
<1> SUFFICES ASSUME DrivesInv, Passing PROVE DrivesInv'
  OBVIOUS
<1>1. UNCHANGED <<DRIVE_IDS, qps, todo, sq_tail, cq_head, cq_phase, done_flag, cid, sqe, db,
                  aq, cqs, sqs, ctl, cqe>>
  BY DEF Passing, NotUio, Unmapped, Disable, DrivesDone, Disabled, DriveUp, listVars, admin,
         regs, ctlVars
<1>2. /\ at' \in {"exit", "next", "disabled", "up", "admin", "assert"}
      /\ i \in Nat /\ j \in Nat
  BY DEF Passing, NotUio, Unmapped, More, Disable, DrivesDone, Disabled, DriveUp, goto,
         DrivesInv, AdminType
<1>3. (UNCHANGED <<i, j>>) \/ (i' = i + 1 /\ j' = j + 1 /\ at' = "next")
  BY DEF Passing, NotUio, Unmapped, More, Disable, DrivesDone, Disabled, DriveUp, goto, listVars
<1>4. AdminType'
  BY <1>1, <1>2, <1>3 DEF DrivesInv, AdminType
<1>5. PlaceInv'
  <2> USE <1>1, <1>2 DEF DrivesInv, PlaceInv
  <2>1. ND \in Nat /\ Len(DRIVE_IDS) \in Nat
    BY SizesAssumption, ListsAssumption DEF AdminType
  <2>2. CASE Unmapped \/ DriveUp
    BY <2>1, <2>2 DEF Unmapped, More, DriveUp, goto, Disks
  <2>3. CASE NotUio \/ Disable
    BY <2>1, <2>3 DEF NotUio, Disable, More, goto, listVars, Disks
  <2>4. CASE DrivesDone \/ Disabled
    BY <2>1, <2>4 DEF DrivesDone, Disabled, goto, listVars, Disks
  <2> QED
    BY <2>2, <2>3, <2>4 DEF Passing
<1>6. AdminInv' /\ CommandInv'
  BY <1>2 DEF AdminInv, CommandInv
<1>7. ReadyInv'
  <2> SUFFICES ASSUME Fits, NEW d \in Disks, d < j', NEW q \in Queues
               PROVE  <<d, q>> \in qps /\ q \in cqs[d] /\ q \in sqs[d]
    BY <1>1 DEF ReadyInv, Fits
  <2>1. CASE d < j
    BY <2>1 DEF DrivesInv, ReadyInv
  <2>2. CASE ~(d < j)
    <3>1. d = j /\ j' = j + 1
      BY <1>2, <1>3, <2>2 DEF Disks
    <3>2. CASE Unmapped
      <4>1. i \in 1..ND
        BY <1>2, <3>2, SizesAssumption DEF Unmapped, More, DrivesInv, PlaceInv
      <4> QED
        BY <3>2, <4>1 DEF Unmapped, Fits
    <3>3. CASE DriveUp
      BY <3>1, <3>3, DriveUpReady
    <3>4. CASE ~Unmapped /\ ~DriveUp
      BY <1>2, <3>1, <3>4 DEF Passing, NotUio, Disable, DrivesDone, Disabled, listVars
    <3> QED
      BY <3>2, <3>3, <3>4
  <2> QED
    BY <2>1, <2>2
<1> QED
  BY <1>4, <1>5, <1>6, <1>7 DEF DrivesInv

(* The steps of the admin queue and of the controller keep the place in the *)
(* list.                                                                    *)
LEMMA ReadyStays ==
    ASSUME DrivesInv, UNCHANGED listVars, qps \subseteq qps',
           \A d \in Disks : cqs[d] \subseteq cqs'[d] /\ sqs[d] \subseteq sqs'[d]
    PROVE  ReadyInv'
BY DEF DrivesInv, ReadyInv, Fits, listVars

LEMMA AdminQueueKeeps == DrivesInv /\ AdminQueue => DrivesInv'
<1> SUFFICES ASSUME DrivesInv, AdminQueue PROVE DrivesInv'
  OBVIOUS
<1>1. j \in Disks /\ AQD \in Nat /\ AQD > 1
  BY SizesAssumption DEF DrivesInv, PlaceInv, AdminType, AdminQueue, Disks
<1>2. /\ sq_tail' = 0 /\ cq_head' = 0 /\ cq_phase' = 1 /\ db' = 0 /\ at' = "enable"
      /\ done_flag' = [c \in Slots |-> 2] /\ sqe' = [c \in Slots |-> None]
      /\ cqe' = [c \in Slots |-> [P |-> 0, CID |-> 0]]
      /\ ctl' = [head |-> 0, tail |-> 0, phase |-> 1]
      /\ qps' = qps \cup {<<j, 0>>} /\ aq' = [aq EXCEPT ![j] = TRUE]
      /\ UNCHANGED <<DRIVE_IDS, i, j, todo, cid, cqs, sqs>>
  BY DEF AdminQueue, NewAdminQP, goto, listVars, Slots
<1>3. 0 \in Slots
  BY <1>1 DEF Slots
<1>4. AdminType'
  <2>1. qps' \subseteq Disks \X (0..N_CORE)
    BY <1>1, <1>2, SizesAssumption DEF DrivesInv, AdminType
  <2> QED
    BY <1>1, <1>2, <1>3, <2>1 DEF DrivesInv, AdminType
<1>5. PlaceInv'
  BY <1>1, <1>2, SizesAssumption DEF DrivesInv, PlaceInv, AdminQueue, Disks, AdminType
<1>6. Rests'
  BY <1>1, <1>2 DEF Rests, Phases, Slots
<1>7. AdminInv' /\ CommandInv'
  BY <1>2, <1>6 DEF AdminInv, CommandInv
<1>8. ReadyInv'
  BY <1>2, ReadyStays DEF listVars
<1> QED
  BY <1>4, <1>5, <1>7, <1>8 DEF DrivesInv

LEMMA EnableKeeps == DrivesInv /\ Enable => DrivesInv'
<1> SUFFICES ASSUME DrivesInv, Enable PROVE DrivesInv'
  OBVIOUS
<1>1. /\ at = "enable" /\ at' = "enabled" /\ todo' = Commands
      /\ UNCHANGED <<DRIVE_IDS, i, j, qps, sq_tail, cq_head, cq_phase, done_flag, cid, sqe, db,
                     aq, cqs, sqs, ctl, cqe>>
  BY DEF Enable, goto, listVars, ctlVars
<1>2. AdminType'
  BY <1>1, CommandsAre DEF DrivesInv, AdminType
<1>3. PlaceInv'
  BY <1>1 DEF DrivesInv, PlaceInv
<1>4. Rests'
  BY <1>1 DEF DrivesInv, AdminInv, Rests, Phases
<1>5. AdminInv'
  BY <1>1, <1>4 DEF AdminInv
<1>6. made' = 0 /\ Len(todo') = NCommands /\ NCommands \in Nat
  BY <1>1, CommandsAre DEF made
<1>7. CommandInv'
  <2>1. ~Waiting'
    BY <1>1 DEF Waiting
  <2>2. \A n \in 1..Len(todo') : todo'[n] = Commands[made' + n]
    BY <1>1, <1>6
  <2>3. 1..made' = {}
    BY <1>6
  <2> QED
    BY <1>6, <2>1, <2>2, <2>3 DEF CommandInv
<1>8. ReadyInv'
  BY <1>1, ReadyStays DEF listVars
<1> QED
  BY <1>2, <1>3, <1>5, <1>7, <1>8 DEF DrivesInv

(* Waiting for the controller, and its leaving and reaching the ready state. *)
LEMMA WaitingKeeps == DrivesInv /\ (Enabled \/ Waited \/ CtlStop \/ CtlStart) => DrivesInv'
<1> SUFFICES ASSUME DrivesInv, Enabled \/ Waited \/ CtlStop \/ CtlStart PROVE DrivesInv'
  OBVIOUS
<1>1. UNCHANGED <<DRIVE_IDS, i, j, qps, todo, sq_tail, cq_head, cq_phase, done_flag, cid, sqe,
                  db, aq, cqs, sqs, ctl, cqe>>
  BY DEF Enabled, Waited, CtlStop, CtlStart, listVars, admin, regs, ctlVars
<1>2. at' = at \/ (at \in {"enabled", "wait"} /\ at' = "command")
  BY DEF Enabled, Waited, CtlStop, CtlStart, goto
<1>3. AdminType' /\ PlaceInv'
  BY <1>1, <1>2 DEF DrivesInv, AdminType, PlaceInv
<1>4. at = "wait" /\ at' = "command" => Seen
  BY DEF Enabled, Waited, CtlStop, CtlStart, goto, DrivesInv, AdminInv, Asked, Answered
<1>5. Rests' = Rests /\ Asked' = Asked /\ Answered' = Answered /\ Seen' = Seen
  BY <1>1 DEF Rests, Asked, Answered, Seen, Phases
<1>6. AdminInv'
  BY <1>1, <1>2, <1>4, <1>5 DEF DrivesInv, AdminInv, Seen, succ
<1>7. Waiting' = Waiting
  BY <1>2, <1>4, <1>5 DEF Waiting, Asked, Seen
<1>8. at' \in {"enabled", "command", "wait"} => at \in {"enabled", "command", "wait"}
  BY <1>2
<1>9. CommandInv'
  BY <1>1, <1>7, <1>8 DEF DrivesInv, CommandInv, made, Executed, Fits
<1>10. ReadyInv'
  BY <1>1, ReadyStays DEF listVars
<1> QED
  BY <1>3, <1>6, <1>9, <1>10 DEF DrivesInv

LEMMA CompleteKeeps == DrivesInv /\ Complete => DrivesInv'
<1> SUFFICES ASSUME DrivesInv, Complete PROVE DrivesInv'
  OBVIOUS
<1>1. Answered /\ Seen' /\ sq_tail' = succ(cid')
  BY CompleteSees DEF DrivesInv
<1>2. /\ at = "wait" /\ cq_head = cid /\ cqe[cq_head].CID = cid
      /\ done_flag' = [done_flag EXCEPT ![cid] = 1] /\ cq_head' = succ(cq_head)
      /\ cq_phase' = IF succ(cq_head) = 0 THEN 1 - cq_phase ELSE cq_phase
      /\ UNCHANGED <<DRIVE_IDS, i, j, at, qps, todo, sq_tail, cid, sqe, db, aq, cqs, sqs, ctl,
                     cqe>>
  BY <1>1 DEF Complete, Answered, listVars, regs, ctlVars
<1>3. AdminType'
  <2>1. cq_head' \in Slots /\ cq_phase' \in 0..1
    BY <1>2, SuccIs DEF DrivesInv, AdminType
  <2>2. done_flag' \in [Slots -> 0..2]
    BY <1>2 DEF DrivesInv, AdminType
  <2> QED
    BY <1>2, <2>1, <2>2 DEF DrivesInv, AdminType
<1>4. PlaceInv'
  BY <1>2 DEF DrivesInv, PlaceInv
<1>5. AdminInv'
  <2>1. at' = "wait" /\ sq_tail' = succ(cid)'
    BY <1>1, <1>2 DEF succ
  <2> QED
    BY <1>1, <2>1 DEF AdminInv
<1>6. ~Waiting /\ ~Waiting'
  <2>1. succ(cid) # cid
    BY SuccIs DEF DrivesInv, AdminType
  <2> QED
    BY <1>1, <1>2, <2>1 DEF Waiting, Asked, Seen, Answered, DrivesInv, AdminInv
<1>7. CommandInv'
  BY <1>2, <1>6 DEF DrivesInv, CommandInv, made, Executed, Fits
<1>8. ReadyInv'
  BY <1>2, ReadyStays DEF listVars
<1> QED
  BY <1>3, <1>4, <1>5, <1>7, <1>8 DEF DrivesInv

LEMMA SubmitKeeps == DrivesInv /\ Submit => DrivesInv'
<1> SUFFICES ASSUME DrivesInv, Submit PROVE DrivesInv'
  OBVIOUS
<1>1. /\ at = "command" /\ todo # <<>> /\ Rests /\ at' = "wait"
      /\ sq_tail' = succ(sq_tail) /\ cid' = sq_tail /\ db' = succ(sq_tail)
      /\ done_flag' = [done_flag EXCEPT ![sq_tail] = 0]
      /\ sqe' = [sqe EXCEPT ![sq_tail] = Head(todo)]
      /\ qps' = qps \cup {<<j, Head(todo).qid>>} /\ todo' = Tail(todo)
      /\ UNCHANGED <<DRIVE_IDS, i, j, cq_head, cq_phase, aq, cqs, sqs, ctl, cqe>>
  BY DEF Submit, submit, goto, listVars, regs, ctlVars, DrivesInv, AdminInv
<1>2. todo \in Seq(CommandSet) /\ todo # <<>> /\ Len(todo) <= NCommands /\ NCommands \in Nat
  BY <1>1, CommandsAre DEF DrivesInv, AdminType, CommandInv
<1>3. /\ Head(todo) = todo[1] /\ Head(todo) \in CommandSet
      /\ Tail(todo) \in Seq(CommandSet) /\ Len(Tail(todo)) = Len(todo) - 1
      /\ \A n \in 1..(Len(todo) - 1) : Tail(todo)[n] = todo[n + 1]
      /\ Len(todo) \in Nat \ {0}
  BY <1>2
<1>4. j \in Disks /\ j \in Nat
  BY <1>1, SizesAssumption DEF DrivesInv, PlaceInv, AdminType, Disks
<1>5. AdminType'
  <2>1. succ(sq_tail) \in Slots
    BY SuccIs DEF DrivesInv, AdminType
  <2>2. qps' \subseteq Disks \X (0..N_CORE)
    BY <1>1, <1>3, <1>4 DEF DrivesInv, AdminType, CommandSet
  <2> QED
    BY <1>1, <1>3, <2>1, <2>2 DEF DrivesInv, AdminType
<1>6. PlaceInv'
  BY <1>1 DEF DrivesInv, PlaceInv
<1>7. sq_tail' = succ(cid') /\ Asked' /\ sqe'[cid'] = Head(todo)
  BY <1>1, SubmitAsks DEF DrivesInv
<1>8. AdminInv'
  <2>1. succ(cid)' = succ(cid')
    BY DEF succ
  <2> QED
    BY <1>1, <1>7, <2>1 DEF AdminInv
<1>9. made \in Nat /\ made' = made + 1 /\ Head(todo) = Commands[made + 1]
  <2>1. Head(todo) = Commands[made + 1]
    BY <1>1, <1>3 DEF DrivesInv, CommandInv
  <2> QED
    BY <1>1, <1>2, <1>3, <2>1 DEF made
<1>10. CommandInv'
  <2>1. Len(todo') <= NCommands
    BY <1>1, <1>2, <1>3
  <2>2. \A n \in 1..Len(todo') : todo'[n] = Commands[made' + n]
    <3> TAKE n \in 1..Len(todo')
    <3>1. n \in 1..(Len(todo) - 1) /\ n + 1 \in 1..Len(todo) /\ n \in Nat
      BY <1>1, <1>3
    <3>2. todo'[n] = Commands[made + (n + 1)]
      BY <1>1, <1>3, <3>1 DEF DrivesInv, CommandInv
    <3>3. made + (n + 1) = made' + n
      BY <1>9, <3>1
    <3> QED
      BY <3>2, <3>3
  <2>3. \A n \in 1..made' : n \in 1..made \/ n = made + 1
    BY <1>9
  <2>4. \A n \in 1..made' : <<j', Commands[n].qid>> \in qps'
    BY <1>1, <1>9, <2>3 DEF DrivesInv, CommandInv
  <2>5. Waiting' /\ made' >= 1 /\ sqe'[cid'] = Commands[made']
    BY <1>1, <1>7, <1>9 DEF Waiting
  <2>6. Fits' => \A n \in 1..made' : Executed(n)' \/ n = made'
    <3>1. Fits' => Fits
      BY <1>1 DEF Fits
    <3>2. \A n \in 1..made : Executed(n) => Executed(n)'
      BY <1>1 DEF Executed
    <3>3. ~Waiting
      BY <1>1 DEF Waiting
    <3> QED
      BY <1>1, <1>9, <2>3, <3>1, <3>2, <3>3 DEF DrivesInv, CommandInv
  <2> QED
    BY <2>1, <2>2, <2>4, <2>5, <2>6 DEF CommandInv
<1>11. ReadyInv'
  BY <1>1, ReadyStays DEF listVars
<1> QED
  BY <1>5, <1>6, <1>8, <1>10, <1>11 DEF DrivesInv

(* The controller does the command that it was asked for: the completion     *)
(* queue of a submission queue was made by the command before.               *)
LEMMA ExecDoes ==
    ASSUME DrivesInv, CtlExec
    PROVE  /\ cqs' \in [Disks -> SUBSET Queues] /\ sqs' \in [Disks -> SUBSET Queues]
           /\ \A d \in Disks : cqs[d] \subseteq cqs'[d] /\ sqs[d] \subseteq sqs'[d]
           /\ UNCHANGED listVars
           /\ Fits => Executed(made)'
<1> DEFINE c == Commands[made]
<1>1. /\ at = "wait" /\ Asked /\ made >= 1 /\ sqe[cid] = c /\ ctl.head = cid
      /\ made \in 1..NCommands
  <2>1. at = "wait" /\ Asked
    BY ExecAnswers DEF DrivesInv
  <2>2. Waiting
    BY <2>1 DEF Waiting
  <2>3. made >= 1 /\ sqe[cid] = c /\ Len(todo) <= NCommands
    BY <2>1, <2>2 DEF DrivesInv, CommandInv
  <2>4. Len(todo) \in Nat /\ NCommands \in Nat
    BY CommandsAre DEF DrivesInv, AdminType
  <2> QED
    BY <2>1, <2>3, <2>4 DEF made, Asked
<1>2. j \in Disks
  BY <1>1, SizesAssumption DEF DrivesInv, PlaceInv, AdminType, Disks
<1>3. /\ cqs' = IF c.opc = "cq" /\ possible(c) THEN [cqs EXCEPT ![j] = @ \cup {c.qid}] ELSE cqs
      /\ sqs' = IF c.opc = "sq" /\ possible(c) THEN [sqs EXCEPT ![j] = @ \cup {c.qid}] ELSE sqs
      /\ UNCHANGED <<listVars, todo>>
  BY <1>1 DEF CtlExec, admin
<1>4. \/ c.opc = "identify"
      \/ made = 2 * c.qid /\ c.opc = "cq" /\ c.qid \in Queues
      \/ made = 2 * c.qid + 1 /\ c.opc = "sq" /\ c.qid \in Queues
  <2>1. CASE made = 1
    BY <2>1, CommandsAre
  <2>2. CASE made # 1
    <3>1. made \in 2..NCommands
      BY <1>1, <2>2, CommandsAre
    <3>2. PICK q \in Queues : made = 2 * q \/ made = 2 * q + 1
      BY <3>1, CommandsAre
    <3>3. Commands[2 * q] = [opc |-> "cq", qid |-> q]
          /\ Commands[2 * q + 1] = [opc |-> "sq", qid |-> q]
      BY CommandsAre
    <3>4. CASE made = 2 * q
      <4>1. c = [opc |-> "cq", qid |-> q]
        BY <3>3, <3>4
      <4> QED
        BY <3>4, <4>1
    <3>5. CASE made = 2 * q + 1
      <4>1. c = [opc |-> "sq", qid |-> q]
        BY <3>3, <3>5
      <4> QED
        BY <3>5, <4>1
    <3> QED
      BY <3>2, <3>4, <3>5
  <2> QED
    BY <2>1, <2>2
<1> HIDE DEF c
<1>5. /\ cqs' \in [Disks -> SUBSET Queues] /\ sqs' \in [Disks -> SUBSET Queues]
      /\ \A d \in Disks : cqs[d] \subseteq cqs'[d] /\ sqs[d] \subseteq sqs'[d]
  BY <1>2, <1>3, <1>4 DEF DrivesInv, AdminType
<1>6. ASSUME Fits PROVE possible(c)
  <2>1. CASE c.opc = "identify"
    BY <2>1 DEF possible
  <2>2. CASE c.opc = "cq" /\ c.qid \in Queues
    BY <1>6, <2>2, SizesAssumption DEF possible, Fits, Queues
  <2>3. CASE made = 2 * c.qid + 1 /\ c.opc = "sq" /\ c.qid \in Queues
    <3> DEFINE q == c.qid
    <3>1. q \in Nat /\ q >= 1
      BY <2>3, SizesAssumption DEF Queues
    <3>2. 2 * q \in 1..made /\ 2 * q # made
      BY <2>3, <3>1
    <3>3. Executed(2 * q)
      BY <1>1, <1>6, <3>2 DEF DrivesInv, CommandInv
    <3>4. Commands[2 * q] = [opc |-> "cq", qid |-> q]
      BY <2>3, CommandsAre
    <3>5. q \in cqs[j]
      BY <3>3, <3>4 DEF Executed
    <3> QED
      BY <2>3, <3>5 DEF possible
  <2> QED
    BY <1>4, <2>1, <2>2, <2>3
<1>7. ASSUME Fits PROVE Executed(made)'
  <2>1. j' = j /\ made' = made
    BY <1>3 DEF listVars, made
  <2>2. c.opc = "cq" => c.qid \in cqs'[j]
    BY <1>2, <1>3, <1>6, <1>7 DEF DrivesInv, AdminType
  <2>3. c.opc = "sq" => c.qid \in sqs'[j]
    BY <1>2, <1>3, <1>6, <1>7 DEF DrivesInv, AdminType
  <2> QED
    BY <2>1, <2>2, <2>3 DEF Executed, c
<1> QED
  BY <1>3, <1>5, <1>7

LEMMA ExecKeeps == DrivesInv /\ CtlExec => DrivesInv'
<1> SUFFICES ASSUME DrivesInv, CtlExec PROVE DrivesInv'
  OBVIOUS
<1>1. at = "wait" /\ Asked /\ Answered'
  BY ExecAnswers DEF DrivesInv
<1>2. /\ UNCHANGED <<DRIVE_IDS, i, j, at, qps, todo, sq_tail, cq_head, cq_phase, done_flag, cid,
                     sqe, db, aq>>
      /\ cqe' = [cqe EXCEPT ![ctl.tail] = [P |-> ctl.phase, CID |-> ctl.head]]
      /\ ctl' = [head |-> succ(ctl.head), tail |-> succ(ctl.tail),
                 phase |-> IF succ(ctl.tail) = 0 THEN 1 - ctl.phase ELSE ctl.phase]
  BY DEF CtlExec, listVars, admin, regs
<1>3. /\ cqs' \in [Disks -> SUBSET Queues] /\ sqs' \in [Disks -> SUBSET Queues]
      /\ \A d \in Disks : cqs[d] \subseteq cqs'[d] /\ sqs[d] \subseteq sqs'[d]
      /\ Fits => Executed(made)'
  BY ExecDoes
<1>4. AdminType'
  <2>1. ctl.head \in Slots /\ ctl.tail \in Slots /\ ctl.phase \in 0..1
    BY DEF DrivesInv, AdminType
  <2>2. succ(ctl.head) \in Slots /\ succ(ctl.tail) \in Slots
    BY <2>1, SuccIs
  <2>3. cqe' \in [Slots -> [P : 0..1, CID : Slots]]
    BY <1>2, <2>1 DEF DrivesInv, AdminType
  <2>4. ctl' \in [head : Slots, tail : Slots, phase : 0..1]
    BY <1>2, <2>1, <2>2
  <2> QED
    BY <1>2, <1>3, <2>3, <2>4 DEF DrivesInv, AdminType
<1>5. PlaceInv'
  BY <1>2 DEF DrivesInv, PlaceInv
<1>6. AdminInv'
  BY <1>1, <1>2 DEF DrivesInv, AdminInv, succ
<1>7. ~Waiting'
  <2>1. succ(cid) # cid /\ sq_tail = succ(cid)
    BY <1>1, SuccIs DEF DrivesInv, AdminType, AdminInv
  <2> QED
    BY <1>1, <1>2, <2>1 DEF Waiting, Asked, Answered
<1>8. CommandInv'
  <2>1. made' = made /\ Fits' = Fits
    BY <1>2 DEF made, Fits
  <2>2. /\ Len(todo') <= NCommands
        /\ \A n \in 1..Len(todo') : todo'[n] = Commands[made' + n]
        /\ \A n \in 1..made' : <<j', Commands[n].qid>> \in qps'
    BY <1>1, <1>2, <2>1 DEF DrivesInv, CommandInv
  <2>3. j \in Disks
    BY <1>1, SizesAssumption DEF DrivesInv, PlaceInv, AdminType, Disks
  <2>4. \A n \in 1..made : Executed(n) => Executed(n)'
    BY <1>2, <1>3, <2>3 DEF Executed
  <2>5. Fits => \A n \in 1..made : Executed(n) \/ n = made
    BY <1>1 DEF DrivesInv, CommandInv
  <2>6. Fits' => \A n \in 1..made' : Executed(n)'
    BY <1>3, <2>1, <2>4, <2>5
  <2> QED
    BY <1>7, <2>2, <2>6 DEF CommandInv
<1>9. ReadyInv'
  <2>1. UNCHANGED listVars /\ qps \subseteq qps'
    BY <1>2 DEF listVars
  <2> QED
    BY <1>3, <2>1, ReadyStays
<1> QED
  BY <1>4, <1>5, <1>6, <1>8, <1>9 DEF DrivesInv

LEMMA DrivesStep == DrivesInv /\ [Next]_vars => DrivesInv'
<1> SUFFICES ASSUME DrivesInv, [Next]_vars PROVE DrivesInv'
  OBVIOUS
<1>1. CASE BringUp
  BY <1>1, PassingKeeps, AdminQueueKeeps, EnableKeeps, WaitingKeeps, SubmitKeeps, CompleteKeeps
     DEF BringUp, Passing
<1>2. CASE Controller
  BY <1>2, WaitingKeeps, ExecKeeps DEF Controller
<1> QED
  BY <1>1, <1>2, QuietKeeps, Moves

-----------------------------------------------------------------------------
(* The whole of Inv.                                                        *)

MediaInv == media \in [Disks \X Sectors -> Sectors \cup {None}]

LEMMA MediaAtStart == Init => MediaInv
BY DEF Init, DrivesInit, MediaInv

LEMMA MediaStep == MediaInv /\ [Next]_vars => MediaInv'
<1> SUFFICES ASSUME MediaInv, [Next]_vars PROVE MediaInv'
  OBVIOUS
<1>1. CASE UNCHANGED requests
  BY <1>1 DEF MediaInv, requests
<1>2. ASSUME NEW core \in Cores, NEW lba \in Sectors, NEW n \in 1..RAID_FACTOR, NEW c \in Cids,
             lba + n - 1 \in Sectors, Write(core, lba, n, c)
      PROVE  MediaInv'
  <2> DEFINE k(b) == b[2] - CDW10(lba)
  <2>1. media' = [b \in Disks \X Sectors |-> IF b[1] = did(lba) /\ k(b) \in 0..(n - 1)
                                             THEN lba + b[2] - CDW10(lba) ELSE media[b]]
    BY <1>2 DEF Write, MediaInv
  <2>2. CDW10(lba) \in Sectors
    BY PlaceExists
  <2>3. ASSUME NEW b \in Disks \X Sectors, k(b) \in 0..(n - 1)
        PROVE  lba + b[2] - CDW10(lba) \in Sectors
    <3>1. b[2] \in Sectors
      OBVIOUS
    <3> QED
      BY <1>2, <2>2, <2>3, <3>1, SectorsAssumption, SizesAssumption DEF Sectors
  <2> QED
    BY <2>1, <2>3 DEF MediaInv
<1> QED
  BY <1>1, <1>2, OnlyWrite

(* Only sites are recorded. *)
LEMMA RecordedStep == bm_mem \subseteq Sites /\ [Next]_vars => (bm_mem \subseteq Sites)'
<1> SUFFICES ASSUME bm_mem \subseteq Sites, [Next]_vars PROVE bm_mem' \subseteq Sites
  OBVIOUS
<1>1. CASE UNCHANGED bootVars
  BY <1>1 DEF bootVars
<1>2. CASE Boot
  BY <1>2 DEF Boot, Setup, CloseRegion, CodeRewritten, AssignHook, Mount, Start, OpenRegion,
              do_rewrite
<1> QED
  BY <1>1, <1>2 DEF Next, vars

(* When nvme_init is over, the list was long enough to reach every drive.   *)
LEMMA UpReady ==
    ASSUME DrivesInv, at = "up", Fits, NEW d \in Disks, NEW q \in Queues
    PROVE  <<d, q>> \in qps /\ q \in cqs[d] \cap sqs[d]
<1>1. DRIVE_IDS \in Seq(Conditions) /\ Len(DRIVE_IDS) \in Nat /\ ND \in Nat
  BY ListsAssumption, SizesAssumption DEF DrivesInv, AdminType
<1>2. j = ND
  BY <1>1 DEF DrivesInv, AdminType, PlaceInv, Fits
<1>3. d < j
  BY <1>1, <1>2 DEF Disks
<1> QED
  BY <1>3 DEF DrivesInv, ReadyInv

(* Then every request finds its queue. *)
NoFault == Fits => at # "fault"

LEMMA NoFaultStep == DrivesInv /\ NoFault /\ [Next]_vars => NoFault'
<1> SUFFICES ASSUME DrivesInv, NoFault, [Next]_vars, Fits' PROVE at' # "fault"
  BY DEF NoFault
<1>1. CASE UNCHANGED <<DRIVE_IDS, at>>
  BY <1>1 DEF NoFault, Fits
<1>2. CASE Boot /\ UNCHANGED driveVars
  BY <1>1, <1>2 DEF driveVars, listVars
<1>3. CASE BringUp
  BY <1>3 DEF BringUp, NotUio, Unmapped, Disable, DrivesDone, Disabled, AdminQueue,
              Enable, Enabled, Submit, submit, Complete, Waited, DriveUp, goto, More
<1>4. CASE Controller
  BY <1>1, <1>4 DEF Controller, CtlStop, CtlStart, CtlExec, listVars
<1>5. CASE Request
  <2>1. PICK core \in Cores, lba \in Sectors :
            \/ \E n \in 1..RAID_FACTOR, c \in Cids : Write(core, lba, n, c)
            \/ NullQP(core, lba)
    BY <1>5 DEF Request
  <2>2. CASE \E n \in 1..RAID_FACTOR, c \in Cids : Write(core, lba, n, c)
    BY <1>1, <2>2 DEF Write, listVars
  <2>3. ~NullQP(core, lba)
    <3> SUFFICES ASSUME NullQP(core, lba) PROVE FALSE
      OBVIOUS
    <3>1. at = "up" /\ <<did(lba), core + 1>> \notin qps /\ Fits
      BY DEF NullQP, listVars, Fits
    <3>2. did(lba) \in Disks /\ core + 1 \in Queues
      BY PlaceExists, SizesAssumption DEF Cores, Queues
    <3> QED
      BY <3>1, <3>2, UpReady
  <2> QED
    BY <2>1, <2>2, <2>3
<1> QED
  BY <1>1, <1>2, <1>3, <1>4, <1>5 DEF Next, vars, driveVars, listVars

(* The inductive invariant: the admin queue and the controller in step, the  *)
(* regions and the hook, and the values on the drives.                       *)
IInv == DrivesInv /\ NoFault /\ Routed /\ Looked /\ MediaInv /\ bm_mem \subseteq Sites

LEMMA TypesHold == IInv => TypeOK
<1> SUFFICES ASSUME IInv PROVE TypeOK
  OBVIOUS
<1>1. prot \in [Regions -> SUBSET {"r", "w", "x"}]
  BY RegionsAssumption DEF IInv, Looked
<1>2. DRIVE_IDS \in Seq(Conditions) /\ Len(DRIVE_IDS) \in Nat /\ ND \in Nat
  BY ListsAssumption, SizesAssumption DEF IInv, DrivesInv, AdminType
<1>3. i \in 1..(Len(DRIVE_IDS) + 1) /\ j \in 0..ND
  BY <1>2 DEF IInv, DrivesInv, AdminType, PlaceInv
<1>4. DrivesTypeOK
  BY <1>3 DEF IInv, DrivesInv, AdminType, MediaInv, DrivesTypeOK, Slots
<1> QED
  BY <1>1, <1>4 DEF IInv, Routed, TypeOK

(* req_and_wait returns when its own command was executed (nvme.cc,         *)
(* req_and_wait and check_cq).                                              *)
LEMMA DoneInOrder == IInv => CommandsDone
BY DEF IInv, DrivesInv, AdminInv, Rests, CommandsDone

LEMMA AllReady == IInv => QueuesReady
BY UpReady DEF IInv, NoFault, QueuesReady

(* IInv holds in every reachable state. *)
THEOREM Invariance == Spec => []IInv
<1>1. Init => IInv
  BY DrivesAtStart, RoutedInit, LookedInit, MediaAtStart DEF IInv, NoFault, Init, DrivesInit
<1>2. IInv /\ [Next]_vars => IInv'
  BY DrivesStep, NoFaultStep, RoutedStep, LookedStep, MediaStep, RecordedStep DEF IInv
<1> QED
  BY <1>1, <1>2, PTL DEF Spec

(* Every admin command is over when the next is made, and main starts with  *)
(* the queues known to both sides and the code hooked (nvme.cc, nvme_init,  *)
(* create_qp and req_and_wait; zpoline.c, disassemble_and_rewrite).         *)
THEOREM InvHolds == Spec => []Inv
<1>1. IInv => Inv
  BY TypesHold, DoneInOrder, AllReady DEF IInv, Looked, AllHooked, Inv
<1> QED
  BY <1>1, Invariance, PTL
-----------------------------------------------------------------------------
(* The page at address 0 that Setup maps: whatever system calls the          *)
(* application makes, each comes back to its caller with the stack it left,  *)
(* provided none enters the sled in its tail of nops with a number of the    *)
(* form 3n + 1 (Trampoline, whose state is its own).                         *)

(* No call enters the sled where its entry and the hook's test disagree. *)
GoodCalls == \A n \in Calls : n % 3 = 1 => Patterned(n)

(* asm_syscall_hook's multiplication and unsigned comparison decide exactly   *)
(* whether the number is of the form 3n + 1, for every number of the page.    *)
LEMMA DiscardTest ==
    ASSUME NEW n \in 0..(NR_syscalls - 1)
    PROVE  Discards(n) <=> n % 3 = 1
BY SMT DEF Discards, inverse, NR_syscalls

(* The caller is in one of the states the invariant describes from the start. *)
LEMMA SledAtStart == SledInit => SledIInv
BY SMT, CallsAssumption, WordsAssumption
   DEF SledInit, SledIInv, SledTypes, RightCall, ReturnsHome, SledInv, StackInv, Depth, NR_syscalls

(* Every instruction of the sled and of the hook preserves the invariant. *)
LEMMA SledStep == ASSUME GoodCalls, SledIInv, [SledNext]_sledVars PROVE SledIInv'
<1> USE CallsAssumption, WordsAssumption DEF NR_syscalls, push8
<1>t. /\ SledTypes
      /\ nr \in 0..511 /\ nr \in Nat
      /\ nr % 3 = 1 => Patterned(nr)
  BY DEF SledIInv, SledTypes, GoodCalls
<1>1. CASE Jmp
  <2>1. /\ place = "sled" /\ rip < 512 /\ rip % 3 = 0 /\ rip <= 404
        /\ rip' = rip + 108
        /\ UNCHANGED <<nr, place, rax, sp, stack>>
    BY <1>1, <1>t DEF Jmp, Fetches, sled, SledTypes, jmp8, nop
  <2>2. rip' % 3 = 0 /\ rip' <= 512
    BY <2>1, <1>t DEF SledTypes
  <2>3. sp = 2 + Pushed
    BY <2>1, <1>t DEF SledIInv, SledInv, Pushed, Patterned, SledTypes
  <2>4. SledInv'
    BY <2>1, <2>2, <2>3 DEF SledIInv, SledInv, Pushed, Patterned, SledTypes
  <2> QED
    BY <2>1, <2>2, <2>4 DEF SledIInv, SledTypes, RightCall, ReturnsHome, StackInv
<1>2. CASE Push
  <2>1. /\ place = "sled" /\ rip < 512 /\ rip % 3 = 1 /\ rip <= 404
        /\ rip' = rip + 2
        /\ UNCHANGED <<nr, place, rax>>
    BY <1>2, <1>t DEF Push, Fetches, sled, SledTypes, jmp8, nop
  <2>2. rip' % 3 = 0 /\ rip' <= 512
    BY <2>1, <1>t DEF SledTypes
  <2>3. rip = nr /\ sp = 2 /\ Pushed = 1
    BY <2>1, <1>t DEF SledIInv, SledInv, Pushed, Patterned, SledTypes
  <2>4. sp' = 3 /\ stack' = [stack EXCEPT ![3] = 144]
    <3>1. sled(rip + 1) = 144
      BY <2>1, <1>t DEF sled, SledTypes, nop
    <3>2. sp' = sp + 1 /\ stack' = [stack EXCEPT ![sp + 1] = sled(rip + 1)]
      BY <1>2 DEF Push, push
    <3>3. sp + 1 = 3
      BY <2>3
    <3> QED
      BY ONLY <3>1, <3>2, <3>3
  <2>5. SledInv'
    BY <2>1, <2>2, <2>3, <2>4 DEF SledIInv, SledInv, Pushed, Patterned
  <2>6. SledTypes' /\ StackInv'
    BY <2>1, <2>2, <2>4, <1>t DEF SledIInv, SledTypes, StackInv, Depth
  <2> QED
    BY <2>1, <2>5, <2>6 DEF SledIInv, RightCall, ReturnsHome
<1>3. CASE Nop
  <2>1. /\ place = "sled" /\ rip < 512 /\ (rip % 3 = 2 \/ rip > 404)
        /\ rip' = rip + 1
        /\ UNCHANGED <<nr, place, rax, sp, stack>>
    BY <1>3, <1>t DEF Nop, Fetches, sled, SledTypes, jmp8, nop
  <2>2. (rip' % 3 = 0 \/ rip' > 404) /\ rip' <= 512
    BY <2>1, <1>t DEF SledTypes
  <2>3. sp = 2 + Pushed
    BY <2>1, <1>t DEF SledIInv, SledInv, Pushed, Patterned, SledTypes
  <2>4. SledInv'
    BY <2>1, <2>2, <2>3 DEF SledIInv, SledInv, Pushed, Patterned
  <2> QED
    BY <2>1, <2>2, <2>4, <1>t DEF SledIInv, SledTypes, RightCall, ReturnsHome, StackInv
<1>4. CASE JmpHook
  <2>1. /\ place = "sled" /\ rip = 512 /\ rax = nr /\ sp = 2 + Pushed
        /\ Pushed \in {0, 1}
    BY <1>4, <1>t DEF JmpHook, SledIInv, SledInv, Pushed, Patterned, SledTypes
  <2>2. /\ place' = "hook" /\ sp' = sp + 1
        /\ stack' = [stack EXCEPT ![sp + 1] = nr]
        /\ UNCHANGED <<nr, rip, rax>>
    BY <1>4, <2>1 DEF JmpHook, push
  <2>3. sp' \in Depth /\ stack'[sp'] = nr /\ stack'[2] = stack[2] /\ stack' \in [Depth -> Nat]
    BY <2>1, <2>2, <1>t DEF SledTypes, Depth
  <2>4. Pushed' = Pushed
    BY <2>2 DEF Pushed, Patterned
  <2> QED
    BY <2>1, <2>2, <2>3, <2>4, <1>t DEF SledIInv, SledTypes, RightCall, ReturnsHome, SledInv, StackInv
<1>5. CASE Hook
  <2>1. place = "hook" /\ sp = 3 + Pushed /\ stack[sp] = nr /\ stack[2] = Ret
    BY <1>5 DEF Hook, SledIInv, StackInv
  <2>2. Discards(nr) <=> Pushed = 1
    BY <1>t, DiscardTest DEF Pushed
  <2>3. Pushed \in {0, 1}
    BY DEF Pushed
  <2>4. /\ sp' = 2 /\ rax' = nr
        /\ place' = IF nr = 15 THEN "sigreturn" ELSE "call"
        /\ UNCHANGED <<nr, rip, stack>>
    BY <1>5, <2>1, <2>2, <2>3 DEF Hook
  <2> QED
    BY <2>1, <2>4, <1>t DEF SledIInv, SledTypes, RightCall, ReturnsHome, SledInv, StackInv, Depth
<1>6. CASE Sigreturn
  BY <1>6, <1>t DEF Sigreturn, SledIInv, SledTypes, RightCall, ReturnsHome, SledInv, StackInv, Depth
<1>7. CASE Return
  <2>1. place = "call" /\ sp = 2 /\ stack[sp] = Ret /\ rax = nr
    BY <1>7 DEF Return, SledIInv, StackInv, RightCall
  <2>2. place' = "back" /\ rip' = Ret /\ sp' = 1 /\ UNCHANGED <<nr, rax, stack>>
    BY <1>7, <2>1 DEF Return, is_replaced
  <2> QED
    BY <2>1, <2>2, <1>t DEF SledIInv, SledTypes, RightCall, ReturnsHome, SledInv, StackInv, Depth
<1>8. CASE UNCHANGED sledVars
  BY <1>8 DEF sledVars, SledIInv, SledTypes, RightCall, ReturnsHome, SledInv, StackInv, Pushed, Patterned
<1> QED
  BY <1>1, <1>2, <1>3, <1>4, <1>5, <1>6, <1>7, <1>8 DEF SledNext

-----------------------------------------------------------------------------

(* What the sled has pushed is what the hook discards, at every instruction. *)
THEOREM SledInvariance == ASSUME GoodCalls PROVE SledSpec => []SledIInv
BY SledAtStart, SledStep, PTL DEF SledSpec

(* Every rewritten system call returns to its caller with the stack it left. *)
THEOREM EveryCallReturnsHome == ASSUME GoodCalls PROVE SledSpec => []ReturnsHome
<1>1. SledIInv => ReturnsHome
  BY DEF SledIInv
<1> QED
  BY <1>1, SledInvariance, PTL

(* Sliding through the sled never changes which call the kernel gets. *)
THEOREM TheCallAskedFor == ASSUME GoodCalls PROVE SledSpec => []RightCall
<1>1. SledIInv => RightCall
  BY DEF SledIInv
<1> QED
  BY <1>1, SledInvariance, PTL
=============================================================================
