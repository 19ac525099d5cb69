----------------------------- MODULE HooksProofs ------------------------------
(***************************************************************************)
(* What holds of Hooks for every number of threads, descriptors and names, *)
(* every list of hooked names and every size of the io_uring: a descriptor *)
(* and its two tables belong together, its position is where its last read *)
(* or write ended as long as those were whole and one at a time, and a     *)
(* thread whose entry has not been given out again is let go by the        *)
(* completion of its own request.                                          *)
(***************************************************************************)
EXTENDS Hooks, FiniteSetTheorems, SequenceTheorems, WellFoundedInduction, TLAPS

-----------------------------------------------------------------------------
(* The ring.                                                                *)

Entries == {e \in [slot : 0..(QD - 1), nr : Nat] : e.slot = e.nr % QD}
Completions == {c \in [slot : 0..(QD - 1), nr : Nat, ok : BOOLEAN] : c.slot = c.nr % QD}

RingType ==
    /\ sq \in Seq(Entries) /\ inflight \subseteq Entries /\ cq \in Seq(Completions)
    /\ issued \in Nat /\ failed \subseteq Nat
    /\ done_flag \in [0..(QD - 1) -> 0..1]
    /\ at \in [Threads -> {"out", "spin", "wait"}] /\ mine \in [Threads -> Entries]
    /\ alone \in [Threads -> BOOLEAN]

In(t) == at[t] # "out"
MineInv == \A t \in Threads : mine[t].nr <= issued /\ (In(t) => mine[t].nr < issued)

(* A request is prepared, at work or completed.                             *)
RequestInv ==
    /\ inflight \cap ToSet(sq) = {}
    /\ \A e \in inflight \cup ToSet(sq) : e.nr < issued /\ e.nr \notin failed
    /\ \A n \in failed : n < issued
    /\ \A c \in ToSet(cq) :
          /\ c.nr < issued /\ (c.ok => c.nr \notin failed)
          /\ \A e \in inflight \cup ToSet(sq) : e.nr # c.nr

(* What there is of a thread's entry, prepared, at work, completed or noted,  *)
(* is of its own request, until the entry is given out again.                 *)
FlagInv == \A t \in Threads : In(t) /\ Undisturbed(t) =>
    /\ done_flag[mine[t].slot] = 1 => OwnDone(t)
    /\ \A d \in inflight \cup ToSet(sq) \cup ToSet(cq) :
          d.slot = mine[t].slot => d.nr = mine[t].nr

RingInv == RingType /\ PendingExact /\ MineInv /\ RequestInv /\ FlagInv

-----------------------------------------------------------------------------
(* The tables.                                                              *)

Naming == {"open", "install", "unlink", "kunlink"}
Holding == {"install", "clear", "kclose"}
Using == {"test", "move"}
Handles == {handle(n) : n \in Names} \cup {NOT_USED_FD}
Places == {"idle"} \cup Naming \cup Holding \cup Using
Args == [name : Names \cup {NoFile}, fd : Fds \cup {0}, hookfd : Handles, write : BOOLEAN,
         seq : BOOLEAN, pos : Nat, count : 0..2, len : 0..2, left : 0..2]

TablesType ==
    /\ USE_IO_URING \in BOOLEAN
    /\ kfile \in [Fds -> Names \cup {NoFile}]
    /\ knames \subseteq Names /\ mnames \subseteq Names
    /\ hookfds \in [Fds -> Handles] /\ opened \subseteq Fds
    /\ pc \in [Threads -> Places] /\ arg \in [Threads -> Args]
    /\ calls \in 0..MaxCalls

DataType ==
    /\ blocks \in [Names -> SUBSET Nat] /\ (\A n \in Names : IsFiniteSet(blocks[n]))
    /\ cur_pos \in [Fds -> Nat] /\ ended \in [Fds -> Nat] /\ whole \in [Fds -> BOOLEAN]

(* What a thread knows of its name or its descriptor where it is. *)
ThreadInv(t) ==
    /\ pc[t] \in Naming <=> arg[t].name \in Names
    /\ pc[t] \in Holding =>
          arg[t].fd \in Fds /\ arg[t].fd \notin opened /\ kfile[arg[t].fd] # NoFile
    /\ pc[t] \in {"install", "kclose"} => hookfds[arg[t].fd] = NOT_USED_FD
    /\ pc[t] = "install" =>
          /\ kfile[arg[t].fd] = arg[t].name
          /\ is_hooked_filename(arg[t].name) /\ arg[t].name \in knames
    /\ pc[t] = "kunlink" => arg[t].name \notin mnames
    /\ ~USE_IO_URING => arg[t].left <= arg[t].len
    /\ pc[t] \in Using => arg[t].fd \in opened
    /\ pc[t] = "move" =>
          hookfds[arg[t].fd] # NOT_USED_FD /\ arg[t].hookfd = hookfds[arg[t].fd]

(* No two threads open or unlink one name, or open or close one descriptor. *)
Apart == \A t, u \in Threads : t # u =>
    /\ arg[t].name \in Names => arg[u].name # arg[t].name
    /\ pc[t] \in Holding /\ pc[u] \in Holding => arg[u].fd # arg[t].fd

(* The two tables, of a descriptor the program has and of one it has not. *)
FdInv(f) ==
    /\ kfile[f] = NoFile => f \notin opened /\ hookfds[f] = NOT_USED_FD
    /\ f \in opened =>
          hookfds[f] = IF is_hooked_filename(kfile[f]) THEN handle(kfile[f]) ELSE NOT_USED_FD

(* The position, and the one call that is about to change it. *)
Mover(t, f) == pc[t] = "move" /\ arg[t].seq /\ arg[t].fd = f
PosInv(f) == f \in opened /\ ~USE_IO_URING /\ whole[f] =>
    /\ hookfds[f] # NOT_USED_FD => cur_pos[f] = ended[f]
    /\ \A t \in Threads : Mover(t, f) =>
          /\ arg[t].pos = cur_pos[f] /\ arg[t].len = arg[t].count
          /\ \A u \in Threads : Mover(u, f) => u = t

TablesInv ==
    /\ TablesType /\ DataType
    /\ \A t \in Threads : ThreadInv(t)
    /\ Apart
    /\ \A f \in Fds : FdInv(f) /\ PosInv(f)
    /\ NamesAgree

IInv == RingInv /\ TablesInv

-----------------------------------------------------------------------------
(* Sequences as sets.                                                       *)

LEMMA Empties == ToSet(<<>>) = {} /\ Len(<<>>) = 0
BY DEF ToSet

LEMMA Appends ==
    ASSUME NEW S, NEW s \in Seq(S), NEW x \in S
    PROVE  /\ Append(s, x) \in Seq(S) /\ Len(Append(s, x)) = Len(s) + 1
           /\ ToSet(Append(s, x)) = ToSet(s) \cup {x}
<1>1. /\ Append(s, x) \in Seq(S) /\ Len(Append(s, x)) = Len(s) + 1
      /\ Append(s, x)[Len(s) + 1] = x /\ \A i \in 1..Len(s) : Append(s, x)[i] = s[i]
  BY AppendProperties
<1> QED
  BY <1>1 DEF ToSet

(* What is taken off the front of a queue adds nothing to it. *)
LEMMA Shortens ==
    ASSUME NEW S, NEW s \in Seq(S), NEW n \in Nat
    PROVE  SubSeq(s, n + 1, Len(s)) \in Seq(S) /\ ToSet(SubSeq(s, n + 1, Len(s))) \subseteq ToSet(s)
<1>1. Len(s) \in Nat /\ DOMAIN s = 1..Len(s) /\ \A i \in 1..Len(s) : s[i] \in S
  OBVIOUS
<1>2. CASE n + 1 > Len(s)
  <2>1. SubSeq(s, n + 1, Len(s)) = <<>>
    BY <1>1, <1>2
  <2>2. <<>> \in Seq(S)
    BY EmptySeq
  <2> QED
    BY <2>1, <2>2, Empties
<1>3. CASE n + 1 <= Len(s)
  <2> DEFINE r == SubSeq(s, n + 1, Len(s))
  <2>1. r \in Seq(S) /\ DOMAIN r = 1..(Len(s) - n) /\ \A i \in 1..(Len(s) - n) : r[i] = s[i + n]
    BY <1>1, <1>3
  <2> HIDE DEF r
  <2>2. ToSet(r) \subseteq ToSet(s)
    <3> SUFFICES ASSUME NEW i \in 1..(Len(s) - n) PROVE r[i] \in ToSet(s)
      BY <2>1 DEF ToSet
    <3>1. i + n \in 1..Len(s) /\ r[i] = s[i + n]
      BY <1>1, <2>1
    <3> QED
      BY <1>1, <3>1 DEF ToSet
  <2> QED
    BY <2>1, <2>2 DEF r
<1> QED
  BY <1>1, <1>2, <1>3

LEMMA Members ==
    ASSUME NEW S, NEW s \in Seq(S)
    PROVE  ToSet(s) \subseteq S
BY DEF ToSet

LEMMA EntryFacts ==
    ASSUME NEW n \in Nat
    PROVE  Entry(n) \in Entries /\ Entry(n).nr = n /\ Entry(n).slot = n % QD
<1>1. n % QD \in 0..(QD - 1)
  BY RingAssumption
<1> QED
  BY <1>1 DEF Entry, Entries

(* Requests are entries with different numbers. *)
LEMMA EntryIs ==
    ASSUME NEW e \in Entries
    PROVE  /\ e.nr \in Nat /\ e.slot \in 0..(QD - 1) /\ e.slot = e.nr % QD
           /\ \A d \in Entries : d.nr = e.nr => d = e
BY DEF Entries

LEMMA GoodsNat == Goods \in Nat
BY DEF Goods

(* Numbers with one remainder are at least the divisor apart. *)
LEMMA SameRemainder ==
    ASSUME NEW k \in Nat \ {0}, NEW a \in Nat, NEW b \in Nat, a < b, a % k = b % k
    PROVE  a + k <= b
<1>1. a = k * (a \div k) + (a % k) /\ a \div k \in Int
  BY Z3
<1>2. b = k * (b \div k) + (b % k) /\ b \div k \in Int
  BY Z3
<1>3. PICK p, q \in Int : p = a \div k /\ q = b \div k
  BY <1>1, <1>2
<1>4. b - a = k * (q - p)
  BY <1>1, <1>2, <1>3
<1>5. q - p >= 1
  <2>1. ASSUME q - p <= 0 PROVE FALSE
    <3>1. k * (q - p) <= 0
      BY <2>1
    <3> QED
      BY <3>1, <1>4
  <2> QED
    BY <2>1
<1>6. k * (q - p) >= k
  BY <1>5
<1> QED
  BY <1>4, <1>6

-----------------------------------------------------------------------------
(* The steps of the ring.                                                   *)

LEMMA RingBase == RingInit => RingInv
<1> SUFFICES ASSUME RingInit PROVE RingInv
  OBVIOUS
<1>1. Entry(0) \in Entries /\ Entry(0).nr = 0
  BY EntryFacts
<1>2. sq = <<>> /\ cq = <<>> /\ ToSet(sq) = {} /\ ToSet(cq) = {} /\ Len(sq) = 0
  BY Empties DEF RingInit
<1>3. RingType
  BY <1>1, RingAssumption DEF RingInit, RingType
<1>4. PendingExact /\ MineInv
  BY <1>1, <1>2, RingAssumption DEF RingInit, PendingExact, MineInv, In
<1>5. RequestInv /\ FlagInv
  BY <1>2 DEF RingInit, RequestInv, FlagInv, In
<1> QED
  BY <1>3, <1>4, <1>5 DEF RingInv

LEMMA PrepareStep ==
    ASSUME RingInv, NEW t \in Threads, Prepare(t)
    PROVE  RingInv'
<1> DEFINE e0 == Entry(issued)
           full == pending_req >= TH1
<1>1. RingType /\ PendingExact /\ MineInv /\ RequestInv /\ FlagInv
  BY DEF RingInv
<1>2. issued \in Nat /\ TH1 \in Nat /\ QD \in Nat \ {0}
  BY <1>1, RingAssumption DEF RingType
<1>3. e0 \in Entries /\ e0.nr = issued /\ e0.slot = issued % QD
  BY <1>2, EntryFacts
<1>4. /\ at[t] = "out" /\ mine' = [mine EXCEPT ![t] = e0]
      /\ alone' = [alone EXCEPT ![t] = Fresh(e0)]
      /\ done_flag' = [done_flag EXCEPT ![e0.slot] = 0] /\ issued' = issued + 1
      /\ UNCHANGED <<cq, failed>>
  BY DEF Prepare, prepare
<1>6. full => /\ inflight' = inflight \cup ToSet(Append(sq, e0)) /\ sq' = <<>> /\ pending_req' = 0
              /\ at' = [at EXCEPT ![t] = "wait"]
  BY DEF Prepare, prepare, submit, enter
<1>7. ~full => /\ sq' = Append(sq, e0) /\ pending_req' = pending_req + 1
               /\ at' = [at EXCEPT ![t] = "spin"] /\ UNCHANGED inflight
  BY DEF Prepare, prepare
<1> HIDE DEF e0, full
(* The entry is prepared or at work. *)
<1>8. /\ sq' \in Seq(Entries) /\ pending_req' = Len(sq') /\ Len(sq') <= TH1
      /\ inflight' \cup ToSet(sq') = inflight \cup ToSet(sq) \cup {e0}
      /\ inflight' \cap ToSet(sq') = {}
  <2>1. /\ Append(sq, e0) \in Seq(Entries) /\ Len(Append(sq, e0)) = Len(sq) + 1
        /\ ToSet(Append(sq, e0)) = ToSet(sq) \cup {e0}
    BY <1>1, <1>3, Appends DEF RingType
  <2>2. CASE full
    BY <1>2, <1>6, <2>1, <2>2, Empties
  <2>3. CASE ~full
    <3>1. Len(sq) \in Nat /\ pending_req = Len(sq) /\ pending_req < TH1
      BY <1>1, <1>2, <2>3 DEF RingType, PendingExact, full
    <3>2. e0 \notin inflight
      <4>1. \A e \in inflight : e.nr < issued
        BY <1>1 DEF RequestInv
      <4> QED
        BY <1>2, <1>3, <4>1
    <3>3. inflight \cap ToSet(sq) = {}
      BY <1>1 DEF RequestInv
    <3>4. sq' = Append(sq, e0) /\ pending_req' = pending_req + 1 /\ inflight' = inflight
      BY <1>7, <2>3
    <3>5. Len(sq') = Len(sq) + 1 /\ pending_req' = Len(sq') /\ Len(sq') <= TH1
      BY <1>2, <2>1, <3>1, <3>4
    <3>6. ToSet(sq') = ToSet(sq) \cup {e0} /\ sq' \in Seq(Entries)
      BY <2>1, <3>4
    <3> QED
      BY <3>2, <3>3, <3>4, <3>5, <3>6
  <2> QED
    BY <2>2, <2>3
<1>9. /\ at' \in [Threads -> {"out", "spin", "wait"}] /\ at'[t] # "out" /\ mine'[t] = e0
      /\ \A u \in Threads : u # t => at'[u] = at[u] /\ mine'[u] = mine[u]
  BY <1>1, <1>4, <1>6, <1>7 DEF RingType
<1>10. RingType'
  <2>1. inflight' \subseteq Entries
    <3>1. ToSet(sq) \subseteq Entries
      BY <1>1, Members DEF RingType
    <3> QED
      BY <1>1, <1>3, <1>8, <3>1 DEF RingType
  <2>2. mine' \in [Threads -> Entries] /\ done_flag' \in [0..(QD - 1) -> 0..1] /\ issued' \in Nat
    BY <1>1, <1>2, <1>3, <1>4 DEF RingType
  <2>3. alone' \in [Threads -> BOOLEAN]
    <3>1. Fresh(e0) \in BOOLEAN
      BY DEF Fresh
    <3> QED
      BY <1>1, <1>4, <3>1 DEF RingType
  <2> QED
    BY <1>1, <1>4, <1>8, <1>9, <2>1, <2>2, <2>3 DEF RingType
<1>11. PendingExact'
  BY <1>8 DEF PendingExact
<1>12. \A u \in Threads : mine[u] \in Entries /\ mine[u].nr <= issued /\ mine[u].nr \in Nat
                          /\ (In(u) => mine[u].nr < issued)
  BY <1>1, EntryIs DEF MineInv, RingType
<1>13. MineInv'
  BY <1>2, <1>3, <1>4, <1>9, <1>12 DEF MineInv, In
<1>14. RequestInv'
  <2>1. ASSUME NEW e \in inflight' \cup ToSet(sq')
        PROVE  e.nr < issued' /\ e.nr \notin failed
    <3>1. CASE e = e0
      <4>1. issued \notin failed
        BY <1>1, <1>2 DEF RequestInv, RingType
      <4> QED
        BY <1>2, <1>3, <1>4, <3>1, <4>1
    <3>2. CASE e # e0
      <4>1. e \in inflight \cup ToSet(sq) /\ e \in Entries
        BY <1>1, <1>8, <2>1, <3>2, Members DEF RingType
      <4>2. e.nr \in Nat /\ e.nr < issued /\ e.nr \notin failed
        BY <1>1, <4>1, EntryIs DEF RequestInv
      <4> QED
        BY <1>2, <1>4, <4>2
    <3> QED
      BY <3>1, <3>2
  <2>2. \A n \in failed : n < issued'
    BY <1>1, <1>2, <1>4 DEF RequestInv, RingType
  <2>3. ASSUME NEW c \in ToSet(cq)
        PROVE  /\ c.nr < issued' /\ (c.ok => c.nr \notin failed)
               /\ \A e \in inflight' \cup ToSet(sq') : e.nr # c.nr
    <3>1. c \in Completions
      BY <1>1, Members DEF RingType
    <3>2. c.nr \in Nat
      BY <3>1 DEF Completions
    <3>3. /\ c.nr < issued /\ (c.ok => c.nr \notin failed)
          /\ \A e \in inflight \cup ToSet(sq) : e.nr # c.nr
      BY <1>1 DEF RequestInv
    <3> QED
      BY <1>2, <1>3, <1>4, <1>8, <3>2, <3>3
  <2> QED
    BY <1>4, <1>8, <2>1, <2>2, <2>3 DEF RequestInv
<1>15. FlagInv'
  <2> SUFFICES ASSUME NEW u \in Threads, at'[u] # "out", alone'[u], ~Lapped(u)'
               PROVE  /\ done_flag'[mine'[u].slot] = 1 =>
                            mine'[u] \notin inflight' \cup ToSet(sq') /\ mine'[u].nr \notin failed
                      /\ \A d \in inflight' \cup ToSet(sq') \cup ToSet(cq) :
                            d.slot = mine'[u].slot => d.nr = mine'[u].nr
    BY <1>4 DEF FlagInv, In, Undisturbed, OwnDone, Outstanding
  (* The thread itself is alone with the entry, and its flag is clear. *)
  <2>1. CASE u = t
    <3>1. done_flag'[e0.slot] = 0
      BY <1>1, <1>3, <1>4, EntryIs DEF RingType
    <3>2. alone'[t] => Fresh(e0)
      BY <1>1, <1>4 DEF RingType
    <3>3. \A d \in inflight \cup ToSet(sq) \cup ToSet(cq) : d.slot # e0.slot
      BY <2>1, <3>2 DEF Fresh
    <3> QED
      BY <1>8, <1>9, <2>1, <3>1, <3>3
  (* Another has lost its entry to it, or has another entry. *)
  <2>2. CASE u # t
    <3>1. /\ at[u] # "out" /\ mine'[u] = mine[u] /\ mine[u].nr \in Nat /\ mine[u].nr < issued
          /\ mine[u].slot = mine[u].nr % QD /\ alone'[u] = alone[u]
      BY <1>1, <1>4, <1>9, <1>12, <2>2, EntryIs DEF In, RingType
    <3>2. issued + 1 <= mine[u].nr + QD
      BY <1>2, <1>4, <3>1 DEF Lapped
    <3>3. mine[u].slot # e0.slot
      BY <1>2, <1>3, <3>1, <3>2, SameRemainder
    <3>4. In(u) /\ Undisturbed(u)
      BY <1>2, <3>1, <3>2 DEF In, Undisturbed, Lapped
    <3>5. done_flag'[mine[u].slot] = done_flag[mine[u].slot]
      BY <1>1, <1>4, <3>3 DEF RingType
    <3>6. mine[u] # e0
      BY <3>3
    <3> QED
      BY <1>1, <1>8, <3>1, <3>3, <3>4, <3>5, <3>6 DEF FlagInv, OwnDone, Outstanding
  <2> QED
    BY <2>1, <2>2
<1> QED
  BY <1>10, <1>11, <1>13, <1>14, <1>15 DEF RingInv

(* A thread that leaves its loop, or hands over what is prepared. *)
LEMMA SpinStep ==
    ASSUME RingInv, NEW t \in Threads, Spin(t)
    PROVE  RingInv'
<1>1. RingType /\ PendingExact /\ MineInv /\ RequestInv /\ FlagInv
  BY DEF RingInv
<1>2. /\ UNCHANGED <<cq, issued, done_flag, mine, failed, alone>>
      /\ at' \in [Threads -> {"out", "spin", "wait"}]
      /\ \A u \in Threads : at'[u] # "out" <=> at[u] # "out"
  <2>1. UNCHANGED <<cq, issued, done_flag, mine, failed, alone>>
    BY DEF Spin, ring
  <2>2. at[t] = "spin" /\ (at' = at \/ at' = [at EXCEPT ![t] = "wait"])
    BY DEF Spin, leaveSpin
  <2> QED
    BY <1>1, <2>1, <2>2 DEF RingType
<1>3. \/ UNCHANGED <<sq, inflight, pending_req>>
      \/ inflight' = inflight \cup ToSet(sq) /\ sq' = <<>> /\ pending_req' = 0
  BY DEF Spin, ring, submit, enter
<1>4. /\ sq' \in Seq(Entries) /\ pending_req' = Len(sq') /\ Len(sq') <= TH1
      /\ inflight' \cup ToSet(sq') = inflight \cup ToSet(sq)
      /\ inflight' \cap ToSet(sq') = {}
  <2>1. CASE UNCHANGED <<sq, inflight, pending_req>>
    BY <1>1, <2>1 DEF RingType, PendingExact, RequestInv
  <2>2. CASE inflight' = inflight \cup ToSet(sq) /\ sq' = <<>> /\ pending_req' = 0
    BY <1>1, <2>2, Empties, EmptySeq, RingAssumption
  <2> QED
    BY <1>3, <2>1, <2>2
<1>5. RingType'
  <2>1. inflight' \subseteq Entries
    <3>1. ToSet(sq) \subseteq Entries
      BY <1>1, Members DEF RingType
    <3> QED
      BY <1>1, <1>4, <3>1 DEF RingType
  <2> QED
    BY <1>1, <1>2, <1>4, <2>1 DEF RingType
<1>6. PendingExact' /\ MineInv'
  BY <1>1, <1>2, <1>4 DEF PendingExact, MineInv, In
<1>7. RequestInv'
  BY <1>1, <1>2, <1>4 DEF RequestInv
<1>8. FlagInv'
  BY <1>1, <1>2, <1>4 DEF FlagInv, In, Undisturbed, Lapped, OwnDone, Outstanding
<1> QED
  BY <1>5, <1>6, <1>7, <1>8 DEF RingInv

(* A flag that is set in the next state is the one of a request that is over. *)
LEMMA CheckFlags ==
    ASSUME RingInv, NEW t \in Threads, Check(t), NEW u \in Threads, In(u), Undisturbed(u),
           done_flag'[mine[u].slot] = 1
    PROVE  OwnDone(u)
<1>1. RingType /\ MineInv /\ RequestInv /\ FlagInv
  BY DEF RingInv
<1>2. mine[u] \in Entries /\ mine[u].slot \in DOMAIN done_flag
  BY <1>1, EntryIs DEF RingType
<1>3. done_flag'[mine[u].slot] =
          IF \E c \in ToSet(cq) : c.ok /\ c.slot = mine[u].slot THEN 1 ELSE done_flag[mine[u].slot]
  BY <1>2 DEF Check
<1>4. CASE done_flag[mine[u].slot] = 1
  BY <1>1, <1>4 DEF FlagInv
<1>5. ASSUME NEW c \in ToSet(cq), c.ok, c.slot = mine[u].slot
      PROVE  OwnDone(u)
  <2>1. c.nr = mine[u].nr
    BY <1>1, <1>5 DEF FlagInv
  <2>2. c.nr \notin failed /\ \A e \in inflight \cup ToSet(sq) : e.nr # c.nr
    BY <1>1, <1>5 DEF RequestInv
  <2> QED
    BY <2>1, <2>2 DEF OwnDone, Outstanding
<1> QED
  BY <1>3, <1>4, <1>5

LEMMA CheckStep ==
    ASSUME RingInv, NEW t \in Threads, Check(t)
    PROVE  RingInv'
<1>1. RingType /\ PendingExact /\ MineInv /\ RequestInv /\ FlagInv
  BY DEF RingInv
<1>2. /\ at[t] = "wait" /\ cq' = SubSeq(cq, Goods + 1, Len(cq))
      /\ UNCHANGED <<sq, inflight, issued, pending_req, failed>>
      /\ done_flag' = [s \in DOMAIN done_flag |->
                          IF \E c \in ToSet(cq) : c.ok /\ c.slot = s THEN 1 ELSE done_flag[s]]
  BY DEF Check
<1>3. cq' \in Seq(Completions) /\ ToSet(cq') \subseteq ToSet(cq)
  BY <1>1, <1>2, GoodsNat, Shortens DEF RingType
<1>4. Entry(0) \in Entries /\ Entry(0).nr = 0
  BY EntryFacts
<1>5. \/ at' = at /\ mine' = mine /\ alone' = alone
      \/ /\ at' = [at EXCEPT ![t] = "out"] /\ mine' = [mine EXCEPT ![t] = Entry(0)]
         /\ alone' = [alone EXCEPT ![t] = TRUE]
  BY DEF Check
<1>6. RingType'
  <2>1. at' \in [Threads -> {"out", "spin", "wait"}] /\ mine' \in [Threads -> Entries]
    BY <1>1, <1>4, <1>5 DEF RingType
  <2>2. done_flag' \in [0..(QD - 1) -> 0..1]
    BY <1>1, <1>2 DEF RingType
  <2>3. alone' \in [Threads -> BOOLEAN]
    BY <1>1, <1>5 DEF RingType
  <2> QED
    BY <1>1, <1>2, <1>3, <2>1, <2>2, <2>3 DEF RingType
<1>7. PendingExact'
  BY <1>1, <1>2 DEF PendingExact
(* Who was not in the backend is not; who is has the entry it had. *)
<1>8. \A u \in Threads : at'[u] # "out" =>
          at[u] # "out" /\ mine'[u] = mine[u] /\ alone'[u] = alone[u]
  BY <1>1, <1>5 DEF RingType
<1>9. MineInv'
  <2>1. \A u \in Threads : mine'[u].nr <= issued
    BY <1>1, <1>4, <1>5 DEF MineInv, RingType
  <2> QED
    BY <1>1, <1>2, <1>8, <2>1 DEF MineInv, In
<1>10. RequestInv'
  BY <1>1, <1>2, <1>3 DEF RequestInv
<1>11. FlagInv'
  <2> SUFFICES ASSUME NEW u \in Threads, at'[u] # "out", Undisturbed(u)'
               PROVE  /\ done_flag'[mine'[u].slot] = 1 => OwnDone(u)'
                      /\ \A d \in inflight' \cup ToSet(sq') \cup ToSet(cq') :
                            d.slot = mine'[u].slot => d.nr = mine'[u].nr
    BY DEF FlagInv, In
  <2>1. In(u) /\ mine'[u] = mine[u] /\ Undisturbed(u)
    BY <1>2, <1>8 DEF In, Undisturbed, Lapped
  <2>2. OwnDone(u) => OwnDone(u)'
    BY <1>2, <2>1 DEF OwnDone, Outstanding
  <2>3. \A d \in inflight \cup ToSet(sq) \cup ToSet(cq) : d.slot = mine[u].slot => d.nr = mine[u].nr
    BY <1>1, <2>1 DEF FlagInv
  <2>4. inflight' \cup ToSet(sq') \cup ToSet(cq') \subseteq inflight \cup ToSet(sq) \cup ToSet(cq)
    BY <1>2, <1>3
  <2>5. done_flag'[mine[u].slot] = 1 => OwnDone(u)
    BY <2>1, CheckFlags
  <2> QED
    BY <2>1, <2>2, <2>3, <2>4, <2>5
<1> QED
  BY <1>6, <1>7, <1>9, <1>10, <1>11 DEF RingInv

LEMMA CompleteStep ==
    ASSUME RingInv, NEW e0 \in inflight, NEW ok \in BOOLEAN, Complete(e0, ok)
    PROVE  RingInv'
<1>1. RingType /\ PendingExact /\ MineInv /\ RequestInv /\ FlagInv
  BY DEF RingInv
<1> DEFINE c0 == [slot |-> e0.slot, nr |-> e0.nr, ok |-> ok]
<1>2. /\ inflight' = inflight \ {e0} /\ cq' = Append(cq, c0)
      /\ failed' = IF ok THEN failed ELSE failed \cup {e0.nr}
      /\ UNCHANGED <<sq, issued, done_flag, pending_req, at, mine, alone>>
  BY DEF Complete
<1>3. /\ e0 \in Entries /\ e0.nr \in Nat /\ e0.slot \in 0..(QD - 1) /\ e0.slot = e0.nr % QD
      /\ \A d \in Entries : d.nr = e0.nr => d = e0
  BY <1>1, EntryIs DEF RingType
<1>4. c0 \in Completions /\ c0.slot = e0.slot /\ c0.nr = e0.nr /\ c0.ok = ok
  BY <1>3 DEF Completions
<1> HIDE DEF c0
<1>5. cq' \in Seq(Completions) /\ ToSet(cq') = ToSet(cq) \cup {c0}
  BY <1>1, <1>2, <1>4, Appends DEF RingType
(* No other request has its number. *)
<1>7. e0.nr < issued /\ e0.nr \notin failed
  BY <1>1 DEF RequestInv
<1>8. /\ inflight' \cup ToSet(sq) \subseteq inflight \cup ToSet(sq)
      /\ \A e \in inflight' \cup ToSet(sq) : e.nr # e0.nr
  <2>1. e0 \notin ToSet(sq)
    BY <1>1 DEF RequestInv
  <2>2. \A e \in inflight \cup ToSet(sq) : e \in Entries
    BY <1>1, Members DEF RingType
  <2> QED
    BY <1>2, <1>3, <2>1, <2>2
<1>9. RingType'
  <2>1. failed' \subseteq Nat /\ inflight' \subseteq Entries
    BY <1>1, <1>2, <1>3 DEF RingType
  <2> QED
    BY <1>1, <1>2, <1>5, <2>1 DEF RingType
<1>10. PendingExact' /\ MineInv'
  BY <1>1, <1>2 DEF PendingExact, MineInv, In
<1>11. RequestInv'
  <2>1. ASSUME NEW e \in inflight' \cup ToSet(sq)
        PROVE  e.nr < issued /\ e.nr \notin failed'
    <3>1. e \in inflight \cup ToSet(sq) /\ e.nr # e0.nr
      BY <1>8
    <3> QED
      BY <1>1, <1>2, <3>1 DEF RequestInv
  <2>2. \A n \in failed' : n < issued
    BY <1>1, <1>2, <1>7 DEF RequestInv
  <2>3. ASSUME NEW c \in ToSet(cq')
        PROVE  /\ c.nr < issued /\ (c.ok => c.nr \notin failed')
               /\ \A e \in inflight' \cup ToSet(sq) : e.nr # c.nr
    <3>1. CASE c = c0
      BY <1>2, <1>4, <1>7, <1>8, <3>1
    <3>2. CASE c \in ToSet(cq)
      <4>1. /\ c.nr < issued /\ (c.ok => c.nr \notin failed)
            /\ \A e \in inflight \cup ToSet(sq) : e.nr # c.nr
        BY <1>1, <3>2 DEF RequestInv
      <4> QED
        BY <1>2, <1>8, <4>1
    <3> QED
      BY <1>5, <2>3, <3>1, <3>2
  <2>4. inflight' \cap ToSet(sq) = {}
    BY <1>1, <1>2 DEF RequestInv
  <2> QED
    BY <1>2, <2>1, <2>2, <2>3, <2>4 DEF RequestInv
<1>12. FlagInv'
  <2> SUFFICES ASSUME NEW u \in Threads, In(u), Undisturbed(u)
               PROVE  /\ done_flag[mine[u].slot] = 1 =>
                            mine[u] \notin inflight' \cup ToSet(sq) /\ mine[u].nr \notin failed'
                      /\ \A d \in inflight' \cup ToSet(sq) \cup ToSet(cq') :
                            d.slot = mine[u].slot => d.nr = mine[u].nr
    BY <1>2 DEF FlagInv, In, Undisturbed, Lapped, OwnDone, Outstanding
  <2>1. mine[u] \in Entries
    BY <1>1 DEF RingType
  <2>2. ASSUME done_flag[mine[u].slot] = 1
        PROVE  mine[u] \notin inflight' \cup ToSet(sq) /\ mine[u].nr \notin failed'
    <3>1. mine[u] \notin inflight \cup ToSet(sq) /\ mine[u].nr \notin failed
      BY <1>1, <2>2 DEF FlagInv, OwnDone, Outstanding
    <3>2. mine[u].nr # e0.nr
      BY <1>3, <2>1, <3>1
    <3> QED
      BY <1>2, <1>8, <3>1, <3>2
  <2>3. \A d \in inflight \cup ToSet(sq) \cup ToSet(cq) : d.slot = mine[u].slot => d.nr = mine[u].nr
    BY <1>1 DEF FlagInv
  (* The completion is of the request that was at work with the entry. *)
  <2>4. c0.slot = mine[u].slot => c0.nr = mine[u].nr
    BY <1>4, <2>3
  <2> QED
    BY <1>5, <1>8, <2>2, <2>3, <2>4
<1> QED
  BY <1>9, <1>10, <1>11, <1>12 DEF RingInv
-----------------------------------------------------------------------------
(* The steps of the tables.                                                 *)

(* Where a step leads to. *)
LEMMA Moves ==
    ASSUME TablesType, NEW t \in Threads, NEW l \in Places, NEW a \in Args, to(t, l, a)
    PROVE  /\ pc' \in [Threads -> Places] /\ arg' \in [Threads -> Args]
           /\ pc'[t] = l /\ arg'[t] = a
           /\ \A u \in Threads : u # t => pc'[u] = pc[u] /\ arg'[u] = arg[u]
BY DEF TablesType, to

LEMMA NoArgs ==
    /\ NoArg \in Args /\ NoArg.name \notin Names
    /\ NoArg = [name |-> NoFile, fd |-> 0, hookfd |-> NOT_USED_FD, write |-> FALSE,
                seq |-> FALSE, pos |-> 0, count |-> 0, len |-> 0, left |-> 0]
<1>1. NOT_USED_FD \in Handles
  BY DEF Handles
<1> QED
  BY <1>1, NamesAssumption DEF NoArg, Args

(* The records a call begins with, and what io_uring is given. *)
LEMMA CallArgs ==
    ASSUME NEW n \in Names, NEW f \in Fds, NEW w \in BOOLEAN, NEW s \in BOOLEAN,
           NEW h \in Handles, NEW c \in 0..2
    PROVE  /\ [NoArg EXCEPT !.name = n] \in Args
           /\ [NoArg EXCEPT !.fd = f] \in Args
           /\ [NoArg EXCEPT !.fd = f, !.write = w, !.seq = s, !.count = c] \in Args
           /\ [NoArg EXCEPT !.fd = f, !.hookfd = h, !.left = c] \in Args
<1>1. PICK b \in Args : b = NoArg
  BY NoArgs
<1>2. /\ [b EXCEPT !.name = n] \in Args
      /\ [b EXCEPT !.fd = f] \in Args
      /\ [b EXCEPT !.fd = f, !.write = w, !.seq = s, !.count = c] \in Args
      /\ [b EXCEPT !.fd = f, !.hookfd = h, !.left = c] \in Args
  BY DEF Args
<1> QED
  BY <1>1, <1>2

LEMMA ArgOf ==
    ASSUME TablesType, NEW t \in Threads
    PROVE  arg[t] \in Args /\ pc[t] \in Places
BY DEF TablesType

(* What read_impl transfers is some of what it is asked for. *)
LEMMA CutIs ==
    ASSUME DataType, NEW n \in Names, NEW pos \in Nat, NEW c \in 0..2
    PROVE  cut(n, pos, c) \in 0..2
<1>1. size(n) \in Nat
  BY FS_CardinalityType DEF DataType, size
<1> QED
  BY <1>1 DEF cut

(* Another thread knows what it knew if its descriptor and its name are left  *)
(* alone, as far as it relies on them.                                        *)
LEMMA ThreadStays ==
    ASSUME NEW u \in Threads, ThreadInv(u), pc'[u] = pc[u], arg'[u] = arg[u],
           UNCHANGED USE_IO_URING, NEW f, f = arg[u].fd,
           pc[u] \in Holding => kfile'[f] = kfile[f] /\ (f \notin opened => f \notin opened'),
           pc[u] \in {"install", "kclose", "move"} => hookfds'[f] = hookfds[f],
           pc[u] \in Using => (f \in opened => f \in opened'),
           arg[u].name \in knames => arg[u].name \in knames',
           pc[u] = "kunlink" /\ arg[u].name \notin mnames => arg[u].name \notin mnames'
    PROVE  ThreadInv(u)'
<1>1. arg[u].name = arg[u].name' /\ arg'[u].fd = f
  OBVIOUS
<1> QED
  BY DEF ThreadInv, Holding, Using, Naming, is_hooked_filename

LEMMA FdStays ==
    ASSUME NEW f \in Fds, FdInv(f), UNCHANGED USE_IO_URING, kfile'[f] = kfile[f],
           hookfds'[f] = hookfds[f], f \in opened' <=> f \in opened
    PROVE  FdInv(f)'
BY DEF FdInv, handle, is_hooked_filename

(* A position stays right while nobody new is about to change it. *)
LEMMA PosStays ==
    ASSUME NEW f \in Fds, PosInv(f), UNCHANGED USE_IO_URING, f \in opened' => f \in opened,
           hookfds'[f] = hookfds[f], cur_pos'[f] = cur_pos[f], ended'[f] = ended[f],
           whole'[f] => whole[f],
           \A u \in Threads : Mover(u, f)' => Mover(u, f) /\ arg'[u].pos = arg[u].pos
                                              /\ arg'[u].len = arg[u].len
                                              /\ arg'[u].count = arg[u].count
    PROVE  PosInv(f)'
BY DEF PosInv

(* Of a descriptor that nobody has, nothing is said. *)
LEMMA PosOf ==
    ASSUME NEW t \in Threads, \A u \in Threads : u # t => pc'[u] = pc[u] /\ arg'[u] = arg[u],
           pc'[t] # "move" \/ ~arg'[t].seq
    PROVE  \A f \in Fds, u \in Threads :
               Mover(u, f)' => u # t /\ Mover(u, f) /\ arg'[u] = arg[u]
BY DEF Mover

LEMMA ApartStays ==
    ASSUME Apart, NEW t \in Threads,
           \A u \in Threads : u # t => pc'[u] = pc[u] /\ arg'[u] = arg[u],
           arg'[t].name \in Names =>
               \/ arg'[t].name = arg[t].name
               \/ \A u \in Threads : u # t => arg[u].name # arg'[t].name,
           pc'[t] \in Holding =>
               \/ pc[t] \in Holding /\ arg'[t].fd = arg[t].fd
               \/ \A u \in Threads : u # t /\ pc[u] \in Holding => arg[u].fd # arg'[t].fd
    PROVE  Apart'
<1> SUFFICES ASSUME NEW v \in Threads, NEW u \in Threads, v # u
             PROVE  /\ arg'[v].name \in Names => arg'[u].name # arg'[v].name
                    /\ pc'[v] \in Holding /\ pc'[u] \in Holding => arg'[u].fd # arg'[v].fd
  BY DEF Apart, Holding
<1>1. CASE v = t
  BY <1>1 DEF Apart
<1>2. CASE u = t
  BY <1>2 DEF Apart
<1>3. CASE v # t /\ u # t
  BY <1>3 DEF Apart
<1> QED
  BY <1>1, <1>2, <1>3

LEMMA NamesStay ==
    ASSUME NamesAgree, UNCHANGED <<knames, mnames, USE_IO_URING>>,
           \A u \in Threads : arg[u].name \in Names => arg'[u].name = arg[u].name
    PROVE  NamesAgree'
<1> SUFFICES ASSUME NEW n \in Names, ~USE_IO_URING, is_hooked_filename(n),
                    \A u \in Threads : arg'[u].name # n
             PROVE  n \in knames <=> n \in mnames
  BY DEF NamesAgree, OwnName, is_hooked_filename
<1>1. \A u \in Threads : arg[u].name # n
  OBVIOUS
<1> QED
  BY <1>1 DEF NamesAgree, OwnName

(* A step that moves one thread, and at most blocks and positions. *)
LEMMA LocalStep ==
    ASSUME TablesInv, UNCHANGED <<USE_IO_URING, kernel, hookfds, mnames, opened>>,
           calls' \in 0..MaxCalls,
           NEW t \in Threads, NEW l \in Places, NEW a \in Args, to(t, l, a),
           ThreadInv(t)', DataType', \A f \in Fds : PosInv(f)',
           arg[t].name \in Names => a.name = arg[t].name,
           a.name \in Names => a.name = arg[t].name \/ OwnName(a.name),
           l \in Holding => pc[t] \in Holding /\ a.fd = arg[t].fd
    PROVE  TablesInv'
<1>1. /\ TablesType /\ Apart /\ NamesAgree /\ (\A u \in Threads : ThreadInv(u))
      /\ \A f \in Fds : FdInv(f)
  BY DEF TablesInv
<1>2. /\ pc' \in [Threads -> Places] /\ arg' \in [Threads -> Args]
      /\ pc'[t] = l /\ arg'[t] = a
      /\ \A u \in Threads : u # t => pc'[u] = pc[u] /\ arg'[u] = arg[u]
  BY <1>1, Moves
<1>3. UNCHANGED <<kfile, knames, hookfds, mnames, opened>>
  BY DEF kernel
<1>4. TablesType'
  BY <1>1, <1>2, <1>3 DEF TablesType, Places, Args, Handles, handle
<1>5. \A u \in Threads : ThreadInv(u)'
  <2> SUFFICES ASSUME NEW u \in Threads, u # t PROVE ThreadInv(u)'
    OBVIOUS
  <2>1. PICK f : f = arg[u].fd
    OBVIOUS
  <2> QED
    BY <1>1, <1>2, <1>3, <2>1, ThreadStays
<1>6. \A f \in Fds : FdInv(f)'
  BY <1>1, <1>3, FdStays
<1>7. Apart'
  <2>1. a.name \in Names => a.name = arg[t].name \/ \A u \in Threads : arg[u].name # a.name
    BY DEF OwnName
  <2> QED
    BY <1>1, <1>2, <2>1, ApartStays
<1>8. NamesAgree'
  <2>1. \A u \in Threads : arg[u].name \in Names => arg'[u].name = arg[u].name
    BY <1>2
  <2> QED
    BY <1>1, <1>3, <2>1, NamesStay
<1> QED
  BY <1>4, <1>5, <1>6, <1>7, <1>8 DEF TablesInv

(* A step that leaves the files and the positions alone, and after which the  *)
(* thread is about to change none.                                            *)
LEMMA DataStays ==
    ASSUME TablesInv, UNCHANGED <<USE_IO_URING, blocks, cur_pos, hookfds, opened, past>>,
           NEW t \in Threads, \A u \in Threads : u # t => pc'[u] = pc[u] /\ arg'[u] = arg[u],
           pc'[t] # "move" \/ ~arg'[t].seq
    PROVE  DataType' /\ \A f \in Fds : PosInv(f)'
<1>1. DataType /\ \A f \in Fds : PosInv(f)
  BY DEF TablesInv
<1>2. UNCHANGED <<ended, whole>>
  BY DEF past
<1>3. DataType'
  BY <1>1, <1>2 DEF DataType
<1>4. \A f \in Fds : PosInv(f)'
  BY <1>1, <1>2, PosOf, PosStays
<1> QED
  BY <1>3, <1>4
-----------------------------------------------------------------------------
(* Calls, and the steps that touch no table.                                *)

(* A call begins outside of every name and descriptor. *)
LEMMA Begins ==
    ASSUME TablesInv, UNCHANGED <<USE_IO_URING, opened, past>>,
           NEW t \in Threads, NEW l \in Places, NEW a \in Args, begin(t, l, a),
           ThreadInv(t)', a.name \in Names => OwnName(a.name), l \notin Holding, l # "move"
    PROVE  TablesInv'
<1>1. TablesType /\ ThreadInv(t)
  BY DEF TablesInv
<1>2. arg[t].name \notin Names
  BY <1>1 DEF begin, ThreadInv, Naming
<1>3. calls' \in 0..MaxCalls
  BY <1>1, NamesAssumption DEF begin, TablesType
<1>4. /\ pc'[t] = l /\ to(t, l, a)
      /\ \A u \in Threads : u # t => pc'[u] = pc[u] /\ arg'[u] = arg[u]
      /\ UNCHANGED <<kernel, hookfds, cur_pos, mnames, blocks>>
  BY <1>1, Moves DEF begin, tables
<1>5. DataType' /\ \A f \in Fds : PosInv(f)'
  BY <1>4, DataStays
<1> QED
  BY <1>2, <1>3, <1>4, <1>5, LocalStep

LEMMA CallOpenStep ==
    ASSUME TablesInv, UNCHANGED USE_IO_URING, NEW t \in Threads, NEW n \in Names, CallOpen(t, n)
    PROVE  TablesInv'
<1> DEFINE a == [NoArg EXCEPT !.name = n]
<1>1. a \in Args /\ a.name = n /\ a.left = 0 /\ a.len = 0
  BY NoArgs DEF Args
<1> HIDE DEF a
<1>2. begin(t, "open", a) /\ OwnName(n) /\ UNCHANGED <<opened, past>>
  BY DEF CallOpen, a
<1>3. TablesType
  BY DEF TablesInv
<1>4. pc'[t] = "open" /\ arg'[t] = a
  BY <1>1, <1>2, <1>3, Moves DEF begin, Places, Naming
<1>5. ThreadInv(t)'
  BY <1>1, <1>4 DEF ThreadInv, Naming, Holding, Using
<1> QED
  BY <1>1, <1>2, <1>5, Begins DEF Places, Naming, Holding

LEMMA CallUnlinkStep ==
    ASSUME TablesInv, UNCHANGED USE_IO_URING, NEW t \in Threads, NEW n \in Names, CallUnlink(t, n)
    PROVE  TablesInv'
<1> DEFINE a == [NoArg EXCEPT !.name = n]
<1>1. a \in Args /\ a.name = n /\ a.left = 0 /\ a.len = 0
  BY NoArgs DEF Args
<1> HIDE DEF a
<1>2. begin(t, "unlink", a) /\ OwnName(n) /\ UNCHANGED <<opened, past>>
  BY DEF CallUnlink, a
<1>3. TablesType
  BY DEF TablesInv
<1>4. pc'[t] = "unlink" /\ arg'[t] = a
  BY <1>1, <1>2, <1>3, Moves DEF begin, Places, Naming
<1>5. ThreadInv(t)'
  BY <1>1, <1>4 DEF ThreadInv, Naming, Holding, Using
<1> QED
  BY <1>1, <1>2, <1>5, Begins DEF Places, Naming, Holding

LEMMA CallIoStep ==
    ASSUME TablesInv, UNCHANGED USE_IO_URING, NEW t \in Threads, NEW f \in Fds,
           NEW w \in BOOLEAN, NEW s \in BOOLEAN, NEW c \in 1..2, CallIo(t, f, w, s, c)
    PROVE  TablesInv'
<1> DEFINE a == [NoArg EXCEPT !.fd = f, !.write = w, !.seq = s, !.count = c]
<1>1. a \in Args /\ a.name = NoArg.name /\ a.fd = f /\ a.left = 0 /\ a.len = 0
  <2>1. (\E b \in Args : b = NoArg /\ b.left = 0 /\ b.len = 0) /\ c \in 0..2
    BY NoArgs
  <2>2. PICK b \in Args : b = NoArg /\ b.left = 0 /\ b.len = 0
    BY <2>1
  <2> DEFINE b1 == [b EXCEPT !.fd = f, !.write = w, !.seq = s, !.count = c]
  <2>3. b1 \in Args /\ b1.name = b.name /\ b1.fd = f /\ b1.left = b.left /\ b1.len = b.len
    BY <2>1 DEF Args
  <2> QED
    BY <2>2, <2>3
<1> HIDE DEF a
<1>2. begin(t, "test", a) /\ f \in opened /\ UNCHANGED <<opened, past>>
  BY DEF CallIo, a
<1>3. TablesType
  BY DEF TablesInv
<1>4. pc'[t] = "test" /\ arg'[t] = a
  BY <1>1, <1>2, <1>3, Moves DEF begin, Places, Using
<1>5. ThreadInv(t)'
  BY <1>1, <1>2, <1>4, NoArgs DEF ThreadInv, Naming, Holding, Using
<1> QED
  BY <1>1, <1>2, <1>5, NoArgs, Begins DEF Places, Using, Holding

(* A call that is done, and has changed no position. *)
LEMMA LeaveStep ==
    ASSUME TablesInv, UNCHANGED USE_IO_URING, NEW t \in Threads, Plain(t) \/ Units(t)
    PROVE  TablesInv'
<1>1. TablesType /\ ThreadInv(t)
  BY DEF TablesInv
<1>2. /\ pc[t] \in Using /\ to(t, "idle", NoArg)
      /\ UNCHANGED <<kernel, hookfds, cur_pos, mnames, blocks, opened, past, calls>>
  BY DEF Plain, Units, Using, leave, tables
<1>3. /\ pc'[t] = "idle" /\ arg'[t] = NoArg
      /\ \A u \in Threads : u # t => pc'[u] = pc[u] /\ arg'[u] = arg[u]
  BY <1>1, <1>2, NoArgs, Moves DEF Places
<1>4. DataType' /\ \A f \in Fds : PosInv(f)'
  BY <1>2, <1>3, DataStays
<1>5. ThreadInv(t)'
  BY <1>3, NoArgs DEF ThreadInv, Naming, Holding, Using
<1>6. calls' \in 0..MaxCalls
  BY <1>1, <1>2 DEF TablesType
<1>7. arg[t].name \notin Names
  BY <1>1, <1>2 DEF ThreadInv, Using, Naming
<1> QED
  BY <1>2, <1>4, <1>5, <1>6, <1>7, NoArgs, LocalStep DEF Places, Holding

LEMMA HookedStep ==
    ASSUME TablesInv, UNCHANGED USE_IO_URING, NEW t \in Threads, Hooked(t)
    PROVE  TablesInv'
<1>1. TablesType /\ DataType /\ ThreadInv(t) /\ \A f \in Fds : FdInv(f) /\ PosInv(f)
  BY DEF TablesInv
<1>2. PICK f, h, c, s : f = arg[t].fd /\ h = hookfds[f] /\ c = arg[t].count /\ s = arg[t].seq
  OBVIOUS
<1>3. /\ pc[t] = "test" /\ h # NOT_USED_FD
      /\ UNCHANGED <<kernel, hookfds, cur_pos, mnames, blocks, opened, ended, calls>>
  BY <1>2 DEF Hooked, tables
<1>4. arg[t] \in Args /\ f \in opened /\ f \in Fds /\ arg[t].name \notin Names /\ h \in Handles
      /\ c \in 0..2 /\ s \in BOOLEAN /\ calls' \in 0..MaxCalls
  BY <1>1, <1>2, <1>3, ArgOf DEF ThreadInv, Using, Naming, TablesType, Args
(* io_uring. *)
<1>5. CASE USE_IO_URING
  <2> DEFINE a == [NoArg EXCEPT !.fd = f, !.hookfd = h, !.left = c]
  <2>1. to(t, "move", a) /\ UNCHANGED whole
    BY <1>2, <1>5 DEF Hooked
  <2>2. a \in Args /\ a.name \notin Names /\ a.fd = f /\ a.hookfd = h
    <3>1. PICK b \in Args : b = NoArg
      BY NoArgs
    <3> DEFINE b1 == [b EXCEPT !.fd = f, !.hookfd = h, !.left = c]
    <3>2. b1 \in Args /\ b1.name = b.name /\ b1.fd = f /\ b1.hookfd = h
      BY <1>4 DEF Args
    <3> QED
      BY <3>1, <3>2, NoArgs
  <2> HIDE DEF a
  <2>3. pc'[t] = "move" /\ arg'[t] = a
    BY <1>1, <2>1, <2>2, Moves DEF Places, Using
  <2>4. ThreadInv(t)'
    BY <1>2, <1>3, <1>4, <1>5, <2>2, <2>3 DEF ThreadInv, Naming, Holding, Using
  <2>5. DataType' /\ \A g \in Fds : PosInv(g)'
    BY <1>1, <1>3, <1>5, <2>1 DEF DataType, PosInv
  <2> QED
    BY <1>3, <1>4, <2>1, <2>2, <2>4, <2>5, LocalStep DEF Places, Using, Holding
(* myfs. *)
<1>6. CASE ~USE_IO_URING
  <2> DEFINE pos == IF s THEN cur_pos[f] ELSE 0
             len == IF arg[t].write THEN c ELSE cut(h, pos, c)
             a == [arg[t] EXCEPT !.hookfd = h, !.pos = pos, !.len = len, !.left = len]
  <2>1. to(t, "move", a) /\ whole' = [whole EXCEPT ![f] = @ /\ (s => len = c /\ ~Moving(f))]
    BY <1>2, <1>6 DEF Hooked
  <2>2. pos \in Nat /\ len \in 0..2
    <3>1. pos \in Nat
      BY <1>1, <1>4 DEF DataType
    <3>2. h \in Names
      BY <1>3, <1>4, <1>6 DEF Handles, handle
    <3>3. cut(h, pos, c) \in 0..2
      BY <1>1, <1>4, <3>1, <3>2, CutIs
    <3> QED
      BY <1>4, <3>1, <3>3
  <2> HIDE DEF pos, len
  <2>3. /\ a \in Args /\ a.name = arg[t].name /\ a.fd = f /\ a.hookfd = h /\ a.pos = pos
        /\ a.len = len /\ a.left = len /\ a.count = c /\ a.seq = s
    BY <1>2, <1>4, <2>2 DEF Args
  <2> HIDE DEF a
  <2>4. /\ pc'[t] = "move" /\ arg'[t] = a
        /\ \A u \in Threads : u # t => pc'[u] = pc[u] /\ arg'[u] = arg[u]
    BY <1>1, <2>1, <2>3, Moves DEF Places, Using
  <2>5. ThreadInv(t)'
    BY <1>2, <1>3, <1>4, <2>2, <2>3, <2>4 DEF ThreadInv, Naming, Holding, Using
  <2>6. /\ whole' \in [Fds -> BOOLEAN] /\ (\A g \in Fds : g # f => whole'[g] = whole[g])
        /\ (whole'[f] => whole[f]) /\ (whole'[f] /\ s => len = c /\ ~Moving(f))
    <3>1. PICK b \in BOOLEAN : b = (s => len = c /\ ~Moving(f))
      OBVIOUS
    <3>2. whole' = [whole EXCEPT ![f] = whole[f] /\ b]
      BY <2>1, <3>1
    <3>3. whole' \in [Fds -> BOOLEAN] /\ (whole'[f] <=> whole[f] /\ b)
          /\ (\A g \in Fds : g # f => whole'[g] = whole[g])
      BY <1>1, <1>4, <3>2 DEF DataType
    <3> QED
      BY <3>1, <3>3
  <2>7. DataType'
    BY <1>1, <1>3, <2>6 DEF DataType
  <2>8. \A g \in Fds, u \in Threads : u # t \/ g # f =>
            (Mover(u, g)' => Mover(u, g) /\ arg'[u] = arg[u])
    BY <2>3, <2>4 DEF Mover
  <2>9. ASSUME NEW g \in Fds PROVE PosInv(g)'
    <3>1. CASE g # f \/ ~s
      <4>1. whole'[g] => whole[g]
        BY <2>6
      <4>2. \A u \in Threads : Mover(u, g)' => Mover(u, g) /\ arg'[u] = arg[u]
        BY <2>3, <2>4, <2>8, <3>1 DEF Mover
      <4> QED
        BY <1>1, <1>3, <4>1, <4>2, PosStays
    (* The call is the only one on its way, and whole. *)
    <3>2. CASE g = f /\ s
      <4> SUFFICES ASSUME whole'[f] PROVE PosInv(f)'
        BY <3>2 DEF PosInv
      <4>1. whole[f] /\ len = c /\ \A u \in Threads : ~Mover(u, f)
        BY <2>6, <3>2 DEF Moving, Mover
      <4>2. \A u \in Threads : Mover(u, f)' => u = t
        BY <1>4, <2>8, <4>1
      <4>3. pos = cur_pos[f]
        BY <3>2 DEF pos
      <4> QED
        BY <1>1, <1>3, <1>4, <1>6, <2>3, <2>4, <4>1, <4>2, <4>3 DEF PosInv
    <3> QED
      BY <1>4, <3>1, <3>2
  <2> QED
    BY <1>3, <1>4, <2>1, <2>3, <2>5, <2>7, <2>9, LocalStep DEF Places, Using, Holding
<1> QED
  BY <1>5, <1>6

(* One block of read_impl or write_impl, or one unit of io_uring. *)
LEMMA OneLess ==
    ASSUME TablesInv, UNCHANGED <<USE_IO_URING, kernel, hookfds, cur_pos, mnames, opened, past, calls>>,
           DataType', NEW t \in Threads, pc[t] = "move", arg[t].left > 0, oneLess(t)
    PROVE  TablesInv'
<1> DEFINE a == [arg[t] EXCEPT !.left = @ - 1]
<1>1. TablesType /\ ThreadInv(t) /\ \A f \in Fds : PosInv(f)
  BY DEF TablesInv
<1>2. to(t, "move", a) /\ UNCHANGED <<ended, whole>>
  BY DEF oneLess, past
<1>3. arg[t] \in Args /\ arg[t].name \notin Names /\ arg[t].left \in 1..2 /\ calls' \in 0..MaxCalls
  BY <1>1, ArgOf DEF ThreadInv, Naming, Args, TablesType
<1>4. /\ a \in Args /\ a.name = arg[t].name /\ a.fd = arg[t].fd /\ a.hookfd = arg[t].hookfd
      /\ a.left = arg[t].left - 1 /\ a.len = arg[t].len /\ a.pos = arg[t].pos
      /\ a.count = arg[t].count /\ a.seq = arg[t].seq
  BY <1>3 DEF Args
<1> HIDE DEF a
<1>5. /\ pc'[t] = "move" /\ arg'[t] = a
      /\ \A u \in Threads : u # t => pc'[u] = pc[u] /\ arg'[u] = arg[u]
  BY <1>1, <1>2, <1>4, Moves DEF Places, Using
<1>6. ThreadInv(t)'
  <2>1. ~USE_IO_URING => a.left <= a.len
    <3>1. arg[t].len \in 0..2
      BY <1>3 DEF Args
    <3> QED
      BY <1>1, <1>3, <1>4, <3>1 DEF ThreadInv
  <2> QED
    BY <1>1, <1>3, <1>4, <1>5, <2>1 DEF ThreadInv, Naming, Holding, Using
<1>7. \A f \in Fds : PosInv(f)'
  <2>1. \A f \in Fds, u \in Threads :
            Mover(u, f)' => Mover(u, f) /\ arg'[u].pos = arg[u].pos
                            /\ arg'[u].len = arg[u].len /\ arg'[u].count = arg[u].count
    BY <1>4, <1>5 DEF Mover
  <2> QED
    BY <1>1, <1>2, <2>1, PosStays
<1> QED
  BY <1>2, <1>3, <1>4, <1>6, <1>7, LocalStep DEF Places, Using, Holding

LEMMA TransferStep ==
    ASSUME TablesInv, UNCHANGED USE_IO_URING, NEW t \in Threads, Transfer(t)
    PROVE  TablesInv'
<1>1. TablesType /\ DataType /\ ThreadInv(t)
  BY DEF TablesInv
<1>2. /\ ~USE_IO_URING /\ pc[t] = "move" /\ arg[t].left > 0 /\ oneLess(t)
      /\ UNCHANGED <<kernel, hookfds, cur_pos, mnames, opened, past, calls>>
  BY DEF Transfer
<1>3. PICK n, b : /\ n = arg[t].hookfd /\ b = Next1(t)
                  /\ blocks' = blocks \/ blocks' = [blocks EXCEPT ![n] = @ \cup {b}]
  BY DEF Transfer
<1>4. b \in Nat
  <2>1. arg[t] \in Args /\ arg[t].left <= arg[t].len
    BY <1>1, <1>2, ArgOf DEF ThreadInv
  <2>2. arg[t].pos \in Nat /\ arg[t].len \in 0..2 /\ arg[t].left \in 0..2
    BY <2>1 DEF Args
  <2> QED
    BY <1>3, <2>1, <2>2 DEF Next1
<1>5. n \in Names
  <2>1. n = hookfds[arg[t].fd] /\ n # NOT_USED_FD /\ arg[t].fd \in Fds
    BY <1>1, <1>2, <1>3 DEF ThreadInv, Using, TablesType
  <2> QED
    BY <1>1, <1>2, <2>1 DEF TablesType, Handles, handle
<1>6. DataType'
  <2>1. UNCHANGED <<cur_pos, ended, whole>>
    BY <1>2 DEF past
  <2>2. CASE blocks' = blocks
    BY <1>1, <2>1, <2>2 DEF DataType
  <2>3. CASE blocks' = [blocks EXCEPT ![n] = @ \cup {b}]
    <3>1. IsFiniteSet(blocks[n] \cup {b})
      BY <1>1, <1>5, FS_AddElement DEF DataType
    <3>2. blocks' \in [Names -> SUBSET Nat] /\ \A m \in Names : IsFiniteSet(blocks'[m])
      BY <1>1, <1>4, <1>5, <2>3, <3>1 DEF DataType
    <3> QED
      BY <1>1, <2>1, <3>2 DEF DataType
  <2> QED
    BY <1>3, <2>2, <2>3
<1> QED
  BY <1>2, <1>6, OneLess

LEMMA UnitStep ==
    ASSUME TablesInv, UNCHANGED USE_IO_URING, NEW t \in Threads, Unit(t)
    PROVE  TablesInv'
<1>1. /\ pc[t] = "move" /\ arg[t].left > 0 /\ oneLess(t)
      /\ UNCHANGED <<kernel, hookfds, cur_pos, mnames, blocks, opened, past, ended, whole, calls>>
  BY DEF Unit, tables, past
<1>2. DataType'
  BY <1>1 DEF TablesInv, DataType
<1> QED
  BY <1>1, <1>2, OneLess

(* The position moves by the count, and so does where the call has ended if   *)
(* it was whole and alone.                                                    *)
LEMMA AdvanceStep ==
    ASSUME TablesInv, UNCHANGED USE_IO_URING, NEW t \in Threads, Advance(t)
    PROVE  TablesInv'
<1>1. TablesType /\ DataType /\ ThreadInv(t) /\ \A f \in Fds : FdInv(f) /\ PosInv(f)
  BY DEF TablesInv
<1>2. PICK f : f = arg[t].fd
  OBVIOUS
<1>3. /\ ~USE_IO_URING /\ pc[t] = "move" /\ to(t, "idle", NoArg)
      /\ UNCHANGED <<kernel, hookfds, mnames, blocks, opened, whole, calls>>
      /\ IF arg[t].seq THEN /\ cur_pos' = [cur_pos EXCEPT ![f] = @ + arg[t].count]
                            /\ ended' = [ended EXCEPT ![f] = arg[t].pos + arg[t].len]
                       ELSE UNCHANGED <<cur_pos, ended>>
  BY <1>2 DEF Advance, leave
<1>4. /\ arg[t] \in Args /\ f \in opened /\ f \in Fds /\ arg[t].name \notin Names
      /\ calls' \in 0..MaxCalls
  BY <1>1, <1>2, <1>3, ArgOf DEF ThreadInv, Using, Naming, TablesType
<1>5. arg[t].count \in Nat /\ arg[t].pos \in Nat /\ arg[t].len \in Nat
  BY <1>4 DEF Args
<1>6. /\ pc'[t] = "idle" /\ arg'[t] = NoArg
      /\ \A u \in Threads : u # t => pc'[u] = pc[u] /\ arg'[u] = arg[u]
  BY <1>1, <1>3, NoArgs, Moves DEF Places
<1>7. ThreadInv(t)'
  BY <1>6, NoArgs DEF ThreadInv, Naming, Holding, Using
<1>8. DataType'
  BY <1>1, <1>3, <1>4, <1>5 DEF DataType
<1>9. \A g \in Fds, u \in Threads : Mover(u, g)' => u # t /\ Mover(u, g) /\ arg'[u] = arg[u]
  BY <1>6, PosOf
<1>10. ASSUME NEW g \in Fds PROVE PosInv(g)'
  <2>1. CASE g # f \/ ~arg[t].seq
    <3>1. cur_pos'[g] = cur_pos[g] /\ ended'[g] = ended[g]
      BY <1>1, <1>3, <1>4, <2>1 DEF DataType
    <3> QED
      BY <1>1, <1>3, <1>9, <3>1, PosStays
  <2>2. CASE g = f /\ arg[t].seq
    <3> SUFFICES ASSUME whole[f] PROVE PosInv(f)'
      BY <1>3, <2>2 DEF PosInv
    <3>1. Mover(t, f)
      BY <1>2, <1>3, <2>2 DEF Mover
    <3>2. /\ arg[t].pos = cur_pos[f] /\ arg[t].len = arg[t].count
          /\ \A u \in Threads : Mover(u, f) => u = t
      BY <1>1, <1>3, <1>4, <3>1 DEF PosInv
    <3>3. cur_pos'[f] = cur_pos[f] + arg[t].count /\ ended'[f] = arg[t].pos + arg[t].len
      BY <1>1, <1>3, <1>4, <2>2 DEF DataType
    <3>4. \A u \in Threads : ~Mover(u, f)'
      BY <1>4, <1>9, <3>2
    <3> QED
      BY <3>2, <3>3, <3>4 DEF PosInv
  <2> QED
    BY <2>1, <2>2
<1> QED
  BY <1>3, <1>4, <1>7, <1>8, <1>10, NoArgs, LocalStep DEF Places, Holding

LEMMA LowestIn ==
    ASSUME NEW S \in SUBSET Fds, S # {}
    PROVE  Lowest(S) \in S
<1> DEFINE R == OpToRel(<, Nat)
<1>1. S \subseteq Nat
  BY NamesAssumption
<1>2. PICK f \in S : \A g \in S : ~(<<g, f>> \in R)
  BY <1>1, NatLessThanWellFounded, WFMin
<1>3. ASSUME NEW g \in S PROVE f <= g
  <2>1. <<g, f>> \notin R
    BY <1>2
  <2> QED
    BY <1>1, <2>1, SMT DEF OpToRel
<1> QED
  BY <1>3 DEF Lowest

(* The kernel's descriptor is one that nobody has, opens or closes. *)
LEMMA OpenKernelStep ==
    ASSUME TablesInv, UNCHANGED USE_IO_URING, NEW t \in Threads, OpenKernel(t)
    PROVE  TablesInv'
<1>1. /\ TablesType /\ DataType /\ Apart /\ NamesAgree /\ (\A u \in Threads : ThreadInv(u))
      /\ \A g \in Fds : FdInv(g) /\ PosInv(g)
  BY DEF TablesInv
<1>2. PICK f, n : f = Lowest({g \in Fds : kfile[g] = NoFile}) /\ n = arg[t].name
  OBVIOUS
<1>3. /\ pc[t] = "open" /\ kfile' = [kfile EXCEPT ![f] = n] /\ knames' = knames \cup {n}
      /\ UNCHANGED <<hookfds, cur_pos, mnames, blocks, calls>>
  BY <1>2 DEF OpenKernel, tables
<1>4. \/ /\ is_hooked_filename(n) /\ to(t, "install", [arg[t] EXCEPT !.fd = f])
         /\ UNCHANGED <<opened, ended, whole>>
      \/ /\ ~is_hooked_filename(n) /\ leave(t) /\ opened' = opened \cup {f}
         /\ ended' = [ended EXCEPT ![f] = 0] /\ whole' = [whole EXCEPT ![f] = TRUE]
  BY <1>2 DEF OpenKernel, opens, past
<1>5. f \in Fds /\ kfile[f] = NoFile
  <2> DEFINE S == {g \in Fds : kfile[g] = NoFile}
  <2>1. S # {} /\ S \in SUBSET Fds
    BY DEF OpenKernel
  <2>2. Lowest(S) \in S
    BY <2>1, LowestIn
  <2> QED
    BY <1>2, <2>2
<1>6. /\ n \in Names /\ n # NoFile /\ f \notin opened /\ hookfds[f] = NOT_USED_FD
  BY <1>1, <1>2, <1>3, <1>5, NamesAssumption DEF ThreadInv, Naming, FdInv
<1>7. /\ kfile' \in [Fds -> Names \cup {NoFile}] /\ kfile'[f] = n
      /\ \A g \in Fds : g # f => kfile'[g] = kfile[g]
  BY <1>1, <1>3, <1>5, <1>6 DEF TablesType
<1>8. \A u \in Threads : pc[u] \in Holding => arg[u].fd # f
  BY <1>1, <1>5 DEF ThreadInv
<1> DEFINE a == [arg[t] EXCEPT !.fd = f]
<1>9. a \in Args /\ a.name = n /\ a.fd = f /\ a.left = arg[t].left /\ a.len = arg[t].len
  <2>1. arg[t] \in Args
    BY <1>1, ArgOf
  <2> QED
    BY <1>2, <1>5, <2>1 DEF Args
<1> HIDE DEF a
<1>10. PICK l, b : /\ to(t, l, b) /\ l \in Places /\ b \in Args
                   /\ \/ /\ l = "install" /\ b = a /\ is_hooked_filename(n) /\ opened' = opened
                         /\ UNCHANGED <<ended, whole>>
                      \/ /\ l = "idle" /\ b = NoArg /\ ~is_hooked_filename(n)
                         /\ opened' = opened \cup {f} /\ ended' = [ended EXCEPT ![f] = 0]
                         /\ whole' = [whole EXCEPT ![f] = TRUE]
  <2>1. CASE is_hooked_filename(n)
    BY <1>4, <1>9, <2>1 DEF Places, Naming, a
  <2>2. CASE ~is_hooked_filename(n)
    BY <1>4, <2>2, NoArgs DEF Places, leave
  <2> QED
    BY <2>1, <2>2
<1>11. /\ pc' \in [Threads -> Places] /\ arg' \in [Threads -> Args] /\ pc'[t] = l /\ arg'[t] = b
       /\ \A u \in Threads : u # t => pc'[u] = pc[u] /\ arg'[u] = arg[u]
  BY <1>1, <1>10, Moves
<1>12. TablesType'
  <2>1. opened' \subseteq Fds /\ knames' \subseteq Names
    BY <1>1, <1>3, <1>5, <1>6, <1>10 DEF TablesType
  <2> QED
    BY <1>1, <1>3, <1>7, <1>11, <2>1 DEF TablesType, Places, Args, Handles, handle
<1>13. \A u \in Threads : ThreadInv(u)'
  <2>1. ThreadInv(t)'
    <3>1. CASE l = "install"
      <4>1. b = a /\ is_hooked_filename(n) /\ opened' = opened
        BY <1>10, <3>1
      <4>2. /\ arg'[t].fd = f /\ arg'[t].name = n /\ (~USE_IO_URING => arg'[t].left <= arg'[t].len)
            /\ pc'[t] = "install"
        BY <1>1, <1>9, <1>11, <3>1, <4>1 DEF ThreadInv
      <4>3. n \in knames'
        BY <1>3
      <4> QED
        BY <1>3, <1>5, <1>6, <1>7, <4>1, <4>2, <4>3
        DEF ThreadInv, Naming, Holding, Using, is_hooked_filename
    <3>2. CASE l = "idle"
      BY <1>10, <1>11, <3>2, NoArgs DEF ThreadInv, Naming, Holding, Using
    <3> QED
      BY <1>10, <3>1, <3>2
  <2>2. ASSUME NEW u \in Threads, u # t PROVE ThreadInv(u)'
    <3>1. PICK g : g = arg[u].fd
      OBVIOUS
    <3>2. pc[u] \in Holding => g \in Fds /\ g # f
      BY <1>1, <1>8, <3>1 DEF ThreadInv
    <3>3. pc[u] \in Holding => kfile'[g] = kfile[g] /\ (g \notin opened => g \notin opened')
      BY <1>7, <1>10, <3>2
    <3>4. g \in opened => g \in opened'
      BY <1>10
    <3> QED
      BY <1>1, <1>3, <1>11, <2>2, <3>1, <3>3, <3>4, ThreadStays
  <2> QED
    BY <2>1, <2>2
<1>14. \A g \in Fds : FdInv(g)'
  <2>1. FdInv(f)'
    <3>1. CASE l = "install"
      BY <1>6, <1>7, <1>10, <3>1 DEF FdInv
    <3>2. CASE l = "idle"
      <4>1. hookfds'[f] = NOT_USED_FD
        BY <1>3, <1>6
      <4> QED
        BY <1>6, <1>7, <1>10, <3>2, <4>1 DEF FdInv, is_hooked_filename
    <3> QED
      BY <1>10, <3>1, <3>2
  <2>2. ASSUME NEW g \in Fds, g # f PROVE FdInv(g)'
    <3>1. g \in opened' <=> g \in opened
      BY <1>10, <2>2
    <3> QED
      BY <1>1, <1>3, <1>7, <2>2, <3>1, FdStays
  <2> QED
    BY <2>1, <2>2
<1>15. Apart'
  <2>1. arg'[t].name \in Names => arg'[t].name = arg[t].name
    BY <1>2, <1>9, <1>10, <1>11, NoArgs
  <2>2. pc'[t] \in Holding => \A u \in Threads : u # t /\ pc[u] \in Holding => arg[u].fd # arg'[t].fd
    BY <1>8, <1>9, <1>10, <1>11 DEF Holding
  <2> QED
    BY <1>1, <1>11, <2>1, <2>2, ApartStays
<1>16. NamesAgree'
  <2> SUFFICES ASSUME NEW m \in Names, ~USE_IO_URING, is_hooked_filename(m),
                      \A u \in Threads : arg'[u].name # m
               PROVE  m \in knames' <=> m \in mnames
    BY <1>3 DEF NamesAgree, OwnName, is_hooked_filename
  <2>1. m # n
    BY <1>9, <1>10, <1>11
  <2>2. \A u \in Threads : arg[u].name # m
    BY <1>2, <1>11, <2>1
  <2>3. m \in knames <=> m \in mnames
    BY <1>1, <2>2 DEF NamesAgree, OwnName
  <2> QED
    BY <1>3, <2>1, <2>3
(* Nobody is about to move the new descriptor's position. *)
<1>17. DataType' /\ \A g \in Fds : PosInv(g)'
  <2>1. /\ ended' \in [Fds -> Nat] /\ whole' \in [Fds -> BOOLEAN]
        /\ \A g \in Fds : g # f => ended'[g] = ended[g] /\ whole'[g] = whole[g]
    <3>1. CASE UNCHANGED <<ended, whole>>
      BY <1>1, <3>1 DEF DataType
    <3>2. CASE ended' = [ended EXCEPT ![f] = 0] /\ whole' = [whole EXCEPT ![f] = TRUE]
      BY <1>1, <1>5, <3>2 DEF DataType
    <3> QED
      BY <1>10, <3>1, <3>2
  <2>2. DataType'
    BY <1>1, <1>3, <2>1 DEF DataType
  <2>3. \A g \in Fds, u \in Threads : Mover(u, g)' => u # t /\ Mover(u, g) /\ arg'[u] = arg[u]
    BY <1>10, <1>11, PosOf
  <2>4. PosInv(f)'
    <3>1. \A u \in Threads : ~Mover(u, f)
      BY <1>1, <1>6 DEF ThreadInv, Using, Mover
    <3> QED
      BY <1>3, <1>5, <1>6, <2>3, <3>1 DEF PosInv
  <2>5. ASSUME NEW g \in Fds, g # f PROVE PosInv(g)'
    BY <1>1, <1>3, <1>10, <2>1, <2>3, <2>5, PosStays
  <2> QED
    BY <2>2, <2>4, <2>5
<1> QED
  BY <1>12, <1>13, <1>14, <1>15, <1>16, <1>17 DEF TablesInv

LEMMA InstallStep ==
    ASSUME TablesInv, UNCHANGED USE_IO_URING, NEW t \in Threads, Install(t)
    PROVE  TablesInv'
<1>1. /\ TablesType /\ DataType /\ Apart /\ NamesAgree /\ (\A u \in Threads : ThreadInv(u))
      /\ \A g \in Fds : FdInv(g) /\ PosInv(g)
  BY DEF TablesInv
<1>2. PICK f, n : f = arg[t].fd /\ n = arg[t].name
  OBVIOUS
<1>3. /\ pc[t] = "install" /\ hookfds' = [hookfds EXCEPT ![f] = handle(n)]
      /\ mnames' = IF USE_IO_URING THEN mnames ELSE mnames \cup {n}
      /\ cur_pos' = [cur_pos EXCEPT ![f] = 0] /\ opened' = opened \cup {f} /\ leave(t)
      /\ ended' = [ended EXCEPT ![f] = 0] /\ whole' = [whole EXCEPT ![f] = TRUE]
      /\ UNCHANGED <<kfile, knames, blocks, calls>>
  BY <1>2 DEF Install, install, opens, kernel
<1>4. /\ f \in Fds /\ f \notin opened /\ kfile[f] = n
      /\ kfile[f] # NoFile /\ is_hooked_filename(n) /\ n \in knames /\ n \in Names
  BY <1>1, <1>2, <1>3 DEF ThreadInv, Holding, Naming
<1>5. /\ pc' \in [Threads -> Places] /\ arg' \in [Threads -> Args]
      /\ pc'[t] = "idle" /\ arg'[t] = NoArg
      /\ \A u \in Threads : u # t => pc'[u] = pc[u] /\ arg'[u] = arg[u]
  BY <1>1, <1>3, NoArgs, Moves DEF leave, Places
<1>6. /\ hookfds' \in [Fds -> Handles] /\ cur_pos' \in [Fds -> Nat]
      /\ hookfds'[f] = handle(n) /\ cur_pos'[f] = 0
      /\ \A g \in Fds : g # f => hookfds'[g] = hookfds[g] /\ cur_pos'[g] = cur_pos[g]
  <2>1. handle(n) \in Handles
    BY <1>4 DEF Handles
  <2> QED
    BY <1>1, <1>3, <1>4, <2>1 DEF TablesType, DataType
(* Nobody else opens or closes the descriptor, and nobody has it. *)
<1>7. \A u \in Threads : u # t /\ pc[u] \in Holding \cup Using => arg[u].fd \in Fds /\ arg[u].fd # f
  <2> SUFFICES ASSUME NEW u \in Threads, u # t, pc[u] \in Holding \cup Using
               PROVE  arg[u].fd \in Fds /\ arg[u].fd # f
    OBVIOUS
  <2>1. CASE pc[u] \in Using
    BY <1>1, <1>4, <2>1 DEF ThreadInv, TablesType
  <2>2. CASE pc[u] \in Holding
    <3>1. pc[t] \in Holding
      BY <1>3 DEF Holding
    <3>2. arg[u].fd # arg[t].fd
      BY <1>1, <2>2, <3>1 DEF Apart
    <3> QED
      BY <1>1, <1>2, <2>2, <3>2 DEF ThreadInv
  <2> QED
    BY <2>1, <2>2
<1>8. TablesType'
  <2>1. opened' \subseteq Fds /\ mnames' \subseteq Names
    BY <1>1, <1>3, <1>4 DEF TablesType
  <2>2. hookfds' \in [Fds -> Handles']
    BY <1>6 DEF Handles, handle
  <2> QED
    BY <1>1, <1>3, <1>5, <1>6, <2>1, <2>2 DEF TablesType, Places, Args, Handles, handle
<1>9. \A u \in Threads : ThreadInv(u)'
  <2>1. ThreadInv(t)'
    BY <1>5, NoArgs DEF ThreadInv, Naming, Holding, Using
  <2>2. ASSUME NEW u \in Threads, u # t PROVE ThreadInv(u)'
    <3>1. PICK g : g = arg[u].fd
      OBVIOUS
    <3>2. pc[u] \in Holding \cup Using => g \in Fds /\ g # f
      BY <1>7, <2>2, <3>1
    <3>3. pc[u] \in Holding => (g \notin opened => g \notin opened')
      BY <1>3, <3>2
    <3>4. pc[u] \in {"install", "kclose", "move"} => hookfds'[g] = hookfds[g]
      BY <1>6, <3>2 DEF Holding, Using
    <3>5. g \in opened => g \in opened'
      BY <1>3
    (* A name is opened by one thread at a time. *)
    <3>6. arg[u].name # n
      BY <1>1, <1>2, <1>4, <2>2 DEF Apart
    <3>7. arg[u].name \notin mnames => arg[u].name \notin mnames'
      BY <1>3, <3>6
    <3> QED
      BY <1>1, <1>3, <1>5, <2>2, <3>1, <3>3, <3>4, <3>5, <3>7, ThreadStays
  <2> QED
    BY <2>1, <2>2
<1>10. \A g \in Fds : FdInv(g)'
  <2>1. FdInv(f)'
    <3>1. kfile'[f] = n /\ n # NoFile
      BY <1>3, <1>4, <1>6
    <3>2. hookfds'[f] = handle(n) /\ is_hooked_filename(n)
      BY <1>4, <1>6
    <3> QED
      BY <3>1, <3>2 DEF FdInv, handle, is_hooked_filename
  <2>2. ASSUME NEW g \in Fds, g # f PROVE FdInv(g)'
    <3>1. g \in opened' <=> g \in opened
      BY <1>3, <2>2
    <3> QED
      BY <1>1, <1>3, <1>6, <2>2, <3>1, FdStays
  <2> QED
    BY <2>1, <2>2
<1>11. Apart'
  BY <1>1, <1>5, NoArgs, ApartStays DEF Holding
(* The name is in both directories when the thread is done with it. *)
<1>12. NamesAgree'
  <2> SUFFICES ASSUME NEW m \in Names, ~USE_IO_URING, is_hooked_filename(m),
                      \A u \in Threads : arg'[u].name # m
               PROVE  m \in knames <=> m \in mnames'
    BY <1>3 DEF NamesAgree, OwnName, is_hooked_filename
  <2>1. CASE m = n
    BY <1>3, <1>4, <2>1
  <2>2. CASE m # n
    <3>1. \A u \in Threads : arg[u].name # m
      BY <1>2, <1>5, <2>2
    <3>2. m \in knames <=> m \in mnames
      BY <1>1, <3>1 DEF NamesAgree, OwnName
    <3> QED
      BY <1>3, <2>2, <3>2
  <2> QED
    BY <2>1, <2>2
(* The position begins with the descriptor. *)
<1>13. DataType' /\ \A g \in Fds : PosInv(g)'
  <2>1. /\ ended' \in [Fds -> Nat] /\ whole' \in [Fds -> BOOLEAN] /\ ended'[f] = 0
        /\ \A g \in Fds : g # f => ended'[g] = ended[g] /\ whole'[g] = whole[g]
    BY <1>1, <1>3, <1>4 DEF DataType
  <2>2. DataType'
    BY <1>1, <1>3, <1>6, <2>1 DEF DataType
  <2>3. \A g \in Fds, u \in Threads : Mover(u, g)' => u # t /\ Mover(u, g) /\ arg'[u] = arg[u]
    BY <1>5, PosOf
  <2>4. PosInv(f)'
    <3>1. \A u \in Threads : ~Mover(u, f)
      BY <1>1, <1>4 DEF ThreadInv, Using, Mover
    <3> QED
      BY <1>4, <1>6, <2>1, <2>3, <3>1 DEF PosInv
  <2>5. ASSUME NEW g \in Fds, g # f PROVE PosInv(g)'
    BY <1>1, <1>3, <1>6, <2>1, <2>3, <2>5, PosStays
  <2> QED
    BY <2>2, <2>4, <2>5
<1> QED
  BY <1>8, <1>9, <1>10, <1>11, <1>12, <1>13 DEF TablesInv

LEMMA UnlinkMyfsStep ==
    ASSUME TablesInv, UNCHANGED USE_IO_URING, NEW t \in Threads, UnlinkMyfs(t)
    PROVE  TablesInv'
<1>1. /\ TablesType /\ DataType /\ Apart /\ NamesAgree /\ (\A u \in Threads : ThreadInv(u))
      /\ \A g \in Fds : FdInv(g) /\ PosInv(g)
  BY DEF TablesInv
<1>2. PICK n : n = arg[t].name
  OBVIOUS
<1>3. /\ pc[t] = "unlink" /\ mnames' = mnames \ {n} /\ to(t, "kunlink", arg[t])
      /\ blocks' = [blocks EXCEPT ![n] = {}]
      /\ UNCHANGED <<kfile, knames, hookfds, cur_pos, opened, ended, whole, calls>>
  BY <1>2 DEF UnlinkMyfs, goto, kernel, past
<1>4. arg[t] \in Args /\ n \in Names
  BY <1>1, <1>2, <1>3, ArgOf DEF ThreadInv, Naming
<1>5. /\ pc' \in [Threads -> Places] /\ arg' \in [Threads -> Args]
      /\ pc'[t] = "kunlink" /\ arg'[t] = arg[t]
      /\ \A u \in Threads : u # t => pc'[u] = pc[u] /\ arg'[u] = arg[u]
  BY <1>1, <1>3, <1>4, Moves DEF Places, Naming
<1>6. TablesType'
  BY <1>1, <1>3, <1>5 DEF TablesType, Places, Args, Handles, handle
<1>7. \A u \in Threads : ThreadInv(u)'
  <2>1. ThreadInv(t)'
    BY <1>1, <1>2, <1>3, <1>4, <1>5 DEF ThreadInv, Naming, Holding, Using
  <2>2. ASSUME NEW u \in Threads, u # t PROVE ThreadInv(u)'
    <3>1. PICK g : g = arg[u].fd
      OBVIOUS
    <3> QED
      BY <1>1, <1>3, <1>5, <2>2, <3>1, ThreadStays
  <2> QED
    BY <2>1, <2>2
<1>8. \A g \in Fds : FdInv(g)'
  BY <1>1, <1>3, FdStays
<1>9. Apart'
  BY <1>1, <1>5, ApartStays DEF Holding
<1>10. NamesAgree'
  <2> SUFFICES ASSUME NEW m \in Names, ~USE_IO_URING, is_hooked_filename(m),
                      \A u \in Threads : arg'[u].name # m
               PROVE  m \in knames <=> m \in mnames'
    BY <1>3 DEF NamesAgree, OwnName, is_hooked_filename
  <2>1. m # n
    BY <1>2, <1>5
  <2>2. \A u \in Threads : arg[u].name # m
    BY <1>5
  <2>3. m \in knames <=> m \in mnames
    BY <1>1, <2>2 DEF NamesAgree, OwnName
  <2> QED
    BY <1>3, <2>1, <2>3
<1>11. DataType'
  BY <1>1, <1>3, <1>4, FS_EmptySet DEF DataType
<1>12. \A g \in Fds : PosInv(g)'
  BY <1>1, <1>3, <1>5, PosOf, PosStays
<1> QED
  BY <1>6, <1>7, <1>8, <1>9, <1>10, <1>11, <1>12 DEF TablesInv

LEMMA UnlinkKernelStep ==
    ASSUME TablesInv, UNCHANGED USE_IO_URING, NEW t \in Threads, UnlinkKernel(t)
    PROVE  TablesInv'
<1>1. /\ TablesType /\ DataType /\ Apart /\ NamesAgree /\ (\A u \in Threads : ThreadInv(u))
      /\ \A g \in Fds : FdInv(g) /\ PosInv(g)
  BY DEF TablesInv
<1>2. PICK n : n = arg[t].name
  OBVIOUS
<1>3. /\ pc[t] = "kunlink" /\ knames' = knames \ {n} /\ leave(t)
      /\ UNCHANGED <<kfile, hookfds, cur_pos, mnames, blocks, opened, past, calls>>
  BY <1>2 DEF UnlinkKernel, tables
<1>4. n \in Names /\ n \notin mnames
  BY <1>1, <1>2, <1>3 DEF ThreadInv, Naming
<1>5. /\ pc' \in [Threads -> Places] /\ arg' \in [Threads -> Args]
      /\ pc'[t] = "idle" /\ arg'[t] = NoArg
      /\ \A u \in Threads : u # t => pc'[u] = pc[u] /\ arg'[u] = arg[u]
  BY <1>1, <1>3, NoArgs, Moves DEF leave, Places
<1>6. TablesType'
  <2>1. knames' \subseteq Names
    BY <1>1, <1>3 DEF TablesType
  <2> QED
    BY <1>1, <1>3, <1>5, <2>1 DEF TablesType, Places, Args, Handles, handle
<1>7. \A u \in Threads : ThreadInv(u)'
  <2>1. ThreadInv(t)'
    BY <1>5, NoArgs DEF ThreadInv, Naming, Holding, Using
  <2>2. ASSUME NEW u \in Threads, u # t PROVE ThreadInv(u)'
    <3>1. PICK g : g = arg[u].fd
      OBVIOUS
    <3>2. arg[u].name # n
      BY <1>1, <1>2, <1>4, <2>2 DEF Apart
    <3>3. arg[u].name \in knames => arg[u].name \in knames'
      BY <1>3, <3>2
    <3> QED
      BY <1>1, <1>3, <1>5, <2>2, <3>1, <3>3, ThreadStays
  <2> QED
    BY <2>1, <2>2
<1>8. \A g \in Fds : FdInv(g)'
  BY <1>1, <1>3, FdStays
<1>9. Apart'
  BY <1>1, <1>5, NoArgs, ApartStays DEF Holding
(* The name is in neither directory. *)
<1>10. NamesAgree'
  <2> SUFFICES ASSUME NEW m \in Names, ~USE_IO_URING, is_hooked_filename(m),
                      \A u \in Threads : arg'[u].name # m
               PROVE  m \in knames' <=> m \in mnames
    BY <1>3 DEF NamesAgree, OwnName, is_hooked_filename
  <2>1. CASE m = n
    BY <1>3, <1>4, <2>1
  <2>2. CASE m # n
    <3>1. \A u \in Threads : arg[u].name # m
      BY <1>2, <1>5, <2>2
    <3>2. m \in knames <=> m \in mnames
      BY <1>1, <3>1 DEF NamesAgree, OwnName
    <3> QED
      BY <1>3, <2>2, <3>2
  <2> QED
    BY <2>1, <2>2
<1>11. DataType' /\ \A g \in Fds : PosInv(g)'
  BY <1>3, <1>5, DataStays
<1> QED
  BY <1>6, <1>7, <1>8, <1>9, <1>10, <1>11 DEF TablesInv
-----------------------------------------------------------------------------
(* Closing.                                                                 *)

LEMMA Closes == CloseOrder[1] = "clear" /\ after("clear") = "kclose" /\ after("kclose") = "idle"
<1>1. /\ CloseOrder[1] = "clear" /\ CloseOrder[2] = "kclose" /\ CloseOrder[3] = "idle"
  BY DEF CloseOrder
<1>2. (CHOOSE i \in 1..2 : CloseOrder[i] = "clear") = 1
  <2>1. \A i \in 1..2 : CloseOrder[i] = "clear" <=> i = 1
    BY <1>1
  <2> QED
    BY <2>1
<1>3. (CHOOSE i \in 1..2 : CloseOrder[i] = "kclose") = 2
  <2>1. \A i \in 1..2 : CloseOrder[i] = "kclose" <=> i = 2
    BY <1>1
  <2> QED
    BY <2>1
<1> QED
  BY <1>1, <1>2, <1>3 DEF after

(* What a thread that closes or opens a descriptor shares with no other. *)
LEMMA Alone ==
    ASSUME TablesInv, NEW t \in Threads, pc[t] \in Holding,
           NEW u \in Threads, u # t, pc[u] \in Holding \cup Using
    PROVE  arg[u].fd \in Fds /\ arg[u].fd # arg[t].fd
<1>1. TablesType /\ Apart /\ ThreadInv(t) /\ ThreadInv(u)
  BY DEF TablesInv
<1>2. CASE pc[u] \in Using
  BY <1>1, <1>2 DEF ThreadInv, TablesType
<1>3. CASE pc[u] \in Holding
  BY <1>1, <1>3 DEF ThreadInv, Apart
<1> QED
  BY <1>2, <1>3

LEMMA CallCloseStep ==
    ASSUME TablesInv, UNCHANGED USE_IO_URING, NEW t \in Threads, NEW f \in Fds, CallClose(t, f)
    PROVE  TablesInv'
<1>1. /\ TablesType /\ DataType /\ Apart /\ NamesAgree /\ (\A u \in Threads : ThreadInv(u))
      /\ \A g \in Fds : FdInv(g) /\ PosInv(g)
  BY DEF TablesInv
<1> DEFINE a == [NoArg EXCEPT !.fd = f]
<1>2. a \in Args /\ a.name \notin Names /\ a.fd = f /\ a.left = 0 /\ a.len = 0
  BY NoArgs DEF Args
<1> HIDE DEF a
<1>3. /\ begin(t, "clear", a) /\ f \in opened /\ ~InUse(f)
      /\ opened' = opened \ {f} /\ UNCHANGED past
  BY Closes DEF CallClose, a
<1>4. /\ pc[t] = "idle" /\ calls' \in 0..MaxCalls /\ to(t, "clear", a)
      /\ UNCHANGED <<kfile, knames, hookfds, cur_pos, mnames, blocks>>
  BY <1>1, <1>3, NamesAssumption DEF begin, kernel, tables, TablesType
<1>5. /\ pc' \in [Threads -> Places] /\ arg' \in [Threads -> Args]
      /\ pc'[t] = "clear" /\ arg'[t] = a
      /\ \A u \in Threads : u # t => pc'[u] = pc[u] /\ arg'[u] = arg[u]
  BY <1>1, <1>2, <1>4, Moves DEF Places, Holding
<1>7. kfile[f] # NoFile
  BY <1>1, <1>3 DEF FdInv
(* No call uses the descriptor, and nobody opens or closes it. *)
<1>8. \A u \in Threads : pc[u] \in Holding \cup Using => arg[u].fd \in Fds /\ arg[u].fd # f
  <2> SUFFICES ASSUME NEW u \in Threads, pc[u] \in Holding \cup Using
               PROVE  arg[u].fd \in Fds /\ arg[u].fd # f
    OBVIOUS
  <2>1. CASE pc[u] \in Using
    BY <1>1, <1>3, <2>1 DEF ThreadInv, TablesType, InUse, Using
  <2>2. CASE pc[u] \in Holding
    BY <1>1, <1>3, <2>2 DEF ThreadInv
  <2> QED
    BY <2>1, <2>2
<1>9. TablesType'
  <2>1. opened' \subseteq Fds
    BY <1>1, <1>3 DEF TablesType
  <2> QED
    BY <1>1, <1>4, <1>5, <2>1 DEF TablesType, Places, Args, Handles, handle
<1>10. \A u \in Threads : ThreadInv(u)'
  <2>1. ThreadInv(t)'
    BY <1>2, <1>3, <1>4, <1>5, <1>7 DEF ThreadInv, Naming, Holding, Using
  <2>2. ASSUME NEW u \in Threads, u # t PROVE ThreadInv(u)'
    <3>1. PICK g : g = arg[u].fd
      OBVIOUS
    <3>2. pc[u] \in Holding \cup Using => g \in Fds /\ g # f
      BY <1>8, <3>1
    <3>3. pc[u] \in Holding => (g \notin opened => g \notin opened')
      BY <1>3, <3>2
    <3>4. pc[u] \in Using => (g \in opened => g \in opened')
      BY <1>3, <3>2
    <3> QED
      BY <1>1, <1>4, <1>5, <2>2, <3>1, <3>3, <3>4, ThreadStays
  <2> QED
    BY <2>1, <2>2
<1>11. \A g \in Fds : FdInv(g)'
  <2>1. FdInv(f)'
    BY <1>3, <1>4, <1>7 DEF FdInv
  <2>2. ASSUME NEW g \in Fds, g # f PROVE FdInv(g)'
    <3>1. g \in opened' <=> g \in opened
      BY <1>3, <2>2
    <3> QED
      BY <1>1, <1>4, <2>2, <3>1, FdStays
  <2> QED
    BY <2>1, <2>2
<1>12. Apart'
  <2>1. \A u \in Threads : u # t /\ pc[u] \in Holding => arg[u].fd # arg'[t].fd
    BY <1>2, <1>5, <1>8
  <2> QED
    BY <1>1, <1>2, <1>5, <2>1, ApartStays
<1>13. NamesAgree'
  <2>1. arg[t].name \notin Names
    BY <1>1, <1>4 DEF ThreadInv, Naming
  <2>2. \A u \in Threads : arg[u].name \in Names => arg'[u].name = arg[u].name
    BY <1>5, <2>1
  <2> QED
    BY <1>1, <1>4, <2>2, NamesStay
<1>14. DataType'
  BY <1>1, <1>3, <1>4 DEF DataType, past
<1>15. \A g \in Fds : PosInv(g)'
  BY <1>1, <1>3, <1>4, <1>5, PosOf, PosStays DEF past
<1> QED
  BY <1>9, <1>10, <1>11, <1>12, <1>13, <1>14, <1>15 DEF TablesInv

LEMMA CloseClearStep ==
    ASSUME TablesInv, UNCHANGED USE_IO_URING, NEW t \in Threads, CloseClear(t)
    PROVE  TablesInv'
<1>1. /\ TablesType /\ DataType /\ Apart /\ NamesAgree /\ (\A u \in Threads : ThreadInv(u))
      /\ \A g \in Fds : FdInv(g) /\ PosInv(g)
  BY DEF TablesInv
<1>2. PICK f : f = arg[t].fd
  OBVIOUS
<1>3. /\ pc[t] = "clear" /\ hookfds' = [hookfds EXCEPT ![f] = NOT_USED_FD]
      /\ to(t, "kclose", arg[t])
      /\ UNCHANGED <<kfile, knames, cur_pos, mnames, blocks, opened, past, calls>>
  BY <1>2, Closes DEF CloseClear, goto, kernel
<1>4. /\ pc[t] \in Holding /\ f \in Fds /\ f \notin opened /\ kfile[f] # NoFile
      /\ arg[t] \in Args /\ arg[t].name \notin Names
  BY <1>1, <1>2, <1>3, ArgOf DEF ThreadInv, Holding, Naming
<1>5. /\ pc' \in [Threads -> Places] /\ arg' \in [Threads -> Args]
      /\ pc'[t] = "kclose" /\ arg'[t] = arg[t]
      /\ \A u \in Threads : u # t => pc'[u] = pc[u] /\ arg'[u] = arg[u]
  BY <1>1, <1>3, <1>4, Moves DEF Places, Holding
<1>6. /\ hookfds' \in [Fds -> Handles] /\ hookfds'[f] = NOT_USED_FD
      /\ \A g \in Fds : g # f => hookfds'[g] = hookfds[g]
  BY <1>1, <1>3, <1>4 DEF TablesType, Handles
<1>7. TablesType'
  <2>1. hookfds' \in [Fds -> Handles']
    BY <1>6 DEF Handles, handle
  <2> QED
    BY <1>1, <1>3, <1>5, <2>1 DEF TablesType, Places, Args, Handles, handle
<1>8. \A u \in Threads : ThreadInv(u)'
  <2>1. ThreadInv(t)'
    BY <1>1, <1>2, <1>3, <1>4, <1>5, <1>6 DEF ThreadInv, Naming, Holding, Using
  <2>2. ASSUME NEW u \in Threads, u # t PROVE ThreadInv(u)'
    <3>1. PICK g : g = arg[u].fd
      OBVIOUS
    <3>2. pc[u] \in Holding \cup Using => g \in Fds /\ g # f
      BY <1>2, <1>4, <2>2, <3>1, Alone
    <3>3. pc[u] \in {"install", "kclose", "move"} => hookfds'[g] = hookfds[g]
      BY <1>6, <3>2 DEF Holding, Using
    <3> QED
      BY <1>1, <1>3, <1>5, <2>2, <3>1, <3>3, ThreadStays
  <2> QED
    BY <2>1, <2>2
<1>9. \A g \in Fds : FdInv(g)'
  <2>1. FdInv(f)'
    BY <1>3, <1>4 DEF FdInv
  <2>2. ASSUME NEW g \in Fds, g # f PROVE FdInv(g)'
    BY <1>1, <1>3, <1>6, <2>2, FdStays
  <2> QED
    BY <2>1, <2>2
<1>10. Apart'
  BY <1>1, <1>4, <1>5, ApartStays
<1>11. NamesAgree'
  <2>1. \A u \in Threads : arg[u].name \in Names => arg'[u].name = arg[u].name
    BY <1>5
  <2> QED
    BY <1>1, <1>3, <2>1, NamesStay
<1>12. DataType'
  BY <1>1, <1>3 DEF DataType, past
<1>13. ASSUME NEW g \in Fds PROVE PosInv(g)'
  <2>1. CASE g = f
    BY <1>3, <1>4, <2>1 DEF PosInv
  <2>2. CASE g # f
    BY <1>1, <1>3, <1>5, <1>6, <2>2, PosOf, PosStays DEF past
  <2> QED
    BY <2>1, <2>2
<1> QED
  BY <1>7, <1>8, <1>9, <1>10, <1>11, <1>12, <1>13 DEF TablesInv

(* The descriptor is given back with its entry already clear. *)
LEMMA CloseKernelStep ==
    ASSUME TablesInv, UNCHANGED USE_IO_URING, NEW t \in Threads, CloseKernel(t)
    PROVE  TablesInv'
<1>1. /\ TablesType /\ DataType /\ Apart /\ NamesAgree /\ (\A u \in Threads : ThreadInv(u))
      /\ \A g \in Fds : FdInv(g) /\ PosInv(g)
  BY DEF TablesInv
<1>2. PICK f : f = arg[t].fd
  OBVIOUS
<1>3. /\ pc[t] = "kclose" /\ kfile' = [kfile EXCEPT ![f] = NoFile]
      /\ to(t, "idle", arg[t])
      /\ UNCHANGED <<knames, hookfds, cur_pos, mnames, blocks, opened, past, calls>>
  BY <1>2, Closes DEF CloseKernel, goto, tables
<1>4. /\ pc[t] \in Holding /\ f \in Fds /\ f \notin opened /\ hookfds[f] = NOT_USED_FD
      /\ arg[t] \in Args /\ arg[t].name \notin Names
  BY <1>1, <1>2, <1>3, ArgOf DEF ThreadInv, Holding, Naming
<1>5. /\ pc' \in [Threads -> Places] /\ arg' \in [Threads -> Args]
      /\ pc'[t] = "idle" /\ arg'[t] = arg[t]
      /\ \A u \in Threads : u # t => pc'[u] = pc[u] /\ arg'[u] = arg[u]
  BY <1>1, <1>3, <1>4, Moves DEF Places
<1>6. /\ kfile' \in [Fds -> Names \cup {NoFile}]
      /\ \A g \in Fds : g # f => kfile'[g] = kfile[g]
  BY <1>1, <1>3, <1>4 DEF TablesType
<1>7. TablesType'
  BY <1>1, <1>3, <1>5, <1>6 DEF TablesType, Places, Args, Handles, handle
<1>8. \A u \in Threads : ThreadInv(u)'
  <2>1. ThreadInv(t)'
    BY <1>1, <1>4, <1>5 DEF ThreadInv, Naming, Holding, Using
  <2>2. ASSUME NEW u \in Threads, u # t PROVE ThreadInv(u)'
    <3>1. PICK g : g = arg[u].fd
      OBVIOUS
    <3>2. pc[u] \in Holding => g \in Fds /\ g # f
      BY <1>2, <1>4, <2>2, <3>1, Alone
    <3>3. pc[u] \in Holding => kfile'[g] = kfile[g]
      BY <1>6, <3>2
    <3> QED
      BY <1>1, <1>3, <1>5, <2>2, <3>1, <3>3, ThreadStays
  <2> QED
    BY <2>1, <2>2
<1>9. \A g \in Fds : FdInv(g)'
  <2>1. FdInv(f)'
    BY <1>3, <1>4, <1>6 DEF FdInv
  <2>2. ASSUME NEW g \in Fds, g # f PROVE FdInv(g)'
    BY <1>1, <1>3, <1>6, <2>2, FdStays
  <2> QED
    BY <2>1, <2>2
<1>10. Apart'
  <2>1. pc'[t] \notin Holding /\ arg'[t].name \notin Names
    BY <1>4, <1>5 DEF Holding
  <2> QED
    BY <1>1, <1>5, <2>1, ApartStays
<1>11. NamesAgree'
  <2>1. \A u \in Threads : arg[u].name \in Names => arg'[u].name = arg[u].name
    BY <1>5
  <2> QED
    BY <1>1, <1>3, <2>1, NamesStay
<1>12. DataType' /\ \A g \in Fds : PosInv(g)'
  BY <1>3, <1>5, DataStays
<1> QED
  BY <1>7, <1>8, <1>9, <1>10, <1>11, <1>12 DEF TablesInv

-----------------------------------------------------------------------------
(* The theorems.                                                            *)

LEMMA TablesBase == Init => TablesInv
<1> SUFFICES ASSUME Init PROVE TablesInv
  OBVIOUS
<1>1. pc = [t \in Threads |-> "idle"] /\ arg = [t \in Threads |-> NoArg]
  BY DEF Init
<1>2. TablesType
  <2>1. NOT_USED_FD \in Handles
    BY DEF Handles
  <2>2. arg \in [Threads -> Args] /\ pc \in [Threads -> Places]
    BY <1>1, NoArgs DEF Places
  <2> QED
    BY <2>1, <2>2, NamesAssumption DEF Init, TablesType, Args, Places
<1>3. \A t \in Threads : ThreadInv(t)
  BY <1>1, NoArgs DEF ThreadInv, Naming, Holding, Using
<1>4. Apart
  BY <1>1, NoArgs DEF Apart, Holding
<1>5. \A f \in Fds : FdInv(f) /\ PosInv(f)
  BY DEF Init, FdInv, PosInv
<1>7. DataType
  BY FS_EmptySet DEF Init, DataType
<1>6. NamesAgree
  BY DEF Init, NamesAgree
<1> QED
  BY <1>2, <1>3, <1>4, <1>5, <1>6, <1>7 DEF TablesInv

LEMMA RingStays == ASSUME RingInv, UNCHANGED ringVars PROVE RingInv'
<1>1. UNCHANGED <<sq, inflight, cq, issued, done_flag, pending_req, at, mine, failed, alone>>
  BY DEF ringVars, ring
<1> QED
  BY <1>1 DEF RingInv, RingType, PendingExact, MineInv, RequestInv, FlagInv, In, Undisturbed,
              Lapped, OwnDone, Outstanding

LEMMA TablesStay ==
    ASSUME TablesInv, UNCHANGED <<USE_IO_URING, notRing>>
    PROVE  TablesInv'
<1>1. /\ UNCHANGED <<USE_IO_URING, kfile, knames, hookfds, cur_pos, mnames, blocks>>
      /\ UNCHANGED <<opened, ended, whole, pc, arg, calls>>
  BY DEF notRing, kernel, tables, past
<1>2. /\ TablesType /\ DataType /\ Apart /\ NamesAgree /\ (\A u \in Threads : ThreadInv(u))
      /\ \A g \in Fds : FdInv(g) /\ PosInv(g)
  BY DEF TablesInv
<1>3. TablesType' /\ Apart'
  BY <1>1, <1>2 DEF TablesType, Args, Handles, handle, Apart
<1>7. DataType'
  BY <1>1, <1>2 DEF DataType
<1>4. \A u \in Threads : ThreadInv(u)'
  BY <1>1, <1>2 DEF ThreadInv, is_hooked_filename
<1>5. \A g \in Fds : FdInv(g)'
  BY <1>1, <1>2, FdStays
<1>8. \A g \in Fds : PosInv(g)'
  BY <1>1, <1>2 DEF PosInv, Mover
<1>6. NamesAgree'
  BY <1>1, <1>2, NamesStay
<1> QED
  BY <1>3, <1>4, <1>5, <1>6, <1>7, <1>8 DEF TablesInv

(* A step is one of the ring, one of the tables, or a unit, which is both.  *)
LEMMA NextStep == ASSUME IInv, Next PROVE IInv'
<1>1. RingInv /\ TablesInv /\ UNCHANGED USE_IO_URING
  BY DEF IInv, Next
<1>2. ASSUME Kernel, UNCHANGED notRing PROVE IInv'
  BY <1>1, <1>2, CompleteStep, TablesStay DEF Kernel, IInv
<1>3. ASSUME NEW t \in Threads, RingStep(t), UNCHANGED notRing PROVE IInv'
  BY <1>1, <1>3, SpinStep, CheckStep, TablesStay DEF RingStep, IInv
<1>4. ASSUME NEW t \in Threads, Unit(t) PROVE IInv'
  <2>1. Prepare(t)
    BY <1>4 DEF Unit
  <2> QED
    BY <1>1, <1>4, <2>1, PrepareStep, UnitStep DEF IInv
<1>5. ASSUME NEW t \in Threads, OpenKernel(t) \/ Install(t) \/ UnlinkMyfs(t) \/ UnlinkKernel(t)
      PROVE  IInv'
  <2>1. UNCHANGED ringVars
    BY <1>5 DEF OpenKernel, Install, install, UnlinkMyfs, UnlinkKernel
  <2>2. TablesInv'
    BY <1>1, <1>5, OpenKernelStep, InstallStep, UnlinkMyfsStep, UnlinkKernelStep
  <2> QED
    BY <1>1, <2>1, <2>2, RingStays DEF IInv
<1>6. ASSUME NEW t \in Threads, CloseClear(t) \/ CloseKernel(t) PROVE IInv'
  <2>1. UNCHANGED ringVars
    BY <1>6 DEF CloseClear, CloseKernel
  <2>2. TablesInv'
    BY <1>1, <1>6, CloseClearStep, CloseKernelStep
  <2> QED
    BY <1>1, <2>1, <2>2, RingStays DEF IInv
<1>7. ASSUME NEW t \in Threads, Plain(t) \/ Units(t) \/ Advance(t) PROVE IInv'
  <2>1. UNCHANGED ringVars
    BY <1>7 DEF Plain, Units, Advance
  <2>2. TablesInv'
    BY <1>1, <1>7, LeaveStep, AdvanceStep
  <2> QED
    BY <1>1, <2>1, <2>2, RingStays DEF IInv
<1>8. ASSUME NEW t \in Threads, Hooked(t) \/ Transfer(t) PROVE IInv'
  <2>1. UNCHANGED ringVars
    BY <1>8 DEF Hooked, Transfer
  <2>2. TablesInv'
    BY <1>1, <1>8, HookedStep, TransferStep
  <2> QED
    BY <1>1, <2>1, <2>2, RingStays DEF IInv
<1>9. ASSUME NEW t \in Threads, NEW n \in Names, CallOpen(t, n) \/ CallUnlink(t, n) PROVE IInv'
  <2>1. UNCHANGED ringVars
    BY <1>9 DEF CallOpen, CallUnlink, begin
  <2>2. TablesInv'
    BY <1>1, <1>9, CallOpenStep, CallUnlinkStep
  <2> QED
    BY <1>1, <2>1, <2>2, RingStays DEF IInv
<1>10. ASSUME NEW t \in Threads, NEW f \in Fds, CallClose(t, f) PROVE IInv'
  <2>1. UNCHANGED ringVars
    BY <1>10 DEF CallClose, begin
  <2>2. TablesInv'
    BY <1>1, <1>10, CallCloseStep
  <2> QED
    BY <1>1, <2>1, <2>2, RingStays DEF IInv
<1>11. ASSUME NEW t \in Threads, NEW f \in Fds, NEW w \in BOOLEAN, NEW s \in BOOLEAN,
              NEW c \in 1..2, CallIo(t, f, w, s, c)
       PROVE  IInv'
  <2>1. UNCHANGED ringVars
    BY <1>11 DEF CallIo, begin
  <2>2. TablesInv'
    BY <1>1, <1>11, CallIoStep
  <2> QED
    BY <1>1, <2>1, <2>2, RingStays DEF IInv
<1>12. ASSUME NEW t \in Threads, Step(t) PROVE IInv'
  BY <1>3, <1>4, <1>5, <1>6, <1>7, <1>8, <1>12 DEF Step
<1>13. ASSUME NEW t \in Threads, Caller(t) PROVE IInv'
  BY <1>9, <1>10, <1>11, <1>13 DEF Caller
<1> QED
  BY <1>2, <1>12, <1>13 DEF Next

(* The tables, the positions and the ring are what the steps of openat,       *)
(* close, read and write leave them, in every order and for every build.      *)
THEOREM Invariance == Spec => []IInv
<1>1. Init => IInv
  BY RingBase, TablesBase DEF Init, IInv
<1>2. IInv /\ [Next]_vars => IInv'
  <2> SUFFICES ASSUME IInv, [Next]_vars PROVE IInv'
    OBVIOUS
  <2>1. CASE UNCHANGED vars
    <3>1. RingInv'
      BY <2>1, RingStays DEF vars, IInv
    <3>2. UNCHANGED <<USE_IO_URING, notRing>>
      BY <2>1 DEF vars, notRing
    <3> QED
      BY <3>1, <3>2, TablesStay DEF IInv
  <2> QED
    BY <2>1, NextStep
<1> QED
  BY <1>1, <1>2, PTL DEF Spec
(* The two directories agree on each hooked name, and the two counts of       *)
(* requests that are prepared agree (hook.c, openat, unlink, io_uring).       *)
THEOREM InvHolds == Spec => []Inv
<1>1. ASSUME IInv PROVE Inv
  <2>1. TablesType /\ DataType /\ RingType /\ MineInv /\ RequestInv
    BY <1>1 DEF IInv, TablesInv, RingInv
  <2>2. \A t \in Threads : arg[t].left <= 2 /\ mine[t].nr <= issued
    BY <2>1, ArgOf DEF Args, MineInv
  <2>3. \A c \in ToSet(cq) : c.nr < issued
    BY <2>1 DEF RequestInv
  <2>4. pending_req \in 0..TH1
    <3>1. Len(sq) \in Nat
      BY <2>1 DEF RingType
    <3> QED
      BY <1>1, <3>1, RingAssumption DEF IInv, RingInv, PendingExact
  <2>5. TypeOK
    BY <2>1, <2>2, <2>3, <2>4 DEF TypeOK, TablesType, DataType, RingType, Handles
  <2> QED
    BY <1>1, <2>5 DEF Inv, IInv, TablesInv, RingInv
<1> QED
  BY Invariance, <1>1, PTL

(* A call goes to the file its descriptor was opened on: hookfds and the      *)
(* kernel's table agree wherever a program looks (hook.c, openat and close).  *)
THEOREM RightFileHolds == Spec => []RightFile
<1>1. ASSUME IInv PROVE RightFile
  <2>1. /\ TablesType /\ (\A t \in Threads : ThreadInv(t)) /\ \A f \in Fds : FdInv(f)
    BY <1>1 DEF IInv, TablesInv
  <2>2. \A f \in opened : hookfds[f] = IF is_hooked_filename(kfile[f]) THEN handle(kfile[f])
                                                                      ELSE NOT_USED_FD
    BY <2>1 DEF FdInv, TablesType
  <2>3. ASSUME NEW t \in Threads, pc[t] = "move"
        PROVE  arg[t].fd \in opened /\ arg[t].hookfd = hookfds[arg[t].fd]
    BY <2>1, <2>3 DEF ThreadInv, Using
  <2> QED
    BY <2>2, <2>3 DEF RightFile
<1> QED
  BY Invariance, <1>1, PTL

(* A descriptor's position is where its last read or write ended, as long as  *)
(* its reads were whole and no two of its reads and writes were under way at  *)
(* once (hook.c, cur_pos).                                                    *)
THEOREM PositionExactHolds == Spec => []PositionExact
<1>1. ASSUME IInv PROVE PositionExact
  BY <1>1 DEF IInv, TablesInv, TablesType, PosInv, PositionExact
<1> QED
  BY Invariance, <1>1, PTL

(* Only its own look at the flag lets a thread go. *)
LEMMA LetGo ==
    ASSUME IInv, Next, NEW t \in Threads, at[t] = "wait", at'[t] = "out"
    PROVE  Check(t)
<1>1. RingType
  BY DEF IInv, RingInv
<1>2. ASSUME NEW u \in Threads, Prepare(u) PROVE FALSE
  <2>1. at[u] = "out" /\ (at' = [at EXCEPT ![u] = "wait"] \/ at' = [at EXCEPT ![u] = "spin"])
    BY <1>2 DEF Prepare, prepare
  <2> QED
    BY <1>1, <2>1 DEF RingType
<1>3. ASSUME NEW u \in Threads, Spin(u) PROVE FALSE
  <2>1. at' = at \/ at' = [at EXCEPT ![u] = "wait"]
    BY <1>3 DEF Spin, leaveSpin
  <2> QED
    BY <1>1, <2>1 DEF RingType
<1>4. ASSUME NEW u \in Threads, Check(u) PROVE Check(t)
  <2>1. at' = at \/ at' = [at EXCEPT ![u] = "out"]
    BY <1>4 DEF Check
  <2>2. CASE u # t
    BY <1>1, <2>1, <2>2 DEF RingType
  <2> QED
    BY <1>4, <2>2
<1>5. ~Kernel
  BY DEF Kernel, Complete
<1>6. at' # at
  OBVIOUS
<1>7. ~UNCHANGED ringVars
  BY <1>6 DEF ringVars
<1>8. ASSUME NEW u \in Threads, Step(u) PROVE Check(t)
  <2>1. Unit(u) \/ RingStep(u)
    BY <1>7, <1>8 DEF Step, OpenKernel, Install, install, UnlinkMyfs, UnlinkKernel, CloseClear,
                      CloseKernel, Plain, Hooked, Transfer, Advance, Units
  <2> QED
    BY <1>2, <1>3, <1>4, <2>1 DEF Unit, RingStep
<1>9. ASSUME NEW u \in Threads, Caller(u) PROVE FALSE
  BY <1>7, <1>9 DEF Caller, CallOpen, CallUnlink, CallClose, CallIo, begin
<1> QED
  BY <1>5, <1>8, <1>9 DEF Next

(* A thread that was alone with its entry, and whose entry has not been given *)
(* out again, leaves the backend when its own request has completed, with     *)
(* success (hook.c, __io_uring_check and the loop after it).                  *)
THEOREM OwnCompletionHolds == Spec => OwnCompletion
<1>1. ASSUME IInv, [Next]_vars
      PROVE  [\A t \in Threads : Leaves(t) /\ Undisturbed(t) => OwnDone(t)]_ringVars
  <2> SUFFICES ASSUME ~UNCHANGED ringVars, NEW t \in Threads, Leaves(t), Undisturbed(t)
               PROVE  OwnDone(t)
    OBVIOUS
  <2>1. Next
    BY <1>1 DEF vars
  <2>2. Check(t) /\ at[t] = "wait" /\ at'[t] = "out"
    BY <1>1, <2>1, LetGo DEF Leaves
  <2>3. RingInv /\ RingType
    BY <1>1 DEF IInv, RingInv
  <2>4. done_flag'[mine[t].slot] = 1
    BY <2>2, <2>3 DEF Check
  <2> QED
    BY <2>2, <2>3, <2>4, CheckFlags DEF In
<1> QED
  BY Invariance, <1>1, PTL DEF Spec, OwnCompletion
=============================================================================
