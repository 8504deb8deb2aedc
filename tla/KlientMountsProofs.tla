------------------------- MODULE KlientMountsProofs -------------------------
(***************************************************************************)
(* Proofs about KlientMounts: for any number of machines, paths and        *)
(* requests, and every bound.                                              *)
(***************************************************************************)
EXTENDS KlientMounts, SequenceTheorems, WellFoundedInduction, TLAPS

-----------------------------------------------------------------------------
(* Lists.                                                                  *)

(* A set of natural numbers that is not empty has a smallest element.      *)
LEMMA Smallest ==
  ASSUME NEW T \in SUBSET Nat, T # {}
  PROVE  \E x \in T : \A y \in T : ~(y < x)
<1> DEFINE R == OpToRel(<, Nat)
<1>1. \E x \in T : \A y \in T : ~(<<y, x>> \in R)
  <2>1. IsWellFoundedOn(R, Nat)
    BY NatLessThanWellFounded
  <2> HIDE DEF R
  <2> QED BY <2>1, WFMin
<1>2. \A x, y \in T : y < x => <<y, x>> \in R
  BY DEF OpToRel
<1> QED BY <1>1, <1>2

\* The i-th entry is the first with the name.
First(list, i, m) == list[i].machine = m /\ \A j \in 1 .. i - 1 : list[j].machine # m

(* The first entry with a name is in the list.                             *)
LEMMA IndexInList ==
  ASSUME NEW list \in Seq(Mounts), NEW m, HasName(list, m)
  PROVE  /\ IndexByName(list, m) \in 1 .. Len(list)
         /\ list[IndexByName(list, m)].machine = m
         /\ First(list, IndexByName(list, m), m)
<1> DEFINE T == {i \in 1 .. Len(list) : list[i].machine = m}
<1>1. T \in SUBSET Nat /\ T # {}
  BY DEF HasName
<1>2. PICK i \in T : \A j \in T : ~(j < i)
  BY <1>1, Smallest
<1>3. i \in 1 .. Len(list) /\ list[i].machine = m /\ \A j \in 1 .. i - 1 : list[j].machine # m
  BY <1>2, LenProperties
<1> QED BY <1>3 DEF IndexByName, First

(* RemoveAt leaves the other entries in their order.                       *)
LEMMA Removed ==
  ASSUME NEW list \in Seq(Mounts), NEW i \in 1 .. Len(list)
  PROVE  /\ RemoveAt(list, i) \in Seq(Mounts) /\ Len(RemoveAt(list, i)) = Len(list) - 1
         /\ \A k \in 1 .. Len(list) - 1 :
              RemoveAt(list, i)[k] = IF k < i THEN list[k] ELSE list[k + 1]
<1> DEFINE a == SubSeq(list, 1, i - 1)
           b == SubSeq(list, i + 1, Len(list))
<1>1. \A k \in 1 .. Len(list) : list[k] \in Mounts
  BY ElementOfSeq
<1>2. Len(list) \in Nat
  BY LenProperties
<1>3. /\ a \in Seq(Mounts) /\ Len(a) = i - 1
      /\ \A k \in 1 .. i - 1 : a[k] = list[k]
  BY <1>1, <1>2, SubSeqProperties
<1>4. /\ b \in Seq(Mounts) /\ Len(b) = Len(list) - i
      /\ \A k \in 1 .. Len(list) - i : b[k] = list[i + k]
  <2>1. i + 1 \in Int /\ Len(list) \in Int /\ \A k \in i + 1 .. Len(list) : list[k] \in Mounts
    BY <1>1, <1>2
  <2>2. /\ b \in Seq(Mounts)
        /\ Len(b) = IF i + 1 <= Len(list) THEN Len(list) - (i + 1) + 1 ELSE 0
        /\ \A k \in 1 .. Len(list) - (i + 1) + 1 : b[k] = list[i + 1 + k - 1]
    BY <2>1, SubSeqProperties
  <2> QED BY <1>2, <2>2
<1> HIDE DEF a, b
<1>5. /\ a \o b \in Seq(Mounts) /\ Len(a \o b) = Len(list) - 1
      /\ \A k \in 1 .. Len(list) - 1 : (a \o b)[k] = IF k < i THEN list[k] ELSE list[k + 1]
  <2>1. /\ a \o b \in Seq(Mounts) /\ Len(a \o b) = Len(a) + Len(b)
        /\ \A k \in 1 .. Len(a) + Len(b) : (a \o b)[k] = IF k <= Len(a) THEN a[k] ELSE b[k - Len(a)]
    BY <1>3, <1>4, ConcatProperties
  <2> QED BY <1>2, <1>3, <1>4, <2>1
<1> QED BY <1>5 DEF RemoveAt, a, b

LEMMA Removal ==
  ASSUME NEW list \in Seq(Mounts), NEW i \in 1 .. Len(list)
  PROVE  /\ RemoveAt(list, i) \in Seq(Mounts)
         /\ \A k \in 1 .. Len(list) : k # i => Contains(RemoveAt(list, i), list[k])
<1> DEFINE short == RemoveAt(list, i)
<1>1. /\ Len(list) \in Nat /\ short \in Seq(Mounts) /\ Len(short) = Len(list) - 1
      /\ \A k \in 1 .. Len(list) - 1 : short[k] = IF k < i THEN list[k] ELSE list[k + 1]
  BY LenProperties, Removed
<1> HIDE DEF short
<1>2. ASSUME NEW k \in 1 .. Len(list), k # i PROVE \E n \in 1 .. Len(short) : short[n] = list[k]
  <2>1. CASE k < i
    BY <1>1, <2>1
  <2>2. CASE k > i
    <3> DEFINE n == k - 1
    <3>1. n \in 1 .. Len(list) - 1 /\ ~(n < i) /\ n + 1 = k
      BY <1>1, <2>2
    <3> HIDE DEF n
    <3>2. short[n] = list[k]
      BY <1>1, <3>1
    <3> QED BY <1>1, <3>1, <3>2
  <2> QED BY <1>2, <2>1, <2>2
<1> QED BY <1>1, <1>2 DEF Contains, short

LEMMA Shift ==
  ASSUME NEW list \in Seq(Mounts), NEW i PROVE Shifted(list, i) \in Seq(Mounts)
<1>1. Len(list) \in Nat /\ list \in [1 .. Len(list) -> Mounts]
  BY LenProperties
<1>2. Shifted(list, i) \in [1 .. Len(list) -> Mounts]
  <2> SUFFICES ASSUME NEW j \in 1 .. Len(list)
               PROVE (IF j < i \/ j = Len(list) THEN list[j] ELSE list[j + 1]) \in Mounts
    BY DEF Shifted
  <2>1. CASE j < i \/ j = Len(list)
    BY <1>1, <2>1
  <2>2. CASE ~(j < i \/ j = Len(list))
    <3>1. j # Len(list)
      BY <2>2
    <3>2. j + 1 \in 1 .. Len(list)
      <4> DEFINE n == Len(list)
      <4>1. n \in Nat /\ j \in 1 .. n /\ j # n
        BY <1>1, <3>1
      <4> HIDE DEF n
      <4>2. j + 1 \in 1 .. n
        BY <4>1
      <4> QED BY <4>2 DEF n
    <3> QED BY <1>1, <2>2, <3>2
  <2> QED BY <2>1, <2>2
<1> QED BY <1>1, <1>2, IsASeq

LEMMA Appended ==
  ASSUME NEW list \in Seq(Mounts), NEW x \in Mounts
  PROVE  Append(list, x) \in Seq(Mounts) /\ \A k \in 1 .. Len(list) : Contains(Append(list, x), list[k])
<1>1. /\ Append(list, x) \in Seq(Mounts) /\ Len(Append(list, x)) = Len(list) + 1 /\ Len(list) \in Nat
      /\ \A k \in 1 .. Len(list) : Append(list, x)[k] = list[k]
  BY AppendProperties, LenProperties
<1> QED BY <1>1 DEF Contains

LEMMA Holding ==
  ASSUME NEW list \in Seq(Mounts) PROVE \A k \in 1 .. Len(list) : Contains(list, list[k])
BY DEF Contains

LEMMA FrontIsSeq ==
  ASSUME NEW S, NEW list \in Seq(S), list # <<>> PROVE Front(list) \in Seq(S)
<1>1. Len(list) \in Nat /\ \A k \in 1 .. Len(list) : list[k] \in S
  BY LenProperties, ElementOfSeq
<1>2. \A k \in 1 .. Len(list) - 1 : list[k] \in S
  BY <1>1
<1>3. SubSeq(list, 1, Len(list) - 1) \in Seq(S)
  <2>1. 1 \in Int /\ Len(list) - 1 \in Int
    BY <1>1
  <2> QED BY <1>2, <2>1, SubSeqProperties
<1> QED BY <1>3 DEF Front

-----------------------------------------------------------------------------
(* Types.                                                                  *)
Runs == [at : Places, op : {"none", "mount", "unmount", "remount", "restore"},
         mount : Mounts \cup {NoMount}, list : Seq(Mounts), next : 0 .. MaxMounts]

\* A thread that works on a mount has one, and a request to remount carries the
\* identifier of the mount it is to make.
WellRun ==
  /\ run \in [Threads -> Runs]
  /\ \A t \in Threads : Busy(t) => run[t].mount \in Mounts
  /\ \A t \in Threads : run[t].op = "remount" => run[t].next \in 1 .. MaxMounts

ListsOK == mounts \in Seq(Mounts) /\ db \in Seq(Mounts) /\ queue \in Seq(Mounts)
FsOK == fs \in [Paths -> Seq(Entries)]
LockOK == lock \in [Machines -> Threads \cup {NoMount}]
CountsOK ==
  /\ attempt \in 0 .. MaxAttempts /\ made \in 0 .. MaxMounts
  /\ faults \in 0 .. MaxFaults /\ crashes \in 0 .. MaxCrashes
HistoryOK == mangled \in BOOLEAN /\ spoiled \subseteq Paths

TypeInv == WellRun /\ ListsOK /\ FsOK /\ LockOK /\ CountsOK /\ HistoryOK

LEMMA TypesFollow == TypeInv => TypeOK
BY DEF TypeInv, TypeOK, WellRun, Runs, ListsOK, FsOK, LockOK, CountsOK, HistoryOK

LEMMA TypeInit == Init => TypeInv
<1> SUFFICES ASSUME Init PROVE TypeInv
  OBVIOUS
<1>1. <<>> \in Seq(Mounts) /\ <<>> \in Seq(Entries) /\ 0 \in 0 .. MaxMounts
  BY EmptySeq, MountsAssumption
<1>2. \A t \in Threads : run[t] \in Runs /\ run[t].op # "remount" /\ ~Busy(t)
  BY <1>1 DEF Init, Idle, Starting, Runs, Places, Busy
<1>3. WellRun
  BY <1>2 DEF WellRun, Init
<1>4. ListsOK /\ FsOK /\ LockOK
  BY <1>1 DEF Init, ListsOK, FsOK, LockOK
<1>5. CountsOK
  <2>1. attempt = 0 /\ made = 0 /\ faults = 0 /\ crashes = 0
    BY DEF Init
  <2> QED BY <2>1, MountsAssumption DEF CountsOK
<1>6. HistoryOK
  BY DEF Init, HistoryOK
<1> QED BY <1>3, <1>4, <1>5, <1>6 DEF TypeInv

\* A step of one thread leaves every thread well.
LEMMA OneRuns ==
  ASSUME WellRun, NEW t \in Threads, NEW r \in Runs, run' = [run EXCEPT ![t] = r],
         r.at \notin {"idle", "load", "queue", "next", "done"} => r.mount \in Mounts,
         r.op = "remount" => r.next \in 1 .. MaxMounts
  PROVE  WellRun'
<1>1. run' \in [Threads -> Runs] /\ run'[t] = r /\ \A u \in Threads : u # t => run'[u] = run[u]
  BY DEF WellRun
<1> QED BY <1>1 DEF WellRun, Busy

\* A thread that only goes on keeps its mount.
LEMMA GoesOn ==
  ASSUME WellRun, NEW t \in Threads, NEW p \in Places, Goto(t, p),
         Busy(t) \/ p \in {"idle", "load", "queue", "next", "done"}
  PROVE  WellRun'
<1>1. run[t] \in Runs
  BY DEF WellRun
<1> DEFINE r == [run[t] EXCEPT !.at = p]
<1>2. r \in Runs /\ r.at = p /\ r.mount = run[t].mount /\ r.op = run[t].op /\ r.next = run[t].next
  BY <1>1 DEF Runs
<1>3. run' = [run EXCEPT ![t] = r]
  BY DEF Goto
<1>4. r.at \notin {"idle", "load", "queue", "next", "done"} => r.mount \in Mounts
  BY <1>2 DEF WellRun
<1>5. r.op = "remount" => r.next \in 1 .. MaxMounts
  BY <1>2 DEF WellRun
<1> HIDE DEF r
<1> QED BY <1>2, <1>3, <1>4, <1>5, OneRuns

LEMMA Ends ==
  ASSUME WellRun, NEW t \in Threads, End(t) PROVE WellRun'
<1>1. Idle \in Runs /\ Idle.at = "idle" /\ Idle.op # "remount"
  BY EmptySeq, MountsAssumption DEF Idle, Runs, Places
<1> QED BY <1>1, OneRuns DEF End

LEMMA Spoils ==
  ASSUME HistoryOK, NEW X \in SUBSET Mounts, Spoil(X), mangled' \in BOOLEAN PROVE HistoryOK'
BY DEF HistoryOK, Spoil, Mounts

LEMMA Begins ==
  ASSUME WellRun, HistoryOK, NEW t \in Threads, NEW x \in Mounts, Begin(t, x), mangled' \in BOOLEAN
  PROVE  HistoryOK'
<1>1. \A u \in Meets(t, x) : run[u].mount \in Mounts
  BY DEF Meets, WellRun
<1>2. PICK X \in SUBSET Mounts : Spoil(X)
  BY <1>1 DEF Begin
<1> QED BY <1>2, Spoils

LEMMA Unlocks ==
  ASSUME LockOK, NEW t \in Threads, Leave(t) PROVE LockOK'
BY DEF LockOK, Leave, Unlocked

LEMMA Unmounts ==
  ASSUME FsOK, NEW p \in Paths, UnmountPath(p) PROVE FsOK'
<1>1. fs[p] # <<>> => Front(fs[p]) \in Seq(Entries)
  BY FrontIsSeq DEF FsOK
<1> QED BY <1>1 DEF FsOK, UnmountPath

LEMMA MountsOn ==
  ASSUME FsOK, NEW x \in Mounts, MountOn(x.path, x) PROVE FsOK'
<1>1. Entry(x) \in Entries /\ x.path \in Paths
  BY DEF Mounts, Entry, Entries
<1>2. Append(fs[x.path], Entry(x)) \in Seq(Entries)
  BY <1>1, AppendProperties DEF FsOK
<1> QED BY <1>1, <1>2 DEF FsOK, MountOn

-----------------------------------------------------------------------------
(* Each step keeps the types.                                              *)
LEMMA RequestTypes ==
  ASSUME TypeInv, NEW t \in Tasks, Request(t) PROVE TypeInv'
<1>0. t \in Threads /\ WellRun /\ ListsOK /\ FsOK /\ LockOK /\ CountsOK /\ HistoryOK
  BY DEF TypeInv, Threads
<1>e. <<>> \in Seq(Mounts) /\ Idle \in Runs
  BY EmptySeq, MountsAssumption DEF Idle, Runs, Places
<1>1. ASSUME NEW x \in Mounts, MountFolder(t, x) PROVE TypeInv'
  <2> DEFINE r == [Idle EXCEPT !.at = "lock", !.op = "mount", !.mount = x]
  <2>1. r \in Runs /\ r.at = "lock" /\ r.op = "mount" /\ r.mount = x
    BY <1>e DEF Idle, Runs, Places
  <2>2. run' = [run EXCEPT ![t] = r]
    BY <1>1 DEF MountFolder
  <2> HIDE DEF r
  <2>3. WellRun'
    BY <1>0, <2>1, <2>2, OneRuns
  <2>4. HistoryOK'
    <3>1. Begin(t, x) /\ mangled' \in BOOLEAN
      BY <1>0, <1>1 DEF MountFolder, HistoryOK
    <3> QED BY <1>0, <3>1, Begins
  <2>5. ListsOK' /\ FsOK' /\ LockOK'
    BY <1>0, <1>1 DEF MountFolder, disk, boot, ListsOK, FsOK, LockOK
  <2>6. CountsOK'
    BY <1>0, <1>1, MountsAssumption DEF MountFolder, boot, CountsOK
  <2> QED BY <2>3, <2>4, <2>5, <2>6 DEF TypeInv
<1>2. ASSUME NEW m \in Machines, NEW op \in {"unmount", "remount"}, UnmountFolder(t, m, op) PROVE TypeInv'
  <2> DEFINE x == FindByName(mounts, m)
             n == made + (IF op = "remount" THEN 1 ELSE 0)
             r == [Idle EXCEPT !.at = "remove", !.op = op, !.mount = x, !.next = n]
  <2>1. x \in Mounts
    BY <1>0, <1>2, IndexInList, ElementOfSeq DEF ListsOK, UnmountFolder, FindByName
  <2>2. n \in 0 .. MaxMounts /\ (op = "remount" => n \in 1 .. MaxMounts) /\ made' = n
    BY <1>0, <1>2, MountsAssumption DEF UnmountFolder, CountsOK
  <2>3. run' = [run EXCEPT ![t] = r]
    BY <1>2, <2>2 DEF UnmountFolder
  <2> HIDE DEF x, n
  <2>4. r \in Runs /\ r.at = "remove" /\ r.op = op /\ r.mount = x /\ r.next = n
    BY <1>e, <2>1, <2>2 DEF Idle, Runs, Places
  <2> HIDE DEF r
  <2>5. WellRun'
    BY <1>0, <2>1, <2>2, <2>3, <2>4, OneRuns
  <2>6. HistoryOK'
    <3>1. Begin(t, x) /\ mangled' \in BOOLEAN
      BY <1>0, <1>2 DEF UnmountFolder, HistoryOK, x
    <3> QED BY <1>0, <2>1, <3>1, Begins
  <2>7. ListsOK' /\ FsOK' /\ LockOK'
    BY <1>0, <1>2 DEF UnmountFolder, disk, boot, ListsOK, FsOK, LockOK
  <2>8. CountsOK'
    BY <1>0, <1>2, <2>2 DEF UnmountFolder, boot, CountsOK
  <2> QED BY <2>5, <2>6, <2>7, <2>8 DEF TypeInv
<1>3. ASSUME NEW m \in Machines, NEW p \in Paths, UnmountUnlisted(t, m, p) PROVE TypeInv'
  <2>1. FsOK'
    <3>1. UnmountPath(p)
      BY <1>3 DEF UnmountUnlisted
    <3> QED BY <1>0, <3>1, Unmounts
  <2>2. WellRun' /\ ListsOK' /\ LockOK' /\ CountsOK'
    BY <1>0, <1>3 DEF UnmountUnlisted, boot, bounds, WellRun, Busy, ListsOK, LockOK, CountsOK
  <2>3. HistoryOK'
    BY <1>0, <1>3 DEF UnmountUnlisted, HistoryOK
  <2> QED BY <2>1, <2>2, <2>3 DEF TypeInv
<1> QED BY <1>1, <1>2, <1>3 DEF Request

LEMMA WorkTypes ==
  ASSUME TypeInv, NEW t \in Tasks, Work(t) PROVE TypeInv'
<1>0. t \in Threads /\ WellRun /\ ListsOK /\ FsOK /\ LockOK /\ CountsOK /\ HistoryOK
  BY DEF TypeInv, Threads
<1>r. run[t] \in Runs /\ (Busy(t) => run[t].mount \in Mounts) /\ mounts \in Seq(Mounts)
  BY <1>0 DEF WellRun, ListsOK
<1> DEFINE x == run[t].mount
<1>1. CASE LockMounting(t)
  <2>1. Busy(t) /\ x \in Mounts /\ x.machine \in Machines
    BY <1>1, <1>r DEF LockMounting, Doing, Busy, Mounts
  <2>2. WellRun'
    <3>1. "fuse" \in Places
      BY DEF Places
    <3>2. End(t) \/ Goto(t, "fuse")
      BY <1>1 DEF LockMounting
    <3> QED BY <1>0, <2>1, <3>1, <3>2, Ends, GoesOn
  <2>3. LockOK'
    BY <1>0, <1>1, <2>1 DEF LockMounting, LockOK
  <2>4. ListsOK' /\ FsOK' /\ CountsOK' /\ HistoryOK'
    BY <1>0, <1>1 DEF LockMounting, disk, boot, bounds, ListsOK, FsOK, CountsOK, HistoryOK
  <2> QED BY <2>2, <2>3, <2>4 DEF TypeInv
<1>2. CASE MountExisting(t)
  <2>1. Busy(t) /\ x \in Mounts /\ MountOn(x.path, x) /\ Goto(t, "append") /\ "append" \in Places
    BY <1>2, <1>r DEF MountExisting, Doing, Busy, Places
  <2>2. WellRun' /\ FsOK'
    BY <1>0, <2>1, GoesOn, MountsOn
  <2>3. ListsOK' /\ LockOK' /\ CountsOK' /\ HistoryOK'
    BY <1>0, <1>2 DEF MountExisting, boot, bounds, ListsOK, LockOK, CountsOK, HistoryOK
  <2> QED BY <2>2, <2>3 DEF TypeInv
<1>3. CASE MountFails(t)
  <2>1. WellRun' /\ LockOK'
    BY <1>0, <1>3, Ends, Unlocks DEF MountFails
  <2>2. ListsOK' /\ FsOK' /\ HistoryOK'
    BY <1>0, <1>3 DEF MountFails, disk, boot, ListsOK, FsOK, HistoryOK
  <2>3. CountsOK'
    BY <1>0, <1>3, MountsAssumption DEF MountFails, Fault, boot, bounds, CountsOK
  <2> QED BY <2>1, <2>2, <2>3 DEF TypeInv
<1>4. CASE AddMount(t)
  <2>1. Busy(t) /\ x \in Mounts
    BY <1>4, <1>r DEF AddMount, Doing, Busy
  <2>2. WellRun'
    <3> DEFINE r == [run[t] EXCEPT !.at = "save", !.list = Append(mounts, x)]
    <3>1. Append(mounts, x) \in Seq(Mounts)
      BY <1>r, <2>1, Appended
    <3>2. r \in Runs /\ r.at = "save" /\ r.mount = x /\ r.op = run[t].op /\ r.next = run[t].next
      BY <1>r, <3>1 DEF Runs, Places
    <3>3. run' = [run EXCEPT ![t] = r]
      BY <1>4, <1>0 DEF AddMount
    <3>4. r.op = "remount" => r.next \in 1 .. MaxMounts
      BY <1>0, <3>2 DEF WellRun
    <3> HIDE DEF r
    <3> QED BY <1>0, <2>1, <3>2, <3>3, <3>4, OneRuns
  <2>3. ListsOK' /\ FsOK' /\ LockOK' /\ CountsOK'
    BY <1>0, <1>4 DEF AddMount, disk, boot, bounds, ListsOK, FsOK, LockOK, CountsOK
  <2>4. HistoryOK'
    BY <1>0, <1>4 DEF AddMount, Edit, HistoryOK
  <2> QED BY <2>2, <2>3, <2>4 DEF TypeInv
<1>5. CASE AddSaved(t) \/ RemoveSaved(t)
  <2>1. WellRun'
    <3>1. Busy(t) /\ "keep" \in Places /\ "keepless" \in Places
      BY <1>5 DEF AddSaved, RemoveSaved, Doing, Busy, Places
    <3>2. Goto(t, "keep") \/ Goto(t, "keepless")
      BY <1>5 DEF AddSaved, RemoveSaved
    <3> QED BY <1>0, <3>1, <3>2, GoesOn
  <2>2. ListsOK'
    BY <1>0, <1>5, <1>r DEF AddSaved, RemoveSaved, boot, ListsOK, Runs
  <2>3. FsOK' /\ LockOK' /\ CountsOK' /\ HistoryOK'
    BY <1>0, <1>5 DEF AddSaved, RemoveSaved, boot, bounds, FsOK, LockOK, CountsOK, HistoryOK
  <2> QED BY <2>1, <2>2, <2>3 DEF TypeInv
<1>6. CASE AddNotSaved(t)
  <2>1. WellRun' /\ LockOK'
    BY <1>0, <1>6, Ends, Unlocks DEF AddNotSaved
  <2>2. ListsOK' /\ FsOK'
    BY <1>0, <1>6 DEF AddNotSaved, disk, boot, ListsOK, FsOK
  <2>3. CountsOK'
    BY <1>0, <1>6, MountsAssumption DEF AddNotSaved, Fault, boot, CountsOK
  <2>4. HistoryOK'
    <3>1. {x} \in SUBSET Mounts /\ Spoil({x}) /\ mangled' \in BOOLEAN
      BY <1>0, <1>6, <1>r DEF AddNotSaved, Doing, Busy, HistoryOK
    <3> HIDE DEF x
    <3> QED BY <1>0, <3>1, Spoils
  <2> QED BY <2>1, <2>2, <2>3, <2>4 DEF TypeInv
<1>7. CASE AddKept(t)
  <2>1. WellRun' /\ LockOK'
    BY <1>0, <1>7, Ends, Unlocks DEF AddKept
  <2>2. ListsOK'
    BY <1>0, <1>7, <1>r DEF AddKept, disk, boot, ListsOK, Runs
  <2>3. FsOK' /\ CountsOK' /\ HistoryOK'
    BY <1>0, <1>7 DEF AddKept, disk, boot, bounds, FsOK, CountsOK, HistoryOK
  <2> QED BY <2>1, <2>2, <2>3 DEF TypeInv
<1>8. CASE RemoveMount(t)
  <2>1. Busy(t) /\ x \in Mounts
    BY <1>8, <1>r DEF RemoveMount, Doing, Busy
  <2>2. FsOK' /\ LockOK' /\ CountsOK'
    BY <1>0, <1>8 DEF RemoveMount, disk, boot, bounds, FsOK, LockOK, CountsOK
  <2>4. CASE HasName(mounts, x.machine)
    <3> DEFINE i == IndexByName(mounts, x.machine)
               r == [run[t] EXCEPT !.at = "saveless", !.list = RemoveAt(mounts, i)]
    <3>1. mounts' = Shifted(mounts, i) /\ run' = [run EXCEPT ![t] = r]
      BY <1>8, <1>0, <2>4 DEF RemoveMount
    <3>2. i \in 1 .. Len(mounts)
      BY <1>r, <2>4, IndexInList
    <3>h. HistoryOK'
      <4>1. Spoil({mounts[i]} \ {x}) /\ mangled' \in BOOLEAN
        BY <1>0, <1>8, <2>4 DEF RemoveMount, Edit, HistoryOK
      <4>2. mounts[i] \in Mounts
        BY <1>r, <3>2, ElementOfSeq
      <4> HIDE DEF i, x
      <4>3. {mounts[i]} \ {x} \in SUBSET Mounts
        BY <4>2
      <4> QED BY <1>0, <4>1, <4>3, Spoils
    <3> HIDE DEF i
    <3>3. RemoveAt(mounts, i) \in Seq(Mounts) /\ Shifted(mounts, i) \in Seq(Mounts)
      BY <1>r, <3>2, Removal, Shift
    <3>4. ListsOK'
      BY <1>0, <1>8, <3>1, <3>3 DEF RemoveMount, disk, boot, ListsOK
    <3>5. r \in Runs /\ r.at = "saveless" /\ r.mount = x /\ r.op = run[t].op /\ r.next = run[t].next
      BY <1>r, <3>3 DEF Runs, Places
    <3>6. r.op = "remount" => r.next \in 1 .. MaxMounts
      BY <1>0, <3>5 DEF WellRun
    <3> HIDE DEF r
    <3>7. WellRun'
      BY <1>0, <2>1, <3>1, <3>5, <3>6, OneRuns
    <3> QED BY <2>2, <3>4, <3>7, <3>h DEF TypeInv
  <2>5. CASE ~HasName(mounts, x.machine)
    <3> DEFINE r == [run[t] EXCEPT !.at = "unmount", !.op = "unmount"]
    <3>1. mounts' = mounts /\ run' = [run EXCEPT ![t] = r]
      BY <1>8, <1>0, <2>5 DEF RemoveMount
    <3>2. ListsOK'
      BY <1>0, <1>8, <3>1 DEF RemoveMount, disk, boot, ListsOK
    <3>3. r \in Runs /\ r.at = "unmount" /\ r.mount = x /\ r.op = "unmount"
      BY <1>r DEF Runs, Places
    <3> HIDE DEF r
    <3>4. WellRun'
      BY <1>0, <2>1, <3>1, <3>3, OneRuns
    <3>5. HistoryOK'
      BY <1>0, <1>8, <2>5 DEF RemoveMount, HistoryOK
    <3> QED BY <2>2, <3>2, <3>4, <3>5 DEF TypeInv
  <2> QED BY <2>4, <2>5
<1>9. CASE RemoveNotSaved(t)
  <2>1. WellRun'
    <3> DEFINE r == [run[t] EXCEPT !.at = "unmount", !.op = "unmount"]
    <3>1. run' = [run EXCEPT ![t] = r] /\ x \in Mounts
      BY <1>9, <1>0, <1>r DEF RemoveNotSaved, Doing, Busy
    <3>2. r \in Runs /\ r.at = "unmount" /\ r.mount = x /\ r.op = "unmount"
      BY <1>r DEF Runs, Places
    <3> HIDE DEF r
    <3> QED BY <1>0, <3>1, <3>2, OneRuns
  <2>2. ListsOK' /\ FsOK' /\ LockOK'
    BY <1>0, <1>9 DEF RemoveNotSaved, disk, boot, ListsOK, FsOK, LockOK
  <2>3. CountsOK'
    BY <1>0, <1>9, MountsAssumption DEF RemoveNotSaved, Fault, boot, CountsOK
  <2>4. HistoryOK'
    BY <1>0, <1>9 DEF RemoveNotSaved, HistoryOK
  <2> QED BY <2>1, <2>2, <2>3, <2>4 DEF TypeInv
<1>10. CASE RemoveKept(t)
  <2>1. WellRun'
    <3>1. Busy(t) /\ "unmount" \in Places /\ Goto(t, "unmount")
      BY <1>10 DEF RemoveKept, Doing, Busy, Places
    <3> QED BY <1>0, <3>1, GoesOn
  <2>2. ListsOK'
    BY <1>0, <1>10, <1>r DEF RemoveKept, disk, boot, ListsOK, Runs
  <2>3. FsOK' /\ LockOK' /\ CountsOK' /\ HistoryOK'
    BY <1>0, <1>10 DEF RemoveKept, disk, boot, bounds, FsOK, LockOK, CountsOK, HistoryOK
  <2> QED BY <2>1, <2>2, <2>3 DEF TypeInv
<1>11. CASE Unmount(t)
  <2>1. Busy(t) /\ x \in Mounts /\ x.path \in Paths
    BY <1>11, <1>r DEF Unmount, Doing, Busy, Mounts
  <2>2. WellRun'
    <3>1. CASE run[t].op = "unmount" /\ End(t)
      BY <1>0, <3>1, Ends
    <3>2. CASE /\ run[t].op = "remount"
               /\ run' = [run EXCEPT ![t].at = "fuse", ![t].list = <<>>, ![t].mount.id = run[t].next]
      <4> DEFINE y == [x EXCEPT !.id = run[t].next]
                 r == [run[t] EXCEPT !.at = "fuse", !.list = <<>>, !.mount = y]
      <4>1. run[t].next \in 1 .. MaxMounts
        BY <1>0, <3>2 DEF WellRun
      <4>2. y \in Mounts
        BY <2>1, <4>1 DEF Mounts
      <4>3. run' = [run EXCEPT ![t] = r]
        BY <1>0, <3>2
      <4> HIDE DEF y
      <4>4. <<>> \in Seq(Mounts) /\ "fuse" \in Places
        BY EmptySeq DEF Places
      <4>5. r \in Runs /\ r.mount = y /\ r.next = run[t].next
        BY <1>r, <4>2, <4>4 DEF Runs
      <4> HIDE DEF r
      <4> QED BY <1>0, <4>1, <4>2, <4>3, <4>5, OneRuns
    <3> QED BY <1>11, <3>1, <3>2 DEF Unmount, Unmounted
  <2>3. FsOK'
    BY <1>0, <1>11, <2>1, Unmounts DEF Unmount, FsOK
  <2>4. HistoryOK'
    <3>1. {x} \in SUBSET Mounts /\ mangled' \in BOOLEAN
      BY <1>0, <1>11, <2>1 DEF Unmount, HistoryOK
    <3>2. spoiled' = spoiled \/ Spoil({x})
      BY <1>11 DEF Unmount
    <3> HIDE DEF x
    <3>3. CASE Spoil({x})
      BY <1>0, <3>1, <3>3, Spoils
    <3> QED BY <1>0, <3>1, <3>2, <3>3 DEF HistoryOK
  <2>5. ListsOK' /\ LockOK'
    BY <1>0, <1>11 DEF Unmount, boot, ListsOK, LockOK
  <2>6. CountsOK'
    BY <1>0, <1>11, MountsAssumption DEF Unmount, boot, CountsOK
  <2> QED BY <2>2, <2>3, <2>4, <2>5, <2>6 DEF TypeInv
<1> QED BY <1>1, <1>2, <1>3, <1>4, <1>5, <1>6, <1>7, <1>8, <1>9, <1>10, <1>11 DEF Work

LEMMA InitializeTypes ==
  ASSUME TypeInv, Initialize PROVE TypeInv'
<1>0. Boot \in Threads /\ WellRun /\ ListsOK /\ FsOK /\ LockOK /\ CountsOK /\ HistoryOK
  BY DEF TypeInv, Threads
<1>r. run[Boot] \in Runs /\ (Busy(Boot) => run[Boot].mount \in Mounts) /\ queue \in Seq(Mounts)
  BY <1>0 DEF WellRun, ListsOK
<1> DEFINE x == run[Boot].mount
           \* Boot has nothing to mount and turns to the queue.
           free == [run[Boot] EXCEPT !.at = "next", !.mount = NoMount]
<1>f. ASSUME run' = [run EXCEPT ![Boot].at = "next", ![Boot].mount = NoMount] PROVE WellRun'
  <2>1. run' = [run EXCEPT ![Boot] = free]
    BY <1>0, <1>f
  <2>2. free \in Runs /\ free.at = "next" /\ free.op = run[Boot].op /\ free.next = run[Boot].next
    BY <1>r DEF Runs, Places
  <2>3. free.op = "remount" => free.next \in 1 .. MaxMounts
    BY <1>0, <2>2 DEF WellRun
  <2> HIDE DEF free
  <2> QED BY <1>0, <2>1, <2>2, <2>3, OneRuns
<1>g. ASSUME NEW p \in {"queue", "done"}, Goto(Boot, p) PROVE WellRun'
  BY <1>0, <1>g, GoesOn DEF Places
<1>h. ASSUME Busy(Boot), NEW p \in {"lock", "fuse", "clear"}, Goto(Boot, p) PROVE WellRun'
  BY <1>0, <1>h, GoesOn DEF Places
<1>q. ASSUME Busy(Boot), queue' = Append(queue, x), UNCHANGED <<mounts, db>> PROVE ListsOK'
  BY <1>0, <1>q, <1>r, AppendProperties DEF ListsOK
<1>1. CASE LoadMounts
  <2>1. WellRun' /\ ListsOK'
    BY <1>0, <1>1, <1>g DEF LoadMounts, disk, boot, ListsOK
  <2>2. FsOK' /\ LockOK' /\ CountsOK' /\ HistoryOK'
    BY <1>0, <1>1 DEF LoadMounts, disk, boot, bounds, FsOK, LockOK, CountsOK, HistoryOK
  <2> QED BY <2>1, <2>2 DEF TypeInv
<1>2. CASE RestoreMounts
  <2>1. WellRun'
    <3>1. Goto(Boot, "next")
      BY <1>2 DEF RestoreMounts
    <3> QED BY <1>0, <3>1, GoesOn DEF Places
  <2>2. CountsOK'
    BY <1>0, <1>2, MountsAssumption DEF RestoreMounts, bounds, CountsOK
  <2>3. ListsOK' /\ FsOK' /\ LockOK' /\ HistoryOK'
    BY <1>0, <1>2 DEF RestoreMounts, disk, bounds, ListsOK, FsOK, LockOK, HistoryOK
  <2> QED BY <2>1, <2>2, <2>3 DEF TypeInv
<1>3. CASE RestoreNext
  <2> DEFINE y == Head(queue)
  <2>1. y \in Mounts /\ Tail(queue) \in Seq(Mounts)
    BY <1>3, <1>r, HeadTailProperties DEF RestoreNext
  <2>2. ListsOK'
    BY <1>0, <1>3, <2>1 DEF RestoreNext, disk, ListsOK
  <2>3. CountsOK'
    BY <1>0, <1>3, MountsAssumption DEF RestoreNext, bounds, CountsOK
  <2>4. FsOK' /\ LockOK'
    BY <1>0, <1>3 DEF RestoreNext, disk, FsOK, LockOK
  <2>5. mangled' \in BOOLEAN
    BY <1>0, <1>3 DEF RestoreNext, HistoryOK
  <2>6. CASE /\ run' = [run EXCEPT ![Boot].at = "dial", ![Boot].mount = y]
             /\ Begin(Boot, y)
    <3> DEFINE r == [run[Boot] EXCEPT !.at = "dial", !.mount = y]
    <3>1. run' = [run EXCEPT ![Boot] = r]
      BY <1>0, <2>6
    <3> HIDE DEF y
    <3>2. r \in Runs /\ r.mount = y /\ r.op = run[Boot].op /\ r.next = run[Boot].next
      BY <1>r, <2>1 DEF Runs, Places
    <3>3. r.op = "remount" => r.next \in 1 .. MaxMounts
      BY <1>0, <3>2 DEF WellRun
    <3> HIDE DEF r
    <3>4. WellRun'
      BY <1>0, <2>1, <3>1, <3>2, <3>3, OneRuns
    <3>5. HistoryOK'
      BY <1>0, <2>1, <2>5, <2>6, Begins
    <3> QED BY <2>2, <2>3, <2>4, <3>4, <3>5 DEF TypeInv
  <2>7. CASE UNCHANGED <<run, spoiled>>
    BY <1>0, <2>2, <2>3, <2>4, <2>5, <2>7 DEF TypeInv, WellRun, Busy, HistoryOK
  <2> QED BY <1>3, <2>6, <2>7 DEF RestoreNext
<1>4. CASE RestoreEnds
  <2>1. WellRun'
    BY <1>4, <1>g DEF RestoreEnds
  <2>2. ListsOK' /\ FsOK' /\ LockOK' /\ CountsOK' /\ HistoryOK'
    BY <1>0, <1>4 DEF RestoreEnds, disk, boot, bounds, ListsOK, FsOK, LockOK, CountsOK, HistoryOK
  <2> QED BY <2>1, <2>2 DEF TypeInv
<1>5. CASE RestoreRefused \/ NotRestored
  <2>1. Busy(Boot) /\ x \in Mounts
    BY <1>5, <1>r DEF RestoreRefused, NotRestored, Doing, Busy
  <2>2. WellRun' /\ ListsOK'
    BY <1>5, <1>f, <1>q, <2>1 DEF RestoreRefused, NotRestored, Requeue, disk
  <2>3. FsOK' /\ HistoryOK'
    BY <1>0, <1>5 DEF RestoreRefused, NotRestored, Requeue, disk, FsOK, HistoryOK
  <2>4. LockOK'
    BY <1>0, <1>5 DEF RestoreRefused, NotRestored, Unlocked, LockOK
  <2>5. CountsOK'
    BY <1>0, <1>5, MountsAssumption DEF RestoreRefused, NotRestored, Requeue, Fault, bounds, CountsOK
  <2> QED BY <2>2, <2>3, <2>4, <2>5 DEF TypeInv
<1>6. CASE RestoreDialed
  <2>1. WellRun'
    BY <1>6, <1>h DEF RestoreDialed, Doing, Busy
  <2>2. ListsOK' /\ FsOK' /\ LockOK' /\ CountsOK' /\ HistoryOK'
    BY <1>0, <1>6 DEF RestoreDialed, disk, boot, bounds, ListsOK, FsOK, LockOK, CountsOK, HistoryOK
  <2> QED BY <2>1, <2>2 DEF TypeInv
<1>7. CASE RestoreLock
  <2>1. WellRun'
    BY <1>7, <1>h DEF RestoreLock, Doing, Busy
  <2>2. LockOK'
    BY <1>0, <1>7 DEF RestoreLock, LockOK
  <2>3. ListsOK' /\ FsOK' /\ CountsOK' /\ HistoryOK'
    BY <1>0, <1>7 DEF RestoreLock, disk, boot, bounds, ListsOK, FsOK, CountsOK, HistoryOK
  <2> QED BY <2>1, <2>2, <2>3 DEF TypeInv
<1>8. CASE RestoreClear
  <2>1. x \in Mounts /\ x.path \in Paths /\ WellRun'
    BY <1>8, <1>h, <1>r DEF RestoreClear, Doing, Busy, Mounts
  <2>2. FsOK'
    BY <1>0, <1>8, <2>1, Unmounts DEF RestoreClear, FsOK
  <2>3. HistoryOK'
    <3>1. {x} \in SUBSET Mounts /\ mangled' \in BOOLEAN
      BY <1>0, <1>8, <2>1 DEF RestoreClear, HistoryOK
    <3>2. spoiled' = spoiled \/ Spoil({x})
      BY <1>8 DEF RestoreClear
    <3> HIDE DEF x
    <3>3. CASE Spoil({x})
      BY <1>0, <3>1, <3>3, Spoils
    <3>4. mangled' = mangled
      BY <1>8 DEF RestoreClear
    <3> QED BY <1>0, <3>2, <3>3, <3>4 DEF HistoryOK
  <2>4. ListsOK' /\ LockOK'
    BY <1>0, <1>8 DEF RestoreClear, boot, ListsOK, LockOK
  <2>5. CountsOK'
    BY <1>0, <1>8, MountsAssumption DEF RestoreClear, Fault, boot, bounds, CountsOK
  <2> QED BY <2>1, <2>2, <2>3, <2>4, <2>5 DEF TypeInv
<1>9. CASE Restored
  <2>1. x \in Mounts /\ MountOn(x.path, x)
    BY <1>9, <1>r DEF Restored, Doing, Busy
  <2>2. FsOK'
    BY <1>0, <2>1, MountsOn
  <2>3. WellRun'
    BY <1>9, <1>f DEF Restored
  <2>4. LockOK'
    BY <1>0, <1>9 DEF Restored, Unlocked, LockOK
  <2>5. ListsOK' /\ CountsOK' /\ HistoryOK'
    BY <1>0, <1>9 DEF Restored, boot, bounds, ListsOK, CountsOK, HistoryOK
  <2> QED BY <2>2, <2>3, <2>4, <2>5 DEF TypeInv
<1>10. CASE LoadMissed
  <2>1. WellRun'
    BY <1>10, <1>g DEF LoadMissed
  <2>2. CountsOK'
    BY <1>0, <1>10, MountsAssumption DEF LoadMissed, Fault, boot, CountsOK
  <2>3. ListsOK' /\ FsOK' /\ LockOK' /\ HistoryOK'
    BY <1>0, <1>10 DEF LoadMissed, disk, boot, ListsOK, FsOK, LockOK, HistoryOK
  <2> QED BY <2>1, <2>2, <2>3 DEF TypeInv
<1>11. CASE InitializeFails
  <2>1. WellRun'
    BY <1>11, <1>g DEF InitializeFails
  <2>2. CountsOK'
    BY <1>0, <1>11, MountsAssumption DEF InitializeFails, Fault, CountsOK
  <2>3. ListsOK' /\ FsOK' /\ LockOK' /\ HistoryOK'
    BY <1>0, <1>11 DEF InitializeFails, disk, ListsOK, FsOK, LockOK, HistoryOK
  <2> QED BY <2>1, <2>2, <2>3 DEF TypeInv
<1> QED BY <1>1, <1>2, <1>3, <1>4, <1>5, <1>6, <1>7, <1>8, <1>9, <1>10, <1>11 DEF Initialize

LEMMA RestartTypes ==
  ASSUME TypeInv, Restart PROVE TypeInv'
<1>0. WellRun /\ ListsOK /\ FsOK /\ LockOK /\ CountsOK /\ HistoryOK
  BY DEF TypeInv
<1>1. <<>> \in Seq(Mounts) /\ Idle \in Runs /\ Starting \in Runs
  <2>1. <<>> \in Seq(Mounts) /\ 0 \in 0 .. MaxMounts
    BY EmptySeq, MountsAssumption
  <2>2. Idle \in Runs
    BY <2>1 DEF Idle, Runs, Places
  <2>3. Starting \in Runs
    BY <2>1 DEF Idle, Starting, Runs, Places
  <2> QED BY <2>1, <2>2, <2>3
<1>2. \A t \in Threads : run'[t] \in Runs /\ run'[t].op # "remount" /\ ~(Busy(t)')
  BY <1>1 DEF Restart, Idle, Starting, Busy
<1>3. WellRun'
  BY <1>2 DEF WellRun, Restart
<1>4. ListsOK' /\ LockOK'
  BY <1>0, <1>1 DEF Restart, ListsOK, LockOK
<1>5. FsOK'
  <2>1. \A p \in Paths : fs'[p] \in Seq(Entries)
    <3> SUFFICES ASSUME NEW p \in Paths PROVE fs'[p] \in Seq(Entries)
      OBVIOUS
    <3> DEFINE list == fs[p]
    <3>0. CASE fs' = Rebooted
      BY <3>0, EmptySeq DEF Rebooted
    <3>k. SUFFICES ASSUME fs' = Killed PROVE fs'[p] \in Seq(Entries)
      BY <3>0 DEF Restart
    <3>1. list \in Seq(Entries) /\ fs'[p] = [i \in DOMAIN list |-> [list[i] EXCEPT !.live = FALSE]]
      BY <1>0, <3>k DEF FsOK, Killed
    <3> HIDE DEF list
    <3>2. Len(list) \in Nat /\ DOMAIN list = 1 .. Len(list) /\ \A i \in 1 .. Len(list) : list[i] \in Entries
      BY <3>1, LenProperties, ElementOfSeq
    <3>3. \A i \in 1 .. Len(list) : [list[i] EXCEPT !.live = FALSE] \in Entries
      BY <3>2 DEF Entries
    <3>4. fs'[p] \in [1 .. Len(list) -> Entries]
      BY <3>1, <3>2, <3>3
    <3> QED BY <3>2, <3>4, IsASeq
  <2>2. DOMAIN fs' = Paths /\ fs' = [p \in Paths |-> fs'[p]]
    BY DEF Restart, Killed, Rebooted
  <2> QED BY <2>1, <2>2 DEF FsOK
<1>6. CountsOK'
  <2>1. attempt' = 0 /\ UNCHANGED <<made, faults>>
    BY DEF Restart
  <2>2. crashes' \in 0 .. MaxCrashes
    BY <1>0, MountsAssumption DEF Restart, CountsOK
  <2> QED BY <1>0, <2>1, <2>2, MountsAssumption DEF CountsOK
<1>7. HistoryOK'
  BY <1>0 DEF Restart, HistoryOK
<1> QED BY <1>3, <1>4, <1>5, <1>6, <1>7 DEF TypeInv

LEMMA TypeStep ==
  ASSUME TypeInv, [Next]_vars PROVE TypeInv'
<1>1. CASE Next
  BY <1>1, RequestTypes, WorkTypes, InitializeTypes, RestartTypes DEF Next
<1>2. CASE UNCHANGED vars
  BY <1>2 DEF vars, disk, boot, bounds, TypeInv, WellRun, Busy, ListsOK, FsOK, LockOK, CountsOK, HistoryOK
<1> QED BY <1>1, <1>2

(* The state of the mounts keeps its shape and every thread at work on a   *)
(* mount has one, whatever fails and wherever klient restarts.             *)
THEOREM TypeCorrect == Spec => []TypeOK
<1>1. [Next]_vars /\ TypeInv => TypeInv'
  BY TypeStep
<1> QED BY <1>1, TypeInit, TypesFollow, PTL DEF Spec

-----------------------------------------------------------------------------
(* The list and its copy in the database.  While edits do not overlap, the *)
(* two differ only between the two halves of the one edit that is under    *)
(* way, or before the list is loaded.                                      *)
Unedited == \A t \in Threads : ~Editing(t)

\* How far the thread that edits the list has come.
EditStage(t) ==
  /\ Doing(t, "save") => mounts = db /\ run[t].list = Append(db, run[t].mount)
  /\ Doing(t, "saveless") =>
       \A k \in 1 .. Len(db) :
         db[k].machine = run[t].mount.machine \/ Contains(run[t].list, db[k])
  /\ Doing(t, "keep") \/ Doing(t, "keepless") => db = run[t].list

Sync ==
  /\ \A t, u \in Threads : Editing(t) /\ Editing(u) => t = u
  /\ Doing(Boot, "load") => mounts = <<>> /\ Unedited
  /\ ~Doing(Boot, "load") /\ Unedited => mounts = db
  /\ \A t \in Threads : EditStage(t)

SyncInv == ~Editing(Boot) /\ (~mangled => Sync)

LEMMA SyncInit == Init => SyncInv
<1> SUFFICES ASSUME Init PROVE SyncInv
  OBVIOUS
<1>1. \A t \in Threads : ~Editing(t) /\ ~Doing(t, "save") /\ ~Doing(t, "saveless")
                          /\ ~Doing(t, "keep") /\ ~Doing(t, "keepless")
  BY DEF Init, Idle, Starting, Editing, Doing
<1> QED BY <1>1 DEF SyncInv, Sync, Unedited, EditStage, Init, Threads

\* A step of a thread that does not edit the list.
LEMMA Elsewhere ==
  ASSUME SyncInv, NEW t \in Threads, ~Editing(t), ~(Editing(t)'),
         \A u \in Threads : u # t => run'[u] = run[u],
         Doing(Boot, "load")' <=> Doing(Boot, "load"), UNCHANGED <<mounts, db, mangled>>
  PROVE  SyncInv'
<1>1. \A u \in Threads : /\ Editing(u)' <=> Editing(u)
                         /\ Editing(u) => run'[u] = run[u]
  BY DEF Editing
<1>2. ASSUME NEW u \in Threads, EditStage(u) PROVE EditStage(u)'
  BY <1>1, <1>2 DEF EditStage, Editing, Doing
<1>3. Unedited' <=> Unedited
  BY <1>1 DEF Unedited
<1>4. ~(Editing(Boot)')
  BY <1>1 DEF SyncInv, Threads
<1>5. Sync => Sync'
  BY <1>1, <1>2, <1>3 DEF Sync
<1> QED BY <1>4, <1>5 DEF SyncInv

\* The edit of a thread ends, with the list and its copy alike.
LEMMA EditEnds ==
  ASSUME SyncInv, NEW t \in Tasks, Editing(t), ~(Editing(t)'), run \in [Threads -> Runs],
         \A u \in Threads : u # t => run'[u] = run[u],
         mangled' = mangled, ~mangled => mounts' = db'
  PROVE  SyncInv'
<1>0. t \in Threads /\ Boot \in Threads /\ t # Boot
  BY MountsAssumption DEF Threads
<1>1. ~(Editing(Boot)')
  BY <1>0 DEF SyncInv, Editing
<1>2. SUFFICES ASSUME ~mangled PROVE Sync'
  BY <1>1 DEF SyncInv
<1>3. \A u \in Threads : ~(Editing(u)')
  BY <1>0, <1>2 DEF SyncInv, Sync, Editing
<1>4. ~(Doing(Boot, "load")')
  BY <1>0, <1>2 DEF SyncInv, Sync, Unedited, Doing
<1>5. \A u \in Threads : EditStage(u)'
  BY <1>3 DEF EditStage, Editing, Doing
<1> QED BY <1>2, <1>3, <1>4, <1>5 DEF Sync, Unedited

LEMMA SyncWork ==
  ASSUME TypeInv, SyncInv, NEW t \in Tasks, Request(t) \/ Work(t) PROVE SyncInv'
<1>0. t \in Threads /\ Boot \in Threads /\ t # Boot
  BY MountsAssumption DEF Threads
<1>t. run \in [Threads -> Runs] /\ mounts \in Seq(Mounts) /\ db \in Seq(Mounts)
  BY DEF TypeInv, WellRun, ListsOK
\* Steps that are no part of an edit.
<1>e. ASSUME ~Editing(t), ~(Editing(t)'), \A u \in Threads : u # t => run'[u] = run[u],
             UNCHANGED <<mounts, db, mangled>>
      PROVE  SyncInv'
  <2>1. Doing(Boot, "load")' <=> Doing(Boot, "load")
    BY <1>0, <1>e DEF Doing
  <2> QED BY <1>0, <1>e, <2>1, Elsewhere
<1>1. CASE Request(t)
  <2>1. ASSUME NEW x \in Mounts, MountFolder(t, x) PROVE SyncInv'
    BY <1>0, <1>t, <1>e, <2>1 DEF MountFolder, disk, Doing, Editing
  <2>2. ASSUME NEW m \in Machines, NEW op \in {"unmount", "remount"}, UnmountFolder(t, m, op) PROVE SyncInv'
    BY <1>0, <1>t, <1>e, <2>2 DEF UnmountFolder, disk, Doing, Editing
  <2>3. ASSUME NEW m \in Machines, NEW p \in Paths, UnmountUnlisted(t, m, p) PROVE SyncInv'
    BY <1>0, <1>t, <1>e, <2>3 DEF UnmountUnlisted, Doing, Editing
  <2> QED BY <1>1, <2>1, <2>2, <2>3 DEF Request
<1>2. CASE LockMounting(t) \/ MountExisting(t) \/ MountFails(t)
  <2>1. ~Editing(t) /\ UNCHANGED <<mounts, db, mangled>>
    BY <1>2 DEF LockMounting, MountExisting, MountFails, disk, Doing, Editing
  <2>2. ~(Editing(t)') /\ \A u \in Threads : u # t => run'[u] = run[u]
    <3>1. End(t) \/ Goto(t, "fuse") \/ Goto(t, "append")
      BY <1>2 DEF LockMounting, MountExisting, MountFails
    <3> QED BY <1>0, <1>t, <3>1 DEF End, Goto, Idle, Editing, Runs
  <2> QED BY <1>e, <2>1, <2>2
<1>3. CASE Unmount(t)
  <2>1. ~Editing(t) /\ UNCHANGED <<mounts, db, mangled>>
    BY <1>3 DEF Unmount, Doing, Editing
  <2>2. ~(Editing(t)') /\ \A u \in Threads : u # t => run'[u] = run[u]
    BY <1>0, <1>t, <1>3 DEF Unmount, Unmounted, End, Idle, Editing, Runs
  <2> QED BY <1>e, <2>1, <2>2
<1>4. CASE AddMount(t)
  <2>1. ~(Editing(Boot)') /\ ~Editing(t)
    <3>1. run'[Boot] = run[Boot]
      BY <1>0, <1>t, <1>4 DEF AddMount
    <3> QED BY <3>1, <1>4 DEF AddMount, SyncInv, Editing, Doing
  <2>2. SUFFICES ASSUME ~mangled' PROVE Sync'
    BY <2>1 DEF SyncInv
  <2>3. ~mangled /\ ~Doing(Boot, "load") /\ \A u \in Threads \ {t} : ~Editing(u)
    BY <1>4, <2>2 DEF AddMount, Edit
  <2>4. mounts = db
    BY <2>1, <2>3 DEF SyncInv, Sync, Unedited
  <2>5. /\ run'[t].at = "save" /\ run'[t].list = Append(mounts, run[t].mount)
        /\ run'[t].mount = run[t].mount /\ \A u \in Threads : u # t => run'[u] = run[u]
        /\ UNCHANGED <<mounts, db>>
    BY <1>0, <1>t, <1>4 DEF AddMount, disk, Runs
  <2>6. \A u \in Threads : Editing(u)' => u = t
    BY <2>3, <2>5 DEF Editing
  <2>7. Editing(t)' /\ ~(Doing(Boot, "load")')
    BY <1>0, <2>3, <2>5 DEF Editing, Doing
  <2>8. \A u \in Threads : EditStage(u)'
    <3>1. EditStage(t)'
      BY <2>4, <2>5 DEF EditStage, Doing
    <3>2. ASSUME NEW u \in Threads, u # t PROVE EditStage(u)'
      BY <2>6, <3>2 DEF EditStage, Editing, Doing
    <3> QED BY <3>1, <3>2
  <2> QED BY <1>0, <2>6, <2>7, <2>8 DEF Sync, Unedited
<1>5. CASE AddSaved(t) \/ RemoveSaved(t)
  <2>1. /\ Editing(t) /\ db' = run[t].list /\ UNCHANGED <<mounts, mangled>>
        /\ run'[t].at \in {"keep", "keepless"} /\ run'[t].list = run[t].list
        /\ \A u \in Threads : u # t => run'[u] = run[u]
    BY <1>0, <1>t, <1>5 DEF AddSaved, RemoveSaved, Goto, Doing, Editing, Runs
  <2>2. ~(Editing(Boot)')
    BY <1>0, <2>1 DEF SyncInv, Editing
  <2>3. SUFFICES ASSUME ~mangled PROVE Sync'
    BY <2>1, <2>2 DEF SyncInv
  <2>4. Sync
    BY <2>3 DEF SyncInv
  <2>5. \A u \in Threads : Editing(u)' => u = t
    BY <1>0, <2>1, <2>4 DEF Sync, Editing
  <2>6. Editing(t)' /\ ~(Doing(Boot, "load")')
    BY <1>0, <2>1, <2>4 DEF Sync, Unedited, Editing, Doing
  <2>7. \A u \in Threads : EditStage(u)'
    <3>1. EditStage(t)'
      BY <2>1 DEF EditStage, Doing
    <3>2. ASSUME NEW u \in Threads, u # t PROVE EditStage(u)'
      BY <2>5, <3>2 DEF EditStage, Editing, Doing
    <3> QED BY <3>1, <3>2
  <2> QED BY <1>0, <2>5, <2>6, <2>7 DEF Sync, Unedited
<1>6. CASE AddNotSaved(t) \/ AddKept(t) \/ RemoveKept(t)
  <2>1. Editing(t) /\ mangled' = mangled /\ db' = db
    BY <1>6 DEF AddNotSaved, AddKept, RemoveKept, disk, Doing, Editing
  <2>2. ~(Editing(t)') /\ \A u \in Threads : u # t => run'[u] = run[u]
    <3>1. End(t) \/ Goto(t, "unmount")
      BY <1>6 DEF AddNotSaved, AddKept, RemoveKept
    <3> QED BY <1>0, <1>t, <3>1 DEF End, Goto, Idle, Editing, Runs
  <2>3. ~mangled => EditStage(t)
    BY <1>0 DEF SyncInv, Sync
  <2>4. ~mangled => mounts' = db
    BY <1>6, <2>3 DEF AddNotSaved, AddKept, RemoveKept, disk, EditStage, Doing
  <2> QED BY <1>t, <2>1, <2>2, <2>4, EditEnds
<1>7. CASE RemoveMount(t)
  <2> DEFINE m == run[t].mount.machine
             i == IndexByName(mounts, m)
  <2>0. ~Editing(t) /\ db' = db
    BY <1>7 DEF RemoveMount, disk, Doing, Editing
  <2>1. CASE ~HasName(mounts, m)
    <3>1. UNCHANGED <<mounts, mangled>> /\ ~(Editing(t)') /\ \A u \in Threads : u # t => run'[u] = run[u]
      BY <1>0, <1>t, <1>7, <2>1 DEF RemoveMount, Editing, Runs
    <3> QED BY <1>e, <2>0, <3>1
  <2>2. CASE HasName(mounts, m)
    <3>1. /\ run'[t].at = "saveless" /\ run'[t].list = RemoveAt(mounts, i)
          /\ run'[t].mount = run[t].mount /\ \A u \in Threads : u # t => run'[u] = run[u]
      BY <1>0, <1>t, <1>7, <2>2 DEF RemoveMount, Runs
    <3>2. ~(Editing(Boot)')
      BY <1>0, <3>1 DEF SyncInv, Editing
    <3>3. SUFFICES ASSUME ~mangled' PROVE Sync'
      BY <3>2 DEF SyncInv
    <3>4. ~mangled /\ ~Doing(Boot, "load") /\ \A u \in Threads \ {t} : ~Editing(u)
      BY <1>7, <2>2, <3>3 DEF RemoveMount, Edit
    <3>5. mounts = db
      BY <2>0, <3>4 DEF SyncInv, Sync, Unedited
    <3>6. \A u \in Threads : Editing(u)' => u = t
      BY <3>1, <3>4 DEF Editing
    <3>7. Editing(t)' /\ ~(Doing(Boot, "load")')
      BY <1>0, <3>1, <3>4 DEF Editing, Doing
    <3>8. i \in 1 .. Len(mounts) /\ mounts[i].machine = m
      BY <1>t, <2>2, IndexInList
    <3> HIDE DEF i
    <3>9. \A k \in 1 .. Len(mounts) : mounts[k].machine = m \/ Contains(RemoveAt(mounts, i), mounts[k])
      BY <1>t, <3>8, Removal
    <3>10. \A u \in Threads : EditStage(u)'
      <4>1. EditStage(t)'
        BY <2>0, <3>1, <3>5, <3>9 DEF EditStage, Doing
      <4>2. ASSUME NEW u \in Threads, u # t PROVE EditStage(u)'
        BY <3>6, <4>2 DEF EditStage, Editing, Doing
      <4> QED BY <4>1, <4>2
    <3> QED BY <1>0, <3>6, <3>7, <3>10 DEF Sync, Unedited
  <2> QED BY <2>1, <2>2
<1>8. CASE RemoveNotSaved(t)
  <2>1. mangled' /\ ~(Editing(Boot)')
    <3>1. run'[Boot] = run[Boot] /\ mangled'
      BY <1>0, <1>t, <1>8 DEF RemoveNotSaved
    <3> QED BY <3>1 DEF SyncInv, Editing
  <2> QED BY <2>1 DEF SyncInv
<1> QED BY <1>1, <1>2, <1>3, <1>4, <1>5, <1>6, <1>7, <1>8 DEF Work

LEMMA SyncInitialize ==
  ASSUME TypeInv, SyncInv, Initialize PROVE SyncInv'
<1>0. Boot \in Threads /\ run \in [Threads -> Runs] /\ ~Editing(Boot)
  BY DEF TypeInv, WellRun, Threads, SyncInv
<1>1. ~(Editing(Boot)') /\ \A u \in Threads : u # Boot => run'[u] = run[u]
  BY <1>0 DEF Initialize, LoadMounts, LoadMissed, InitializeFails, RestoreMounts, RestoreNext,
     RestoreEnds, RestoreRefused, RestoreDialed, RestoreLock, RestoreClear, Restored, NotRestored,
     Requeue, Goto, Editing, Runs
<1>2. CASE LoadMounts
  <2>1. SUFFICES ASSUME ~mangled' PROVE Sync'
    BY <1>1 DEF SyncInv
  <2>2. ~mangled /\ \A u \in Tasks : ~Editing(u)
    BY <1>2, <2>1 DEF LoadMounts
  <2>3. mounts' = db /\ db' = db
    BY <1>2, <2>2 DEF LoadMounts, disk, SyncInv, Sync
  <2>4. \A u \in Threads : ~(Editing(u)')
    BY <1>1, <2>2 DEF Threads, Editing
  <2>5. ~(Doing(Boot, "load")')
    BY <1>0, <1>2 DEF LoadMounts, Goto, Doing, Runs
  <2>6. \A u \in Threads : EditStage(u)'
    BY <2>4 DEF EditStage, Editing, Doing
  <2> QED BY <2>3, <2>4, <2>5, <2>6 DEF Sync, Unedited
<1>3. CASE LoadMissed
  <2>1. SUFFICES ASSUME ~mangled' PROVE Sync'
    BY <1>1 DEF SyncInv
  <2>2. ~mangled /\ mounts' = db /\ db' = db
    BY <1>3, <2>1 DEF LoadMissed, disk
  <2>3. \A u \in Threads : ~Editing(u)
    BY <1>3, <2>2 DEF LoadMissed, SyncInv, Sync, Unedited
  <2>4. \A u \in Threads : ~(Editing(u)')
    BY <1>1, <2>3 DEF Editing
  <2>5. ~(Doing(Boot, "load")')
    BY <1>0, <1>3 DEF LoadMissed, Goto, Doing, Runs
  <2>6. \A u \in Threads : EditStage(u)'
    BY <2>4 DEF EditStage, Editing, Doing
  <2> QED BY <2>2, <2>4, <2>5, <2>6 DEF Sync, Unedited
<1>4. CASE ~LoadMounts /\ ~LoadMissed
  <2>1. UNCHANGED <<mounts, db, mangled>>
    BY <1>4 DEF Initialize, InitializeFails, RestoreMounts, RestoreNext, RestoreEnds,
       RestoreRefused, RestoreDialed, RestoreLock, RestoreClear, Restored, NotRestored, Requeue,
       disk
  <2>2. ~Doing(Boot, "load") /\ ~(Doing(Boot, "load")')
    BY <1>0, <1>4 DEF Initialize, InitializeFails, RestoreMounts, RestoreNext, RestoreEnds,
       RestoreRefused, RestoreDialed, RestoreLock, RestoreClear, Restored, NotRestored, Requeue,
       Goto, Doing, Runs
  <2> QED BY <1>0, <1>1, <2>1, <2>2, Elsewhere
<1> QED BY <1>2, <1>3, <1>4

LEMMA SyncRestart ==
  ASSUME SyncInv, Restart PROVE SyncInv'
<1>1. \A u \in Threads : ~(Editing(u)') /\ EditStage(u)'
  BY DEF Restart, Idle, Starting, Editing, EditStage, Doing
<1>2. Doing(Boot, "load")' /\ mounts' = <<>>
  BY DEF Restart, Idle, Starting, Doing, Threads
<1> QED BY <1>1, <1>2 DEF SyncInv, Sync, Unedited, Threads

LEMMA SyncStep ==
  ASSUME TypeInv, SyncInv, [Next]_vars PROVE SyncInv'
<1>1. CASE Next
  BY <1>1, SyncWork, SyncInitialize, SyncRestart DEF Next
<1>2. CASE UNCHANGED vars
  BY <1>2 DEF vars, disk, SyncInv, Sync, Unedited, EditStage, Editing, Doing
<1> QED BY <1>1, <1>2

LEMMA Invariants == Spec => [](TypeInv /\ SyncInv)
<1>1. TypeInv /\ SyncInv /\ [Next]_vars => (TypeInv /\ SyncInv)'
  BY TypeStep, SyncStep
<1> QED BY <1>1, TypeInit, SyncInit, PTL DEF Spec

(* When nothing runs, klient remembers across a restart exactly the mounts *)
(* it lists, unless edits overlapped, a removal was not saved, or the      *)
(* saved list could not be read.                                           *)
THEOREM ListIsSaved == Spec => []QuietSaved
<1>1. SyncInv => QuietSaved
  <2> SUFFICES ASSUME SyncInv, Quiet, ~mangled PROVE db = mounts
    BY DEF QuietSaved
  <2>1. ~Doing(Boot, "load") /\ Unedited
    BY DEF Quiet, Doing, Unedited, Editing, Threads
  <2> QED BY <2>1 DEF SyncInv, Sync
<1> QED BY <1>1, Invariants, PTL

(* A saved mount is forgotten only by the request that unmounts it: the    *)
(* list in the database is only ever longer, or shorter by one entry with  *)
(* the name the request found; unless edits overlapped, a removal was not  *)
(* saved, or the saved list could not be read.                             *)
THEOREM OnlyUnmountForgetsHolds == Spec => OnlyUnmountForgets
<1> DEFINE A == \A i \in 1 .. Len(db) : mangled \/ Contains(db', db[i])
                 \/ \E t \in Tasks : Doing(t, "saveless") /\ run[t].mount.machine = db[i].machine
<1>1. ASSUME TypeInv, SyncInv, [Next]_vars PROVE [A]_vars
  <2>t. db \in Seq(Mounts) /\ mounts \in Seq(Mounts)
    BY <1>1 DEF TypeInv, ListsOK
  <2>k. \A k \in 1 .. Len(db) : Contains(db, db[k])
    BY <2>t, Holding
  <2>1. CASE db' = db
    BY <2>1, <2>k
  <2>2. ASSUME NEW t \in Tasks, AddSaved(t), ~mangled PROVE \A k \in 1 .. Len(db) : Contains(db', db[k])
    <3>1. run[t].list = Append(db, run[t].mount) /\ db' = run[t].list
      BY <1>1, <2>2 DEF AddSaved, SyncInv, Sync, EditStage, Threads
    <3>2. run[t].mount \in Mounts
      BY <1>1, <2>2 DEF AddSaved, TypeInv, WellRun, Busy, Doing, Threads
    <3> QED BY <2>t, <3>1, <3>2, Appended
  <2>3. ASSUME NEW t \in Tasks, RemoveSaved(t), ~mangled PROVE A
    <3>1. Doing(t, "saveless") /\ db' = run[t].list
      BY <2>3 DEF RemoveSaved
    <3>2. \A k \in 1 .. Len(db) : db[k].machine = run[t].mount.machine \/ Contains(run[t].list, db[k])
      BY <1>1, <2>3, <3>1 DEF SyncInv, Sync, EditStage, Threads
    <3> QED BY <3>1, <3>2
  <2>4. CASE db' # db
    <3>1. PICK t \in Tasks : AddSaved(t) \/ RemoveSaved(t)
      <4>1. ~UNCHANGED vars /\ ~Restart
        BY <2>4 DEF vars, disk, Restart
      <4>2. ~Initialize
        BY <2>4 DEF Initialize, LoadMounts, LoadMissed, InitializeFails, RestoreMounts,
           RestoreNext, RestoreEnds, RestoreRefused, RestoreDialed, RestoreLock, RestoreClear,
           Restored, NotRestored, Requeue, disk
      <4>3. \A t \in Tasks : ~Request(t)
        BY <2>4 DEF Request, MountFolder, UnmountFolder, UnmountUnlisted, disk
      <4>4. PICK t \in Tasks : Work(t)
        BY <1>1, <4>1, <4>2, <4>3 DEF Next
      <4> QED BY <2>4, <4>4 DEF Work, LockMounting, MountExisting, MountFails, AddMount, AddNotSaved,
                 AddKept, RemoveMount, RemoveNotSaved, RemoveKept, Unmount, disk
    <3>2. CASE mangled
      BY <3>2
    <3>3. CASE ~mangled
      BY <2>2, <2>3, <3>1, <3>3
    <3> QED BY <3>2, <3>3
  <2> QED BY <2>1, <2>4
<1>2. Spec => [][A]_vars
  <2> HIDE DEF A
  <2> QED BY <1>1, Invariants, PTL DEF Spec
<1> QED BY <1>2 DEF OnlyUnmountForgets

-----------------------------------------------------------------------------
(* What is mounted.  The invariant is stated for one path at a time, those *)
(* nothing went wrong at: at most one thread works there.                  *)
At(t, S) == run[t].at \in S

Listed(list) == {list[i] : i \in 1 .. Len(list)}
On(list, p) == {x \in Listed(list) : x.path = p}

\* x is the first entry of the list with its name.
Named(list, x) == \E i \in 1 .. Len(list) : First(list, i, x.machine) /\ list[i] = x

\* Threads that meet have spoiled their paths, and so have those that began before
\* the list was loaded.
Apart ==
  \A t, u \in Threads :
    t # u /\ Busy(t) /\ Busy(u) /\ Touches(run[t].mount) \cap Touches(run[u].mount) # {} =>
      run[t].mount.path \in spoiled
Early == Doing(Boot, "load") => \A t \in Tasks : Busy(t) => run[t].mount.path \in spoiled
Met == Apart /\ Early

\* What the list in memory shows during an edit.
Shows(t) ==
  LET x == run[t].mount IN
  /\ Doing(t, "keep") => run[t].list = Append(mounts, x)
  /\ Doing(t, "saveless") =>
       \E i \in 1 .. Len(db) :
         /\ First(db, i, x.machine) /\ mounts = Shifted(db, i) /\ run[t].list = RemoveAt(db, i)
         /\ db[i] = x \/ ~Clean(db[i])
  /\ Doing(t, "keepless") =>
       \E y \in Mounts : mounts = Append(db, y) /\ (y \in Listed(db) \/ y.machine = x.machine)
Shown == \A t \in Threads : Shows(t)

\* A request on the path: what it found is listed, what it mounts is not yet.
TaskOn(t, p) ==
  Busy(t) /\ run[t].mount.path = p =>
    /\ At(t, {"remove", "saveless"}) => Named(db, run[t].mount)
    /\ At(t, {"fuse", "append", "save", "keepless", "unmount"}) => On(db, p) = {}
    /\ At(t, {"append", "save", "keep"}) => fs[p] = <<Entry(run[t].mount)>>
BootOn(p) ==
  Busy(Boot) /\ run[Boot].mount.path = p =>
    /\ run[Boot].mount \in On(db, p)
    /\ At(Boot, {"fuse"}) => fs[p] = <<>>
\* A mount that works is listed, or is about to be, or was until just now.
FsOn(p) ==
  /\ Len(fs[p]) <= 1
  /\ Live(p) => \E x \in Mounts :
       /\ x.path = p /\ fs[p] = <<Entry(x)>>
       /\ \/ x \in On(db, p)
          \/ \E t \in Tasks : run[t].mount = x /\ At(t, {"append", "save", "keepless", "unmount"})
\* A listed mount works, or waits to be restored, or is about to be removed.
Pending(x) ==
  At(Boot, {"load", "queue"}) \/ Contains(queue, x) \/ (Busy(Boot) /\ run[Boot].mount = x)
Leaving(x) == \E t \in Tasks : At(t, {"saveless"}) /\ run[t].mount = x
ListOn(p) == \A x \in On(db, p) : fs[p] = <<Entry(x)>> \/ Pending(x) \/ Leaving(x)
Single(list, p) ==
  \A i, j \in 1 .. Len(list) : list[i].path = p /\ list[j].path = p => i = j

PathOK(p) ==
  /\ Single(db, p) /\ BootOn(p) /\ FsOn(p) /\ ListOn(p)
  /\ \A t \in Tasks : TaskOn(t, p)

-----------------------------------------------------------------------------
(* Entries of lists.                                                       *)
(* What a list shows while an entry is removed is the shorter list with    *)
(* its last entry once more.                                               *)
LEMMA ShowsLastTwice ==
  ASSUME NEW list \in Seq(Mounts), NEW i \in 1 .. Len(list)
  PROVE  Shifted(list, i) = Append(RemoveAt(list, i), list[Len(list)])
<1> DEFINE short == RemoveAt(list, i)  n == Len(list)  y == list[n]
<1>1. n \in Nat /\ i \in 1 .. n /\ y \in Mounts
  BY LenProperties, ElementOfSeq
<1>2. /\ short \in Seq(Mounts) /\ Len(short) = n - 1
      /\ \A k \in 1 .. n - 1 : short[k] = IF k < i THEN list[k] ELSE list[k + 1]
  BY Removed
<1> HIDE DEF short
<1>3. /\ Append(short, y) \in Seq(Mounts) /\ Len(Append(short, y)) = n
      /\ \A k \in 1 .. n - 1 : Append(short, y)[k] = short[k]
      /\ Append(short, y)[n] = y
  BY <1>1, <1>2, AppendProperties
<1>4. Shifted(list, i) = [k \in 1 .. n |-> IF k < i \/ k = n THEN list[k] ELSE list[k + 1]]
  BY DEF Shifted
<1>5. \A k \in 1 .. n : Append(short, y)[k] = IF k < i \/ k = n THEN list[k] ELSE list[k + 1]
  BY <1>1, <1>2, <1>3
<1>6. Append(short, y) = [k \in 1 .. n |-> Append(short, y)[k]]
  BY <1>3, LenProperties
<1> QED BY <1>4, <1>5, <1>6 DEF short

LEMMA FirstIsOne ==
  ASSUME NEW list \in Seq(Mounts), NEW m, NEW i \in 1 .. Len(list), NEW j \in 1 .. Len(list),
         First(list, i, m), First(list, j, m)
  PROVE  i = j
BY LenProperties DEF First

LEMMA NamedIsListed ==
  ASSUME NEW list, NEW x, Named(list, x) PROVE x \in Listed(list)
BY DEF Named, Listed

LEMMA NamedAppended ==
  ASSUME NEW list \in Seq(Mounts), NEW y \in Mounts
  PROVE  /\ \A x \in Mounts : Named(list, x) => Named(Append(list, y), x)
         /\ \A x \in Mounts : /\ Named(Append(list, y), x)
                              /\ y \in Listed(list) \/ y.machine # x.machine
                              => Named(list, x)
<1> DEFINE n == Len(list)  long == Append(list, y)
<1>1. /\ n \in Nat /\ long \in Seq(Mounts) /\ Len(long) = n + 1 /\ long[n + 1] = y
      /\ \A k \in 1 .. n : long[k] = list[k]
  BY LenProperties, AppendProperties
<1> HIDE DEF long
<1>2. ASSUME NEW x \in Mounts, Named(list, x) PROVE Named(long, x)
  BY <1>1, <1>2 DEF Named, First
<1>3. ASSUME NEW x \in Mounts, Named(long, x), y \in Listed(list) \/ y.machine # x.machine
      PROVE  Named(list, x)
  <2>1. PICK i \in 1 .. n + 1 : First(long, i, x.machine) /\ long[i] = x
    BY <1>1, <1>3 DEF Named
  <2>2. i # n + 1
    <3> SUFFICES ASSUME i = n + 1 PROVE FALSE
      OBVIOUS
    <3>1. x = y
      BY <1>1, <2>1
    <3>2. PICK j \in 1 .. n : list[j] = y
      BY <1>3, <3>1 DEF Listed
    <3>3. long[j] = y /\ j \in 1 .. i - 1
      BY <1>1, <3>2
    <3> QED BY <2>1, <3>1, <3>3 DEF First
  <2>3. i \in 1 .. n
    BY <1>1, <2>2
  <2>4. list[i] = x /\ First(list, i, x.machine)
    BY <1>1, <2>1, <2>3 DEF First
  <2> QED BY <2>3, <2>4 DEF Named
<1> QED BY <1>2, <1>3 DEF long

LEMMA NamedRemoved ==
  ASSUME NEW list \in Seq(Mounts), NEW i \in 1 .. Len(list), NEW x \in Mounts,
         list[i].machine # x.machine
  PROVE  Named(list, x) <=> Named(RemoveAt(list, i), x)
<1> DEFINE n == Len(list)  short == RemoveAt(list, i)
<1>1. /\ n \in Nat /\ i \in 1 .. n /\ Len(short) = n - 1
      /\ \A k \in 1 .. n - 1 : short[k] = IF k < i THEN list[k] ELSE list[k + 1]
  BY LenProperties, Removed
<1> HIDE DEF n, short
<1>2. ASSUME Named(list, x) PROVE Named(short, x)
  <2>1. PICK k \in 1 .. n : First(list, k, x.machine) /\ list[k] = x
    BY <1>2 DEF Named, n
  <2>2. k # i
    BY <2>1
  <2> DEFINE j == IF k < i THEN k ELSE k - 1
  <2>3. j \in 1 .. n - 1 /\ short[j] = x
    BY <1>1, <2>1, <2>2
  <2>4. \A h \in 1 .. j - 1 : short[h].machine # x.machine
    BY <1>1, <2>1, <2>2 DEF First
  <2> HIDE DEF j
  <2> QED BY <1>1, <2>3, <2>4 DEF Named, First
<1>3. ASSUME Named(short, x) PROVE Named(list, x)
  <2>1. PICK k \in 1 .. n - 1 : First(short, k, x.machine) /\ short[k] = x
    BY <1>1, <1>3 DEF Named
  <2> DEFINE j == IF k < i THEN k ELSE k + 1
  <2>2. j \in 1 .. n /\ list[j] = x
    BY <1>1, <2>1
  <2>3. \A h \in 1 .. j - 1 : list[h].machine # x.machine
    <3> SUFFICES ASSUME NEW h \in 1 .. j - 1 PROVE list[h].machine # x.machine
      OBVIOUS
    <3>1. CASE h < i
      <4>1. h \in 1 .. n - 1 /\ h \in 1 .. k - 1
        BY <1>1, <3>1, <2>2
      <4> QED BY <1>1, <2>1, <3>1, <4>1 DEF First
    <3>2. CASE h = i
      BY <3>2
    <3>3. CASE h > i
      <4> DEFINE g == h - 1
      <4>1. g \in 1 .. n - 1 /\ g \in 1 .. k - 1 /\ ~(g < i) /\ g + 1 = h
        BY <1>1, <3>3
      <4> HIDE DEF g
      <4>2. short[g] = list[h] /\ short[g].machine # x.machine
        BY <1>1, <2>1, <4>1 DEF First
      <4> QED BY <4>2
    <3> QED BY <1>1, <3>1, <3>2, <3>3
  <2> HIDE DEF j
  <2>4. First(list, j, x.machine)
    BY <2>2, <2>3 DEF First
  <2> QED BY <2>2, <2>4 DEF Named, n
<1> QED BY <1>2, <1>3 DEF short

LEMMA ListedAppended ==
  ASSUME NEW list \in Seq(Mounts), NEW y \in Mounts
  PROVE  /\ Listed(Append(list, y)) = Listed(list) \cup {y}
         /\ \A p : y.path # p => On(Append(list, y), p) = On(list, p)
         /\ \A p : y.path = p /\ On(list, p) = {} => On(Append(list, y), p) = {y}
         /\ \A p : Single(list, p) /\ (y.path = p => On(list, p) = {}) => Single(Append(list, y), p)
<1> DEFINE n == Len(list)  long == Append(list, y)
<1>1. /\ n \in Nat /\ Len(long) = n + 1 /\ long[n + 1] = y
      /\ \A k \in 1 .. n : long[k] = list[k]
  BY LenProperties, AppendProperties
<1> HIDE DEF long
<1>2. Listed(long) = Listed(list) \cup {y}
  <2>1. \A k \in 1 .. n + 1 : k \in 1 .. n \/ k = n + 1
    BY <1>1
  <2>2. \A k \in 1 .. n : k \in 1 .. n + 1
    BY <1>1
  <2>3. n + 1 \in 1 .. n + 1
    BY <1>1
  <2> QED BY <1>1, <2>1, <2>2, <2>3 DEF Listed
<1>3. /\ \A p : y.path # p => On(long, p) = On(list, p)
      /\ \A p : y.path = p /\ On(list, p) = {} => On(long, p) = {y}
  BY <1>2 DEF On
<1>4. ASSUME NEW p, Single(list, p), y.path = p => On(list, p) = {} PROVE Single(long, p)
  <2>1. \A k \in 1 .. n : list[k].path = p => y.path # p
    BY <1>4 DEF On, Listed
  <2> QED BY <1>1, <1>4, <2>1 DEF Single
<1> QED BY <1>2, <1>3, <1>4 DEF long

LEMMA ListedRemoved ==
  ASSUME NEW list \in Seq(Mounts), NEW i \in 1 .. Len(list)
  PROVE  /\ Listed(RemoveAt(list, i)) \subseteq Listed(list)
         /\ Listed(list) \subseteq Listed(RemoveAt(list, i)) \cup {list[i]}
         /\ \A k \in 1 .. Len(list) : k # i => list[k] \in Listed(RemoveAt(list, i))
         /\ \A p : Single(list, p) => Single(RemoveAt(list, i), p)
         /\ \A p : list[i].path # p => On(RemoveAt(list, i), p) = On(list, p)
         /\ \A p : list[i].path = p /\ Single(list, p) => On(RemoveAt(list, i), p) = {}
<1> DEFINE n == Len(list)  short == RemoveAt(list, i)
           f(k) == IF k < i THEN k ELSE k + 1
<1>1. /\ n \in Nat /\ i \in 1 .. n /\ Len(short) = n - 1
      /\ \A k \in 1 .. n - 1 : short[k] = IF k < i THEN list[k] ELSE list[k + 1]
  BY LenProperties, Removed
<1> HIDE DEF n, short
<1>2. \A k \in 1 .. n - 1 : f(k) \in 1 .. n /\ f(k) # i /\ short[k] = list[f(k)]
  BY <1>1
<1>3. \A k, j \in 1 .. n - 1 : f(k) = f(j) => k = j
  BY <1>1
<1>4. \A k \in 1 .. n : k # i => \E j \in 1 .. n - 1 : f(j) = k
  <2> SUFFICES ASSUME NEW k \in 1 .. n, k # i PROVE \E j \in 1 .. n - 1 : f(j) = k
    OBVIOUS
  <2>1. CASE k < i
    BY <1>1, <2>1
  <2>2. CASE k > i
    <3>1. k - 1 \in 1 .. n - 1 /\ f(k - 1) = k
      BY <1>1, <2>2
    <3> QED BY <3>1
  <2> QED BY <1>1, <2>1, <2>2
<1> HIDE DEF f
<1>5. Listed(short) = {list[k] : k \in (1 .. n) \ {i}}
  <2>1. Listed(short) = {short[k] : k \in 1 .. n - 1}
    BY <1>1 DEF Listed
  <2>2. ASSUME NEW k \in 1 .. n - 1 PROVE short[k] \in {list[h] : h \in (1 .. n) \ {i}}
    BY <1>2
  <2>3. ASSUME NEW k \in (1 .. n) \ {i} PROVE list[k] \in {short[h] : h \in 1 .. n - 1}
    BY <1>2, <1>4
  <2> QED BY <2>1, <2>2, <2>3
<1>6. Listed(list) = {list[k] : k \in 1 .. n}
  BY DEF Listed, n
<1>7. \A p : Single(list, p) => Single(short, p)
  <2> SUFFICES ASSUME NEW p, Single(list, p), NEW k \in 1 .. n - 1, NEW j \in 1 .. n - 1,
                      short[k].path = p, short[j].path = p
               PROVE  k = j
    BY <1>1 DEF Single
  <2>1. f(k) = f(j)
    BY <1>2 DEF Single, n
  <2> QED BY <1>3, <2>1
<1>8. \A p : list[i].path # p => On(short, p) = On(list, p)
  BY <1>5, <1>6 DEF On
<1>9. ASSUME NEW p, list[i].path = p, Single(list, p) PROVE On(short, p) = {}
  <2>1. \A k \in (1 .. n) \ {i} : list[k].path # p
    BY <1>1, <1>9 DEF Single, n
  <2> QED BY <1>5, <2>1 DEF On
<1> QED BY <1>1, <1>5, <1>6, <1>7, <1>8, <1>9 DEF short, n

-----------------------------------------------------------------------------
(* Threads that meet.                                                      *)

\* A thread at a clean path works there alone, and alone on its machine.
LEMMA Alone ==
  ASSUME TypeInv, Apart, NEW t \in Threads, NEW u \in Threads, t # u, Busy(t), Busy(u),
         Clean(run[t].mount)
  PROVE  run[u].mount.path # run[t].mount.path /\ run[u].mount.machine # run[t].mount.machine
BY DEF Apart, Touches, Clean

\* Nobody begins to work and nobody changes its place.
LEMMA MetKept ==
  ASSUME Met, Boot \notin Tasks, spoiled \subseteq spoiled',
         \A t \in Threads : Busy(t)' => /\ Busy(t)
                                        /\ run'[t].mount.path = run[t].mount.path
                                        /\ run'[t].mount.machine = run[t].mount.machine,
         Doing(Boot, "load")' => Doing(Boot, "load")
  PROVE  Met'
<1>1. \A t \in Threads : Busy(t)' => Touches(run[t].mount)' = Touches(run[t].mount)
  BY DEF Touches
<1>2. Apart'
  BY <1>1 DEF Met, Apart
<1>3. Early'
  BY DEF Met, Early, Threads
<1> QED BY <1>2, <1>3 DEF Met

\* A thread begins to work.
LEMMA MetBegins ==
  ASSUME TypeInv, Met, NEW t \in Threads, NEW x \in Mounts, NEW r \in Runs,
         ~Busy(t), run' = [run EXCEPT ![t] = r], r.mount = x, Begin(t, x),
         r.at # "load"
  PROVE  /\ Met' /\ spoiled \subseteq spoiled'
         /\ x.path \notin spoiled' =>
              /\ ~Doing(Boot, "load")
              /\ \A u \in Threads : u # t /\ Busy(u) =>
                   run[u].mount.path # x.path /\ run[u].mount.machine # x.machine
<1>0. run \in [Threads -> Runs] /\ Boot \in Threads /\ Boot \notin Tasks
  BY MountsAssumption DEF TypeInv, WellRun, Threads
<1>1. /\ run'[t].mount = x /\ run'[t].at # "load" /\ \A u \in Threads : u # t => run'[u] = run[u]
  BY <1>0
<1>2. /\ spoiled \subseteq spoiled'
      /\ \A u \in Meets(t, x) : run[u].mount.path \in spoiled' /\ x.path \in spoiled'
      /\ Doing(Boot, "load") => x.path \in spoiled'
  BY DEF Begin, Spoil
<1>3. \A u \in Threads : u # t /\ Busy(u) /\ Touches(run[u].mount) \cap Touches(x) # {} => u \in Meets(t, x)
  BY DEF Meets
<1>4. \A u \in Threads : u # t => (Busy(u)' <=> Busy(u)) /\ Touches(run[u].mount)' = Touches(run[u].mount)
  BY <1>1 DEF Busy, Touches
<1>5. Touches(run[t].mount)' = Touches(x)
  BY <1>1 DEF Touches
<1>6. Apart'
  <2> SUFFICES ASSUME NEW u \in Threads, NEW v \in Threads, u # v, Busy(u)', Busy(v)',
                      (Touches(run[u].mount) \cap Touches(run[v].mount) # {})'
               PROVE  run'[u].mount.path \in spoiled'
    BY DEF Apart
  <2>1. CASE u = t
    <3>1. v \in Meets(t, x)
      BY <1>3, <1>4, <1>5, <2>1
    <3> QED BY <1>1, <1>2, <2>1, <3>1
  <2>2. CASE v = t
    <3>1. u \in Meets(t, x)
      BY <1>3, <1>4, <1>5, <2>2
    <3> QED BY <1>1, <1>2, <2>2, <3>1
  <2>3. CASE u # t /\ v # t
    BY <1>1, <1>2, <1>4, <2>3 DEF Met, Apart
  <2> QED BY <2>1, <2>2, <2>3
<1>7. Early'
  <2> SUFFICES ASSUME Doing(Boot, "load")', NEW u \in Tasks, Busy(u)' PROVE run'[u].mount.path \in spoiled'
    BY DEF Early
  <2>1. t # Boot /\ Doing(Boot, "load")
    BY <1>0, <1>1 DEF Doing
  <2>2. u \in Threads
    BY DEF Threads
  <2> QED BY <1>1, <1>2, <1>4, <2>1, <2>2 DEF Met, Early
<1>8. ASSUME x.path \notin spoiled', NEW u \in Threads, u # t, Busy(u)
      PROVE  run[u].mount.path # x.path /\ run[u].mount.machine # x.machine
  <2>1. Touches(run[u].mount) \cap Touches(x) = {}
    BY <1>2, <1>3, <1>8
  <2> QED BY <2>1 DEF Touches
<1> QED BY <1>2, <1>6, <1>7, <1>8 DEF Met

-----------------------------------------------------------------------------
(* What the list in memory shows while one thread edits it.                *)

\* The only one that edits.
LEMMA OneEdits ==
  ASSUME SyncInv, ~mangled, NEW t \in Threads, NEW u \in Threads, Editing(t), Editing(u)
  PROVE  t = u /\ t \in Tasks /\ ~Doing(Boot, "load")
BY DEF SyncInv, Sync, Unedited, Threads

LEMMA Views ==
  ASSUME TypeInv, SyncInv, Shown, ~mangled, ~Doing(Boot, "load")
  PROVE  /\ \A x \in Listed(mounts) :
              x \in Listed(db) \/ \E u \in Tasks : Editing(u) /\ run[u].mount.machine = x.machine
         /\ \A x \in Listed(db) :
              \/ x \in Listed(mounts) \/ ~Clean(x)
              \/ \E u \in Tasks : At(u, {"keep", "saveless"}) /\ run[u].mount = x
         /\ \A x \in Mounts : Named(mounts, x) =>
              Named(db, x) \/ \E u \in Tasks : Editing(u) /\ run[u].mount.machine = x.machine
<1>0. mounts \in Seq(Mounts) /\ db \in Seq(Mounts)
  BY DEF TypeInv, ListsOK
<1>1. CASE Unedited
  <2>1. mounts = db
    BY <1>1 DEF SyncInv, Sync
  <2> QED BY <2>1
<1>2. CASE ~Unedited
  <2>1. PICK t \in Threads : Editing(t)
    BY <1>2 DEF Unedited
  <2> DEFINE x == run[t].mount
  <2>2. t \in Tasks /\ x \in Mounts /\ Shows(t) /\ EditStage(t)
    <3>1. t \in Tasks
      BY <2>1, OneEdits
    <3>2. Busy(t)
      BY <2>1 DEF Editing, Busy
    <3> QED BY <3>1, <3>2 DEF SyncInv, Sync, Shown, TypeInv, WellRun, Threads
  <2>3. CASE Doing(t, "save")
    BY <2>2, <2>3 DEF EditStage
  <2>4. CASE Doing(t, "keep")
    <3>1. db = Append(mounts, x)
      BY <2>2, <2>4 DEF EditStage, Shows
    <3>2. Listed(db) = Listed(mounts) \cup {x}
      BY <1>0, <2>2, <3>1, ListedAppended
    <3>3. \A z \in Mounts : Named(mounts, z) => Named(db, z)
      BY <1>0, <2>2, <3>1, NamedAppended
    <3> QED BY <2>2, <2>4, <3>2, <3>3 DEF At, Doing
  <2>5. CASE Doing(t, "saveless")
    <3>1. PICK i \in 1 .. Len(db) :
            First(db, i, x.machine) /\ mounts = Shifted(db, i) /\ (db[i] = x \/ ~Clean(db[i]))
      BY <2>2, <2>5 DEF Shows
    <3> DEFINE short == RemoveAt(db, i)  y == db[Len(db)]
    <3>2. /\ short \in Seq(Mounts) /\ mounts = Append(short, y)
          /\ y \in Mounts /\ y \in Listed(db) /\ Len(db) \in 1 .. Len(db) /\ db[i] \in Mounts
      <4>1. Len(db) \in Nat /\ Len(db) \in 1 .. Len(db)
        BY <1>0, <3>1, LenProperties
      <4> QED BY <1>0, <3>1, <4>1, Removed, ShowsLastTwice, ElementOfSeq DEF Listed
    <3>3. /\ Listed(short) \subseteq Listed(db) /\ Listed(db) \subseteq Listed(short) \cup {db[i]}
          /\ Len(db) # i => y \in Listed(short)
      BY <1>0, <3>2, ListedRemoved
    <3>4. db[i].machine = x.machine
      BY <3>1 DEF First
    <3> HIDE DEF short
    <3>5. Listed(mounts) = Listed(short) \cup {y}
      BY <3>2, ListedAppended
    <3>6. \A z \in Listed(mounts) : z \in Listed(db)
      BY <3>2, <3>3, <3>5
    <3>7. \A z \in Listed(db) : z \in Listed(mounts) \/ ~Clean(z) \/ x = z
      BY <3>1, <3>3, <3>5
    <3>8. ASSUME NEW z \in Mounts, Named(mounts, z), x.machine # z.machine PROVE Named(db, z)
      <4>1. y \in Listed(short) \/ y.machine # z.machine
        BY <3>3, <3>4, <3>8
      <4>2. Named(short, z)
        BY <3>2, <3>8, <4>1, NamedAppended
      <4>3. db[i].machine # z.machine
        BY <3>4, <3>8
      <4> QED BY <1>0, <3>1, <4>2, <4>3, NamedRemoved DEF short
    <3> QED BY <2>1, <2>2, <2>5, <3>6, <3>7, <3>8 DEF At, Doing
  <2>6. CASE Doing(t, "keepless")
    <3>1. PICK y \in Mounts : mounts = Append(db, y) /\ (y \in Listed(db) \/ y.machine = x.machine)
      BY <2>2, <2>6 DEF Shows
    <3>2. Listed(mounts) = Listed(db) \cup {y}
      BY <1>0, <3>1, ListedAppended
    <3>3. ASSUME NEW z \in Mounts, Named(mounts, z), x.machine # z.machine PROVE Named(db, z)
      <4>1. y \in Listed(db) \/ y.machine # z.machine
        BY <3>1, <3>3
      <4> QED BY <1>0, <3>1, <3>3, <4>1, NamedAppended
    <3> QED BY <2>1, <2>2, <3>1, <3>2, <3>3
  <2> QED BY <2>1, <2>3, <2>4, <2>5, <2>6 DEF Editing, Doing
<1> QED BY <1>1, <1>2

LEMMA ShownInit == Init => Shown
BY DEF Init, Idle, Starting, Shown, Shows, Doing, Threads

\* No edit goes on.
LEMMA ShownIdle ==
  ASSUME \A t \in Threads : ~(Editing(t)') PROVE Shown'
BY DEF Shown, Shows, Editing, Doing

\* A step that edits nothing.
LEMMA ShownElsewhere ==
  ASSUME Shown, UNCHANGED <<mounts, db>>, spoiled \subseteq spoiled',
         \A u \in Threads : Editing(u)' => run'[u] = run[u]
  PROVE  Shown'
<1> SUFFICES ASSUME NEW u \in Threads, Editing(u)' PROVE Shows(u)'
  BY DEF Shown, Shows, Editing, Doing
<1>1. run'[u] = run[u] /\ Shows(u)
  BY DEF Shown
<1>2. \A y : Clean(y)' => Clean(y)
  BY DEF Clean
<1> QED BY <1>1, <1>2 DEF Shows, Doing

LEMMA ShownWork ==
  ASSUME TypeInv, SyncInv, ~mangled, Shown, NEW t \in Tasks, Work(t), ~mangled' PROVE Shown'
<1>0. t \in Threads /\ Boot \in Threads /\ t # Boot
  BY MountsAssumption DEF Threads
<1>t. /\ run \in [Threads -> Runs] /\ mounts \in Seq(Mounts) /\ db \in Seq(Mounts) /\ run[t] \in Runs
      /\ Busy(t) => run[t].mount \in Mounts
  BY <1>0 DEF TypeInv, WellRun, ListsOK
<1>o. \A u \in Threads : u # t => run'[u] = run[u]
  BY <1>t DEF Work, LockMounting, MountExisting, MountFails, AddMount, AddSaved, AddNotSaved, AddKept,
     RemoveMount, RemoveSaved, RemoveNotSaved, RemoveKept, Unmount, Unmounted, End, Goto
<1>n. ASSUME Editing(t) PROVE \A u \in Threads : Editing(u)' => u = t
  BY <1>0, <1>n, <1>o, OneEdits DEF Editing
\* Only this thread matters.
<1>s. ASSUME \A u \in Threads : Editing(u)' => u = t, Shows(t)' PROVE Shown'
  <2> SUFFICES ASSUME NEW u \in Threads, u # t PROVE Shows(u)'
    BY <1>s DEF Shown
  <2>1. ~(Editing(u)')
    BY <1>s
  <2> QED BY <2>1 DEF Shows, Editing, Doing
<1>1. CASE LockMounting(t) \/ MountExisting(t) \/ MountFails(t) \/ Unmount(t)
  <2>1. UNCHANGED <<mounts, db>> /\ spoiled \subseteq spoiled'
    BY <1>1 DEF LockMounting, MountExisting, MountFails, Unmount, disk, Spoil
  <2>2. ~(Editing(t)')
    <3>1. End(t) \/ Goto(t, "fuse") \/ Goto(t, "append") \/ Unmounted(t)
      BY <1>1 DEF LockMounting, MountExisting, MountFails, Unmount
    <3> QED BY <1>0, <1>t, <3>1 DEF Unmounted, End, Goto, Idle, Editing, Runs
  <2> QED BY <1>o, <2>1, <2>2, ShownElsewhere
<1>2. CASE AddMount(t)
  <2>1. ~Doing(Boot, "load") /\ \A u \in Threads \ {t} : ~Editing(u)
    BY <1>2 DEF AddMount, Edit
  <2>2. run'[t].at = "save"
    BY <1>0, <1>t, <1>2 DEF AddMount
  <2> QED BY <1>o, <1>s, <2>1, <2>2 DEF Editing, Shows, Doing
<1>3. CASE AddSaved(t)
  <2>1. Editing(t) /\ Doing(t, "save") /\ mounts' = mounts
    BY <1>3 DEF AddSaved, Editing, Doing
  <2>2. run'[t].at = "keep" /\ run'[t].list = run[t].list /\ run'[t].mount = run[t].mount
    BY <1>0, <1>t, <1>3 DEF AddSaved, Goto, Runs
  <2>3. run[t].list = Append(mounts, run[t].mount)
    BY <1>0, <2>1 DEF SyncInv, Sync, EditStage
  <2> QED BY <1>n, <1>s, <2>1, <2>2, <2>3 DEF Shows, Doing
<1>4. CASE AddNotSaved(t) \/ AddKept(t) \/ RemoveKept(t)
  <2>1. Editing(t)
    BY <1>4 DEF AddNotSaved, AddKept, RemoveKept, Editing, Doing
  <2>2. ~(Editing(t)')
    <3>1. End(t) \/ Goto(t, "unmount")
      BY <1>4 DEF AddNotSaved, AddKept, RemoveKept
    <3> QED BY <1>0, <1>t, <3>1 DEF End, Goto, Idle, Editing, Runs
  <2> QED BY <1>n, <2>1, <2>2, ShownIdle
<1>5. CASE RemoveMount(t) /\ HasName(mounts, run[t].mount.machine)
  <2> DEFINE m == run[t].mount.machine  i == IndexByName(mounts, m)
  <2>1. /\ ~Doing(Boot, "load") /\ \A u \in Threads \ {t} : ~Editing(u)
        /\ mounts' = Shifted(mounts, i) /\ Spoil({mounts[i]} \ {run[t].mount})
        /\ db' = db /\ ~Editing(t)
    BY <1>5 DEF RemoveMount, Edit, disk, Editing, Doing
  <2>2. /\ run'[t].at = "saveless" /\ run'[t].list = RemoveAt(mounts, i)
        /\ run'[t].mount = run[t].mount
    BY <1>0, <1>t, <1>5 DEF RemoveMount, Runs
  <2>3. mounts = db
    BY <2>1 DEF SyncInv, Sync, Unedited
  <2>4. i \in 1 .. Len(mounts) /\ First(mounts, i, m)
    BY <1>t, <1>5, IndexInList
  <2> HIDE DEF i
  <2>5. mounts[i] = run[t].mount \/ mounts[i].path \in spoiled'
    BY <2>1 DEF Spoil
  <2>6. Shows(t)'
    BY <2>1, <2>2, <2>3, <2>4, <2>5 DEF Shows, Doing, First, Clean
  <2> QED BY <1>o, <1>s, <2>1, <2>6 DEF Editing
<1>6. CASE RemoveMount(t) /\ ~HasName(mounts, run[t].mount.machine)
  <2>1. UNCHANGED <<mounts, db, spoiled>> /\ ~(Editing(t)')
    BY <1>0, <1>t, <1>6 DEF RemoveMount, disk, Editing, Runs
  <2> QED BY <1>o, <2>1, ShownElsewhere
<1>7. CASE RemoveSaved(t)
  <2> DEFINE x == run[t].mount
  <2>1. Editing(t) /\ Doing(t, "saveless") /\ mounts' = mounts /\ db' = run[t].list /\ x \in Mounts
    BY <1>t, <1>7 DEF RemoveSaved, Editing, Doing, Busy
  <2>2. run'[t].at = "keepless" /\ run'[t].list = run[t].list /\ run'[t].mount = x
    BY <1>0, <1>t, <1>7 DEF RemoveSaved, Goto, Runs
  <2>3. PICK i \in 1 .. Len(db) :
          First(db, i, x.machine) /\ mounts = Shifted(db, i) /\ run[t].list = RemoveAt(db, i)
    BY <1>0, <2>1 DEF Shown, Shows
  <2> DEFINE y == db[Len(db)]
  <2>4. mounts = Append(db', y) /\ y \in Mounts
    <3>1. Len(db) \in Nat /\ Len(db) \in 1 .. Len(db)
      BY <1>t, <2>3, LenProperties
    <3> QED BY <1>t, <2>1, <2>3, <3>1, ShowsLastTwice, ElementOfSeq
  <2>5. y \in Listed(db') \/ y.machine = x.machine
    <3>1. CASE Len(db) = i
      BY <2>3, <3>1 DEF First
    <3>2. CASE Len(db) # i
      <4>1. Len(db) \in 1 .. Len(db)
        BY <1>t, <2>3, LenProperties
      <4> QED BY <1>t, <2>1, <2>3, <3>2, <4>1, ListedRemoved
    <3> QED BY <3>1, <3>2
  <2>6. Shows(t)'
    <3> HIDE DEF x, y
    <3>1. mounts' = Append(db', y) /\ (y \in Listed(db') \/ y.machine = run'[t].mount.machine)
      BY <2>1, <2>2, <2>4, <2>5
    <3>2. Listed(db)' = Listed(db')
      BY DEF Listed
    <3> QED BY <2>2, <2>4, <3>1, <3>2 DEF Shows, Doing
  <2> QED BY <1>n, <1>s, <2>1, <2>6
<1>8. CASE RemoveNotSaved(t)
  BY <1>8 DEF RemoveNotSaved
<1> QED BY <1>1, <1>2, <1>3, <1>4, <1>5, <1>6, <1>7, <1>8 DEF Work

-----------------------------------------------------------------------------
(* Each step on each path.                                                 *)

\* A path where the step's thread does not work.
LEMMA OtherPath ==
  ASSUME NEW p \in Paths, PathOK(p), NEW t \in Threads,
         \A u \in Threads : u # t => run'[u] = run[u],
         ~(Busy(t) /\ run[t].mount.path = p), ~(Busy(t) /\ run[t].mount.path = p)',
         fs'[p] = fs[p], On(db', p) = On(db, p), Single(db', p),
         \A u \in Tasks : /\ u # t /\ Busy(u) /\ run[u].mount.path = p /\ Named(db, run[u].mount)
                          => Named(db', run[u].mount),
         \A x \in On(db, p) : Pending(x) => Pending(x)' \/ fs[p] = <<Entry(x)>> \/ Leaving(x)
  PROVE  PathOK(p)'
<1>1. \A u \in Threads : (Busy(u) /\ run[u].mount.path = p)' =>
        Busy(u) /\ run[u].mount.path = p /\ run'[u] = run[u] /\ u # t
  BY DEF Busy
<1>2. \A u \in Threads : Busy(u) /\ run[u].mount.path = p => run'[u] = run[u]
  OBVIOUS
<1>3. \A u \in Tasks : u \in Threads
  BY DEF Threads
<1>4. On(db, p)' = On(db', p) /\ Single(db, p)'
  BY DEF On, Listed, Single
<1>5. ASSUME NEW u \in Tasks PROVE TaskOn(u, p)'
  <2> SUFFICES ASSUME (Busy(u) /\ run[u].mount.path = p)' PROVE TaskOn(u, p)'
    BY DEF TaskOn
  <2>1. Busy(u) /\ run[u].mount.path = p /\ run'[u] = run[u] /\ u # t /\ TaskOn(u, p)
    BY <1>1, <1>3 DEF PathOK
  <2>2. Named(db, run[u].mount)' <=> Named(db', run[u].mount)
    BY <2>1 DEF Named, First
  <2> QED BY <1>4, <2>1, <2>2 DEF TaskOn, At
<1>6. BootOn(p)'
  <2> SUFFICES ASSUME (Busy(Boot) /\ run[Boot].mount.path = p)' PROVE BootOn(p)'
    BY DEF BootOn
  <2>1. Busy(Boot) /\ run[Boot].mount.path = p /\ run'[Boot] = run[Boot] /\ BootOn(p)
    BY <1>1 DEF PathOK, Threads
  <2> QED BY <1>4, <2>1 DEF BootOn, At
<1>7. ASSUME NEW u \in Tasks, NEW x \in Mounts, x.path = p, run[u].mount = x,
             At(u, {"append", "save", "keepless", "unmount", "saveless"})
      PROVE  run'[u] = run[u]
  BY <1>2, <1>3, <1>7 DEF At, Busy
<1>8. FsOn(p)'
  <2>1. Len(fs'[p]) <= 1 /\ (Live(p)' <=> Live(p))
    BY DEF PathOK, FsOn, Live
  <2>2. ASSUME Live(p)
        PROVE  \E x \in Mounts :
                 /\ x.path = p /\ fs'[p] = <<Entry(x)>>'
                 /\ \/ x \in On(db', p)
                    \/ \E u \in Tasks : run'[u].mount = x /\ run'[u].at \in {"append", "save", "keepless", "unmount"}
    <3>1. PICK x \in Mounts :
            /\ x.path = p /\ fs[p] = <<Entry(x)>>
            /\ x \in On(db, p) \/ \E u \in Tasks : run[u].mount = x /\ At(u, {"append", "save", "keepless", "unmount"})
      BY <2>2 DEF PathOK, FsOn
    <3>2. CASE x \in On(db, p)
      BY <3>1, <3>2
    <3>3. ASSUME NEW u \in Tasks, run[u].mount = x, At(u, {"append", "save", "keepless", "unmount"})
          PROVE  run'[u].mount = x /\ run'[u].at \in {"append", "save", "keepless", "unmount"}
      <4>1. At(u, {"append", "save", "keepless", "unmount", "saveless"})
        BY <3>3 DEF At
      <4> QED BY <1>7, <3>1, <3>3, <4>1 DEF At
    <3> QED BY <3>1, <3>2, <3>3
  <2> QED BY <1>4, <2>1, <2>2 DEF FsOn, At
<1>9. ListOn(p)'
  <2> SUFFICES ASSUME NEW x \in On(db, p)
               PROVE  fs'[p] = <<Entry(x)>> \/ Pending(x)' \/ Leaving(x)'
    BY <1>4 DEF ListOn
  <2>1. fs[p] = <<Entry(x)>> \/ Pending(x) \/ Leaving(x)
    BY DEF PathOK, ListOn
  <2>2. ASSUME Leaving(x) PROVE Leaving(x)'
    <3>1. PICK u \in Tasks : At(u, {"saveless"}) /\ run[u].mount = x
      BY <2>2 DEF Leaving
    <3>2. Busy(u) /\ x.path = p /\ u \in Threads
      BY <1>3, <3>1 DEF At, Busy, On
    <3>3. run'[u] = run[u]
      BY <1>2, <3>1, <3>2
    <3> QED BY <3>1, <3>3 DEF Leaving, At
  <2> QED BY <2>1, <2>2
<1> QED BY <1>4, <1>5, <1>6, <1>8, <1>9 DEF PathOK

\* The path where a request works, alone.
LEMMA OwnPath ==
  ASSUME NEW t \in Tasks, NEW p \in Paths, t # Boot,
         \A u \in Threads : u # t => run'[u] = run[u],
         \A u \in Threads : u # t /\ Busy(u) => run[u].mount.path # p,
         (Single(db, p) /\ FsOn(p) /\ ListOn(p) /\ TaskOn(t, p))'
  PROVE  PathOK(p)'
<1>1. \A u \in Threads : u # t => ~((Busy(u) /\ run[u].mount.path = p)')
  BY DEF Busy
<1>2. BootOn(p)'
  BY <1>1 DEF BootOn, Threads
<1>3. \A u \in Tasks : TaskOn(u, p)'
  BY <1>1 DEF TaskOn, Threads
<1> QED BY <1>2, <1>3 DEF PathOK

\* What a request knows of the path it works at alone.
LEMMA OwnFs ==
  ASSUME NEW t \in Tasks, NEW p \in Paths, PathOK(p), TypeInv,
         \A u \in Threads : u # t /\ Busy(u) => run[u].mount.path # p
  PROVE  /\ Live(p) => \E x \in Mounts :
              /\ x.path = p /\ fs[p] = <<Entry(x)>>
              /\ x \in On(db, p) \/ (run[t].mount = x /\ At(t, {"append", "save", "keepless", "unmount"}))
         /\ \A x \in On(db, p) : fs[p] = <<Entry(x)>> \/ Pending(x) \/ (At(t, {"saveless"}) /\ run[t].mount = x)
         /\ At(t, {"fuse"}) /\ run[t].mount.path = p /\ ~Dead(p) => fs[p] = <<>>
<1>1. \A u \in Tasks : At(u, {"append", "save", "keepless", "unmount", "saveless"}) => u \in Threads /\ Busy(u)
  BY DEF At, Busy, Threads
<1>2. ASSUME Live(p)
      PROVE  \E x \in Mounts :
              /\ x.path = p /\ fs[p] = <<Entry(x)>>
              /\ x \in On(db, p) \/ (run[t].mount = x /\ At(t, {"append", "save", "keepless", "unmount"}))
  <2>1. PICK x \in Mounts :
          /\ x.path = p /\ fs[p] = <<Entry(x)>>
          /\ x \in On(db, p) \/ \E u \in Tasks : run[u].mount = x /\ At(u, {"append", "save", "keepless", "unmount"})
    BY <1>2 DEF PathOK, FsOn
  <2>2. ASSUME NEW u \in Tasks, run[u].mount = x, At(u, {"append", "save", "keepless", "unmount"}) PROVE u = t
    <3>1. At(u, {"append", "save", "keepless", "unmount", "saveless"})
      BY <2>2 DEF At
    <3> QED BY <1>1, <2>1, <2>2, <3>1
  <2> QED BY <2>1, <2>2
<1>3. ASSUME NEW x \in On(db, p)
      PROVE  fs[p] = <<Entry(x)>> \/ Pending(x) \/ (At(t, {"saveless"}) /\ run[t].mount = x)
  <2>1. fs[p] = <<Entry(x)>> \/ Pending(x) \/ Leaving(x)
    BY DEF PathOK, ListOn
  <2>2. ASSUME NEW u \in Tasks, At(u, {"saveless"}), run[u].mount = x PROVE u = t
    <3>1. At(u, {"append", "save", "keepless", "unmount", "saveless"})
      BY <2>2 DEF At
    <3> QED BY <1>1, <2>2, <3>1 DEF On
  <2> QED BY <2>1, <2>2 DEF Leaving
<1>4. ASSUME At(t, {"fuse"}), run[t].mount.path = p, ~Dead(p) PROVE fs[p] = <<>>
  <2>1. Busy(t) /\ TaskOn(t, p)
    BY <1>4 DEF PathOK, At, Busy
  <2>2. On(db, p) = {} /\ ~At(t, {"append", "save", "keepless", "unmount"})
    BY <1>4, <2>1 DEF TaskOn, At
  <2>3. ~Live(p)
    BY <1>2, <2>2
  <2> QED BY <1>4, <2>3 DEF Live, Dead
<1> QED BY <1>2, <1>3, <1>4

Served == \A p \in Paths \ spoiled : PathOK(p)

\* A step of a request on other paths than p.
LEMMA TaskElsewhere ==
  ASSUME TypeInv, NEW p \in Paths, PathOK(p), NEW t \in Tasks,
         \A u \in Threads : u # t => run'[u] = run[u],
         ~(Busy(t) /\ run[t].mount.path = p), ~(Busy(t) /\ run[t].mount.path = p)',
         fs'[p] = fs[p], UNCHANGED queue, On(db', p) = On(db, p), Single(db', p),
         \A u \in Tasks : /\ u # t /\ Busy(u) /\ run[u].mount.path = p /\ Named(db, run[u].mount)
                          => Named(db', run[u].mount)
  PROVE  PathOK(p)'
<1>0. t \in Threads /\ Boot \in Threads /\ t # Boot
  BY MountsAssumption DEF Threads
<1>1. \A x : Pending(x)' <=> Pending(x)
  BY <1>0 DEF Pending, At, Busy
<1> QED BY <1>0, <1>1, OtherPath

\* The found mount is listed, the first with its name.
LEMMA Found ==
  ASSUME NEW list \in Seq(Mounts), NEW m \in Machines, HasName(list, m)
  PROVE  FindByName(list, m) \in Mounts /\ Named(list, FindByName(list, m))
<1>1. IndexByName(list, m) \in 1 .. Len(list) /\ First(list, IndexByName(list, m), m)
  BY IndexInList
<1>2. FindByName(list, m) = list[IndexByName(list, m)] /\ FindByName(list, m).machine = m
  BY <1>1 DEF FindByName, First
<1> QED BY <1>1, <1>2, ElementOfSeq DEF Named

LEMMA MetRequest ==
  ASSUME TypeInv, Met, NEW t \in Tasks, Request(t) PROVE Met'
<1>0. t \in Threads /\ Idle \in Runs /\ mounts \in Seq(Mounts)
  BY EmptySeq, MountsAssumption DEF Threads, Idle, Runs, Places, TypeInv, ListsOK
<1>1. ASSUME NEW x \in Mounts, MountFolder(t, x) PROVE Met'
  <2> DEFINE r == [Idle EXCEPT !.at = "lock", !.op = "mount", !.mount = x]
  <2>1. r \in Runs /\ r.at = "lock" /\ r.mount = x
    BY <1>0 DEF Idle, Runs, Places
  <2>2. run' = [run EXCEPT ![t] = r] /\ Begin(t, x) /\ ~Busy(t)
    BY <1>1 DEF MountFolder, Doing, Busy
  <2> HIDE DEF r
  <2> QED BY <1>0, <2>1, <2>2, MetBegins
<1>2. ASSUME NEW m \in Machines, NEW op \in {"unmount", "remount"}, UnmountFolder(t, m, op)
      PROVE  Met'
  <2> DEFINE x == FindByName(mounts, m)
             r == [Idle EXCEPT !.at = "remove", !.op = op, !.mount = x, !.next = made']
  <2>1. x \in Mounts
    BY <1>0, <1>2, Found DEF UnmountFolder
  <2>2. made' \in 0 .. MaxMounts
    BY <1>2, MountsAssumption DEF UnmountFolder, TypeInv, CountsOK
  <2>3. run' = [run EXCEPT ![t] = r] /\ Begin(t, x) /\ ~Busy(t)
    BY <1>2 DEF UnmountFolder, Doing, Busy
  <2> HIDE DEF x
  <2>4. r \in Runs /\ r.at = "remove" /\ r.mount = x
    BY <1>0, <2>1, <2>2 DEF Idle, Runs, Places
  <2> HIDE DEF r
  <2> QED BY <1>0, <2>1, <2>3, <2>4, MetBegins
<1>3. ASSUME NEW m \in Machines, NEW q \in Paths, UnmountUnlisted(t, m, q) PROVE Met'
  <2>1. run' = run /\ spoiled \subseteq spoiled'
    BY <1>3 DEF UnmountUnlisted
  <2>2. (\A u \in Threads : Busy(u)' => Busy(u)) /\ (Doing(Boot, "load")' => Doing(Boot, "load"))
    BY <2>1 DEF Busy, Doing
  <2> QED BY <2>1, <2>2, MountsAssumption, MetKept
<1> QED BY <1>1, <1>2, <1>3 DEF Request

LEMMA ServedRequest ==
  ASSUME TypeInv, SyncInv, Met, ~mangled, Shown, Served, NEW t \in Tasks, Request(t)
  PROVE  Shown' /\ Served'
<1>0. t \in Threads /\ Boot \in Threads /\ t # Boot
  BY MountsAssumption DEF Threads
<1>t. /\ run \in [Threads -> Runs] /\ mounts \in Seq(Mounts) /\ db \in Seq(Mounts)
      /\ fs \in [Paths -> Seq(Entries)]
  BY DEF TypeInv, WellRun, ListsOK, FsOK
<1>e. <<>> \in Seq(Mounts) /\ Idle \in Runs
  BY EmptySeq, MountsAssumption DEF Idle, Runs, Places
\* The request begins to work on x; what it has found is listed.
<1>b. ASSUME NEW x \in Mounts, NEW r \in Runs, r.mount = x, r.at \in {"lock", "remove"},
             ~Busy(t), ~Editing(t), run' = [run EXCEPT ![t] = r], Begin(t, x),
             UNCHANGED <<mounts, db, fs, queue>>,
             r.at = "remove" => Named(mounts, x)
      PROVE  Shown' /\ Served'
  <2>1. /\ Met' /\ spoiled \subseteq spoiled'
        /\ x.path \notin spoiled' =>
             /\ ~Doing(Boot, "load")
             /\ \A u \in Threads : u # t /\ Busy(u) =>
                  run[u].mount.path # x.path /\ run[u].mount.machine # x.machine
    BY <1>0, <1>b, MetBegins
  <2>2. run'[t] = r /\ \A u \in Threads : u # t => run'[u] = run[u]
    BY <1>0, <1>t, <1>b
  <2>3. Shown'
    <3>1. \A u \in Threads : Editing(u)' => run'[u] = run[u]
      BY <1>b, <2>2 DEF Editing
    <3> QED BY <1>b, <2>1, <3>1, ShownElsewhere
  <2>4. ASSUME NEW p \in Paths \ spoiled', p # x.path PROVE PathOK(p)'
    <3>1. PathOK(p)
      BY <2>1 DEF Served
    <3> QED BY <1>b, <2>2, <2>4, <3>1, TaskElsewhere DEF PathOK
  <2>5. ASSUME x.path \notin spoiled' PROVE PathOK(x.path)'
    <3> DEFINE p == x.path
    <3>1. p \in Paths /\ PathOK(p)
      BY <1>b, <2>1, <2>5 DEF Served, Mounts
    <3>2. \A u \in Threads : u # t /\ Busy(u) => run[u].mount.path # p
      BY <2>1, <2>5
    <3>3. TaskOn(t, p)'
      <4>1. CASE r.at = "lock"
        BY <2>2, <4>1 DEF TaskOn, At
      <4>2. CASE r.at = "remove"
        <5>1. Named(mounts, x) /\ ~\E u \in Tasks : Editing(u) /\ run[u].mount.machine = x.machine
          <6>1. \A u \in Tasks : Editing(u) => u \in Threads /\ u # t /\ Busy(u)
            BY <1>b DEF Editing, Busy, Threads
          <6> QED BY <1>b, <2>1, <2>5, <4>2, <6>1
        <5>2. Named(db, x)
          BY <1>b, <2>1, <2>5, <5>1, Views
        <5>3. Named(db, run[t].mount)'
          BY <1>b, <2>2, <5>2 DEF Named, First
        <5> QED BY <2>2, <4>2, <5>3 DEF TaskOn, At
      <4> QED BY <1>b, <4>1, <4>2
    <3>4. ~At(t, {"append", "save", "keepless", "unmount", "saveless", "fuse"})
      BY <1>b DEF At, Busy
    <3>5. /\ Live(p) => \E y \in Mounts : y.path = p /\ fs[p] = <<Entry(y)>> /\ y \in On(db, p)
          /\ \A y \in On(db, p) : fs[p] = <<Entry(y)>> \/ Pending(y)
      BY <3>1, <3>2, <3>4, OwnFs DEF At
    <3>6. \A y : Pending(y)' <=> Pending(y)
      BY <1>0, <1>b, <2>2 DEF Pending, At, Busy
    <3> HIDE DEF p
    <3>7. FsOn(p)' /\ ListOn(p)' /\ Single(db, p)'
      BY <1>b, <3>1, <3>5, <3>6 DEF FsOn, ListOn, PathOK, Live, On, Listed, Single
    <3>8. PathOK(p)'
      BY <1>0, <2>2, <3>1, <3>2, <3>3, <3>7, OwnPath
    <3> QED BY <3>8 DEF p
  <2> QED BY <2>3, <2>4, <2>5 DEF Served
<1>1. ASSUME NEW x \in Mounts, MountFolder(t, x) PROVE Shown' /\ Served'
  <2> DEFINE r == [Idle EXCEPT !.at = "lock", !.op = "mount", !.mount = x]
  <2>1. r \in Runs /\ r.at = "lock" /\ r.mount = x
    BY <1>e DEF Idle, Runs, Places
  <2>2. run' = [run EXCEPT ![t] = r] /\ Begin(t, x) /\ UNCHANGED <<mounts, db, fs, queue>>
        /\ ~Busy(t) /\ ~Editing(t)
    BY <1>1 DEF MountFolder, disk, boot, Doing, Busy, Editing
  <2> HIDE DEF r
  <2> QED BY <1>b, <2>1, <2>2
<1>2. ASSUME NEW m \in Machines, NEW op \in {"unmount", "remount"}, UnmountFolder(t, m, op)
      PROVE  Shown' /\ Served'
  <2> DEFINE x == FindByName(mounts, m)
             r == [Idle EXCEPT !.at = "remove", !.op = op, !.mount = x, !.next = made']
  <2>1. x \in Mounts /\ Named(mounts, x)
    BY <1>t, <1>2, Found DEF UnmountFolder
  <2>2. made' \in 0 .. MaxMounts
    BY <1>2, MountsAssumption DEF UnmountFolder, TypeInv, CountsOK
  <2>3. /\ run' = [run EXCEPT ![t] = r] /\ Begin(t, x) /\ UNCHANGED <<mounts, db, fs, queue>>
        /\ ~Busy(t) /\ ~Editing(t)
    BY <1>2 DEF UnmountFolder, disk, boot, Doing, Busy, Editing
  <2> HIDE DEF x
  <2>4. r \in Runs /\ r.at = "remove" /\ r.mount = x
    BY <1>e, <2>1, <2>2 DEF Idle, Runs, Places
  <2> HIDE DEF r
  <2> QED BY <1>b, <2>1, <2>3, <2>4
<1>3. ASSUME NEW m \in Machines, NEW q \in Paths, UnmountUnlisted(t, m, q)
      PROVE  Shown' /\ Served'
  <2>1. /\ UNCHANGED <<mounts, db, run, queue>> /\ spoiled' = spoiled \cup {q}
        /\ UnmountPath(q) /\ ~Busy(t)
    BY <1>3 DEF UnmountUnlisted, boot, Doing, Busy
  <2>3. Shown'
    BY <2>1, ShownElsewhere
  <2>4. ASSUME NEW p \in Paths \ spoiled' PROVE PathOK(p)'
    <3>1. PathOK(p) /\ fs'[p] = fs[p]
      BY <1>t, <2>1 DEF Served, UnmountPath
    <3>2. ~(Busy(t)')
      BY <2>1 DEF Busy
    <3> QED BY <2>1, <3>1, <3>2, TaskElsewhere DEF PathOK
  <2> QED BY <2>3, <2>4 DEF Served
<1> QED BY <1>1, <1>2, <1>3 DEF Request

\* Where one mount is, nothing is left below it.
LEMMA FrontOfOne ==
  ASSUME NEW list \in Seq(Entries), list # <<>>, Len(list) <= 1 PROVE Front(list) = <<>>
<1>1. Len(list) = 1
  <2> DEFINE n == Len(list)
  <2>1. n \in Nat \ {0} /\ n <= 1
    BY EmptySeq
  <2> HIDE DEF n
  <2>2. n = 1
    BY <2>1
  <2> QED BY <2>2 DEF n
<1>2. 1 \in Int /\ 0 \in Int /\ \A k \in 1 .. 0 : list[k] \in Entries
  OBVIOUS
<1>3. SubSeq(list, 1, 0) \in Seq(Entries) /\ Len(SubSeq(list, 1, 0)) = 0
  BY <1>2, SubSeqProperties
<1>4. SubSeq(list, 1, 0) = <<>>
  BY <1>3, EmptySeq
<1> QED BY <1>1, <1>4 DEF Front

\* The list and the database are as before.
LEMMA SamePath ==
  ASSUME NEW p, UNCHANGED db
  PROVE  /\ On(db', p) = On(db, p) /\ On(db, p)' = On(db, p)
         /\ (Single(db', p) <=> Single(db, p)) /\ (Single(db, p)' <=> Single(db, p))
         /\ \A x : Named(db', x) <=> Named(db, x)
BY DEF On, Listed, Single, Named, First

LEMMA ServedWork ==
  ASSUME TypeInv, SyncInv, Met, ~mangled, Shown, Served, NEW t \in Tasks, Work(t), ~mangled'
  PROVE  Served'
<1>0. t \in Threads /\ Boot \in Threads /\ t # Boot
  BY MountsAssumption DEF Threads
<1> DEFINE x == run[t].mount  p == x.path
<1>t. /\ run \in [Threads -> Runs] /\ mounts \in Seq(Mounts) /\ db \in Seq(Mounts) /\ run[t] \in Runs
      /\ fs \in [Paths -> Seq(Entries)]
  BY <1>0 DEF TypeInv, WellRun, ListsOK, FsOK
<1>b. Busy(t) /\ x \in Mounts /\ p \in Paths
  <2>1. Busy(t)
    BY DEF Work, LockMounting, MountExisting, MountFails, AddMount, AddSaved, AddNotSaved, AddKept,
       RemoveMount, RemoveSaved, RemoveNotSaved, RemoveKept, Unmount, Doing, Busy
  <2> QED BY <1>0, <2>1 DEF TypeInv, WellRun, Mounts
<1>o. \A u \in Threads : u # t => run'[u] = run[u]
  BY <1>t DEF Work, LockMounting, MountExisting, MountFails, AddMount, AddSaved, AddNotSaved, AddKept,
     RemoveMount, RemoveSaved, RemoveNotSaved, RemoveKept, Unmount, Unmounted, End, Goto
<1>m. Busy(t)' => run'[t].mount.path = p
  <2>1. CASE Unmounted(t)
    BY <1>0, <1>t, <1>b, <2>1 DEF Unmounted, End, Idle, Busy, Runs, Mounts
  <2>2. CASE run'[t].mount = run[t].mount
    BY <2>2
  <2>3. CASE End(t)
    BY <1>0, <1>t, <2>3 DEF End, Idle, Busy
  <2>4. run'[t].mount = run[t].mount \/ End(t) \/ Unmounted(t)
    BY <1>0, <1>t DEF Work, LockMounting, MountExisting, MountFails, AddMount, AddSaved, AddNotSaved,
       AddKept, RemoveMount, RemoveSaved, RemoveNotSaved, RemoveKept, Unmount, Goto, Runs
  <2> QED BY <2>1, <2>2, <2>3, <2>4
<1>s. spoiled \subseteq spoiled' /\ UNCHANGED queue
  BY DEF Work, LockMounting, MountExisting, MountFails, AddMount, AddSaved, AddNotSaved, AddKept,
     RemoveMount, RemoveSaved, RemoveNotSaved, RemoveKept, Unmount, Spoil, boot
<1>f. \A q \in Paths : q # p => fs'[q] = fs[q]
  BY <1>t, <1>b DEF Work, LockMounting, MountExisting, MountFails, AddMount, AddSaved, AddNotSaved, AddKept,
     RemoveMount, RemoveSaved, RemoveNotSaved, RemoveKept, Unmount, disk, MountOn, UnmountPath
\* Nobody else works at a clean path or on its machine.
<1>a. ASSUME NEW u \in Threads, u # t, Busy(u), Clean(x) \/ Clean(run[u].mount)
      PROVE  run[u].mount.path # p /\ run[u].mount.machine # x.machine
  BY <1>0, <1>a, <1>b, Alone DEF Met
<1>q. ASSUME Clean(x)
      PROVE  /\ PathOK(p) /\ TaskOn(t, p) /\ Single(db, p) /\ Len(fs[p]) <= 1
             /\ \A u \in Threads : u # t /\ Busy(u) => run[u].mount.path # p
  <2>1. PathOK(p)
    BY <1>b, <1>q DEF Served, Clean
  <2> QED BY <1>a, <1>q, <2>1 DEF PathOK, FsOn
\* The other paths.
<1>1. ASSUME NEW q \in Paths \ spoiled', q # p PROVE PathOK(q)'
  <2>1. PathOK(q) /\ Single(db, q) /\ fs'[q] = fs[q]
    BY <1>1, <1>f, <1>s DEF Served, PathOK
  <2>2. ~(Busy(t) /\ run[t].mount.path = q) /\ ~(Busy(t) /\ run[t].mount.path = q)'
    BY <1>1, <1>m
  <2>3. ASSUME On(db', q) = On(db, q), Single(db', q),
               \A u \in Tasks : /\ u # t /\ Busy(u) /\ run[u].mount.path = q /\ Named(db, run[u].mount)
                                => Named(db', run[u].mount)
        PROVE  PathOK(q)'
    BY <1>o, <1>s, <2>1, <2>2, <2>3, TaskElsewhere
  <2>4. CASE AddSaved(t)
    <3>1. db' = Append(db, x)
      BY <1>0, <2>4 DEF AddSaved, SyncInv, Sync, EditStage
    <3>2. On(db', q) = On(db, q) /\ Single(db', q)
      <4>1. x.path # q /\ x \in Mounts
        BY <1>1, <1>b
      <4> HIDE DEF x, p
      <4>2. On(Append(db, x), q) = On(db, q) /\ Single(Append(db, x), q)
        BY <1>t, <2>1, <4>1, ListedAppended
      <4> QED BY <3>1, <4>2
    <3>3. ASSUME NEW u \in Tasks, Busy(u), Named(db, run[u].mount) PROVE Named(db', run[u].mount)
      <4>1. run[u].mount \in Mounts
        BY <3>3 DEF TypeInv, WellRun, Threads
      <4> QED BY <1>b, <1>t, <3>1, <3>3, <4>1, NamedAppended
    <3> QED BY <2>3, <3>2, <3>3
  <2>5. CASE RemoveSaved(t)
    <3>1. PICK i \in 1 .. Len(db) :
            First(db, i, x.machine) /\ run[t].list = RemoveAt(db, i) /\ (db[i] = x \/ ~Clean(db[i]))
      BY <1>0, <2>5 DEF RemoveSaved, Shown, Shows
    <3>2. db' = RemoveAt(db, i) /\ db[i].path # q
      BY <1>1, <1>s, <2>5, <3>1 DEF RemoveSaved, Clean
    <3>3. On(db', q) = On(db, q) /\ Single(db', q)
      BY <1>t, <2>1, <3>2, ListedRemoved
    <3>4. ASSUME NEW u \in Tasks, u # t, Busy(u), run[u].mount.path = q, Named(db, run[u].mount)
          PROVE  Named(db', run[u].mount)
      <4>1. run[u].mount \in Mounts /\ u \in Threads
        BY <3>4 DEF TypeInv, WellRun, Threads
      <4>2. db[i].machine # run[u].mount.machine
        BY <1>1, <1>a, <1>s, <3>1, <3>4, <4>1 DEF Clean, First
      <4> QED BY <1>t, <3>2, <3>4, <4>1, <4>2, NamedRemoved
    <3> QED BY <2>3, <3>3, <3>4
  <2>6. CASE ~AddSaved(t) /\ ~RemoveSaved(t)
    <3>1. UNCHANGED db
      BY <2>6 DEF Work, LockMounting, MountExisting, MountFails, AddMount, AddNotSaved, AddKept,
         RemoveMount, RemoveNotSaved, RemoveKept, Unmount, disk
    <3> QED BY <2>1, <2>3, <3>1, SamePath
  <2> QED BY <2>4, <2>5, <2>6
\* The path the request works at.
<1>2. ASSUME NEW q \in Paths \ spoiled', q = p PROVE PathOK(q)'
  <2>c. /\ Clean(x) /\ PathOK(q) /\ TaskOn(t, q) /\ Single(db, q) /\ Len(fs[q]) <= 1
        /\ \A u \in Threads : u # t /\ Busy(u) => run[u].mount.path # q
    <3>1. Clean(x)
      BY <1>2, <1>s DEF Clean
    <3> QED BY <1>2, <1>q, <3>1
  <2>e. ~Doing(Boot, "load")
    BY <1>b, <2>c DEF Met, Early, Clean
  <2>w. /\ Live(q) => \E y \in Mounts :
             /\ y.path = q /\ fs[q] = <<Entry(y)>>
             /\ y \in On(db, q) \/ (x = y /\ At(t, {"append", "save", "keepless", "unmount"}))
        /\ \A y \in On(db, q) : fs[q] = <<Entry(y)>> \/ Pending(y) \/ (At(t, {"saveless"}) /\ x = y)
        /\ At(t, {"fuse"}) /\ ~Dead(q) => fs[q] = <<>>
    BY <1>2, <2>c, OwnFs
  <2>p. \A y : Pending(y)' <=> Pending(y)
    BY <1>0, <1>o, <1>s DEF Pending, At, Busy
  <2>q. ASSUME (Single(db, q) /\ FsOn(q) /\ ListOn(q) /\ TaskOn(t, q))' PROVE PathOK(q)'
    BY <1>0, <1>o, <2>c, <2>q, OwnPath
  <2>z. (Busy(t) => run[t].mount.path = q)'
    BY <1>2, <1>m
  <2> HIDE DEF p
  \* The list, what is mounted and who mounted it are as before.
  <2>r. ASSUME UNCHANGED <<db, fs>>,
               At(t, {"append", "save", "keepless", "unmount"}) =>
                 \/ run'[t].at \in {"append", "save", "keepless", "unmount"} /\ run'[t].mount = x
                 \/ Doing(t, "save") /\ x \in On(db, q),
               At(t, {"saveless"}) => run'[t].at = "saveless" /\ run'[t].mount = x
        PROVE  (Single(db, q) /\ FsOn(q) /\ ListOn(q))'
    <3>1. FsOn(q)'
      <4>1. Live(q)' <=> Live(q)
        BY <2>r DEF Live
      <4>2. ASSUME NEW y \in Mounts, x = y, At(t, {"append", "save", "keepless", "unmount"})
            PROVE  y \in On(db, q) \/ (run'[t].mount = y /\ run'[t].at \in {"append", "save", "keepless", "unmount"})
        BY <2>r, <4>2
      <4> QED BY <2>c, <2>r, <2>w, <4>1, <4>2, SamePath DEF FsOn, At
    <3>2. ListOn(q)'
      BY <2>p, <2>r, <2>w, SamePath DEF ListOn, Leaving, At
    <3> QED BY <2>c, <2>r, <3>1, <3>2, SamePath
  <2>1. CASE LockMounting(t)
    <3>1. UNCHANGED <<db, fs>> /\ Doing(t, "lock")
      BY <2>1 DEF LockMounting, disk
    <3>2. ~At(t, {"append", "save", "keepless", "unmount"}) /\ ~At(t, {"saveless"})
      BY <3>1 DEF At, Doing
    <3>3. TaskOn(t, q)'
      <4>1. CASE IsDuplicate(mounts, x)
        <5>1. run'[t] = Idle
          BY <1>0, <1>t, <2>1, <4>1 DEF LockMounting, End
        <5> QED BY <5>1 DEF TaskOn, Busy, Idle
      <4>2. CASE ~IsDuplicate(mounts, x)
        <5>1. run'[t].at = "fuse"
          BY <1>0, <1>t, <2>1, <4>2 DEF LockMounting, Goto, Runs
        <5>2. ASSUME NEW y \in On(db, q) PROVE FALSE
          <6>1. y \in Listed(db) /\ y.path = q
            BY <5>2 DEF On
          <6>2. y \notin Listed(mounts)
            BY <1>2, <4>2, <6>1 DEF IsDuplicate, Listed, p
          <6>3. PICK u \in Tasks : At(u, {"keep", "saveless"}) /\ run[u].mount = y
            BY <1>2, <1>s, <2>e, <6>1, <6>2, Views DEF Clean
          <6>4. u \in Threads /\ Busy(u) /\ u # t
            BY <3>1, <6>3 DEF At, Busy, Doing, Threads
          <6> QED BY <2>c, <6>1, <6>3, <6>4
        <5>3. On(db, q)' = {}
          BY <3>1, <5>2, SamePath
        <5> QED BY <5>1, <5>3 DEF TaskOn, At
      <4> QED BY <4>1, <4>2
    <3> QED BY <2>q, <2>r, <3>1, <3>2, <3>3
  <2>2. CASE MountExisting(t)
    <3>1. /\ Doing(t, "fuse") /\ ~Dead(q) /\ UNCHANGED db /\ fs' = [fs EXCEPT ![q] = Append(@, Entry(x))]
          /\ run'[t].at = "append" /\ run'[t].mount = x
      BY <1>0, <1>2, <1>t, <2>2 DEF MountExisting, MountOn, Goto, Runs, p
    <3>2. At(t, {"fuse"}) /\ fs[q] = <<>> /\ On(db, q) = {}
      BY <1>2, <1>b, <2>c, <2>w, <3>1 DEF At, Doing, TaskOn, p
    <3>3. fs'[q] = <<Entry(x)>>
      BY <1>t, <3>1, <3>2
    <3>4. On(db, q)' = {} /\ Single(db, q)'
      BY <2>c, <3>1, <3>2, SamePath
    <3>5. TaskOn(t, q)'
      BY <3>1, <3>3, <3>4 DEF TaskOn, At
    <3>6. FsOn(q)'
      <4>1. Len(fs'[q]) = 1
        BY <3>3
      <4>2. x \in Mounts /\ x.path = q /\ fs'[q] = <<Entry(x)>> /\ run'[t].mount = x /\ run'[t].at = "append"
        BY <1>2, <1>b, <3>1, <3>3 DEF p
      <4> HIDE DEF x
      <4> QED BY <4>1, <4>2 DEF FsOn, At
    <3>7. ListOn(q)'
      BY <3>4 DEF ListOn
    <3> QED BY <2>q, <3>4, <3>5, <3>6, <3>7
  \* The request ends, or goes on where nothing of the list is claimed.
  <2>3. CASE MountFails(t)
    <3>1. Doing(t, "fuse") /\ UNCHANGED <<db, fs>> /\ run'[t] = Idle
      BY <1>0, <1>t, <2>3 DEF MountFails, disk, End
    <3>2. ~At(t, {"append", "save", "keepless", "unmount"}) /\ ~At(t, {"saveless"})
      BY <3>1 DEF At, Doing
    <3>3. TaskOn(t, q)'
      BY <3>1 DEF TaskOn, Busy, Idle
    <3> QED BY <2>q, <2>r, <3>1, <3>2, <3>3
  <2>4. CASE AddMount(t)
    <3>1. /\ Doing(t, "append") /\ UNCHANGED <<db, fs>>
          /\ run'[t].at = "save" /\ run'[t].mount = x
      BY <1>0, <1>t, <2>4 DEF AddMount, disk, Runs
    <3>2. On(db, q) = {} /\ fs[q] = <<Entry(x)>>
      BY <1>2, <1>b, <2>c, <3>1 DEF TaskOn, At, Doing, p
    <3>3. TaskOn(t, q)'
      BY <3>1, <3>2, SamePath DEF TaskOn, At
    <3>4. ~At(t, {"saveless"})
      BY <3>1 DEF At, Doing
    <3> QED BY <2>q, <2>r, <3>1, <3>3, <3>4
  <2>5. CASE AddSaved(t)
    <3>1. /\ Doing(t, "save") /\ UNCHANGED fs /\ db' = Append(db, x)
          /\ run'[t].at = "keep" /\ run'[t].mount = x
      BY <1>0, <1>t, <2>5 DEF AddSaved, Goto, Runs, SyncInv, Sync, EditStage
    <3>2. On(db, q) = {} /\ fs[q] = <<Entry(x)>> /\ x.path = q
      BY <1>2, <1>b, <2>c, <3>1 DEF TaskOn, At, Doing, p
    <3>3. On(db', q) = {x} /\ Single(db', q)
      <4>1. On(Append(db, x), q) = {x} /\ Single(Append(db, x), q)
        <5>1. x \in Mounts /\ x.path = q /\ On(db, q) = {} /\ Single(db, q) /\ db \in Seq(Mounts)
          BY <1>b, <1>t, <2>c, <3>2
        <5> HIDE DEF x
        <5> QED BY <5>1, ListedAppended
      <4> QED BY <3>1, <4>1
    <3>4. On(db, q)' = {x} /\ Single(db, q)'
      BY <3>3 DEF On, Listed, Single
    <3>5. TaskOn(t, q)'
      BY <3>1, <3>2 DEF TaskOn, At
    <3>6. FsOn(q)'
      <4> HIDE DEF x
      <4> QED BY <1>b, <2>c, <3>1, <3>2, <3>4 DEF FsOn
    <3>7. ListOn(q)'
      <4>1. fs'[q] = <<Entry(x)>>
        BY <3>1, <3>2
      <4> HIDE DEF x
      <4> QED BY <3>4, <4>1 DEF ListOn
    <3> QED BY <2>q, <3>4, <3>5, <3>6, <3>7
  <2>6. CASE AddNotSaved(t)
    BY <1>2, <2>6 DEF AddNotSaved, Spoil, p
  <2>7. CASE AddKept(t)
    <3>1. Doing(t, "keep") /\ UNCHANGED <<db, fs>> /\ run'[t] = Idle
      BY <1>0, <1>t, <2>7 DEF AddKept, disk, End
    <3>2. ~At(t, {"append", "save", "keepless", "unmount"}) /\ ~At(t, {"saveless"})
      BY <3>1 DEF At, Doing
    <3>3. TaskOn(t, q)'
      BY <3>1 DEF TaskOn, Busy, Idle
    <3> QED BY <2>q, <2>r, <3>1, <3>2, <3>3
  <2>8. CASE RemoveMount(t)
    <3>1. Doing(t, "remove") /\ UNCHANGED <<db, fs>>
      BY <2>8 DEF RemoveMount, disk
    <3>2. ~At(t, {"append", "save", "keepless", "unmount"}) /\ ~At(t, {"saveless"})
      BY <3>1 DEF At, Doing
    <3>3. Named(db, x) /\ x.path = q
      BY <1>2, <1>b, <2>c, <3>1 DEF TaskOn, At, Doing, p
    <3>4. CASE HasName(mounts, x.machine)
      <4>1. run'[t].at = "saveless" /\ run'[t].mount = x
        BY <1>0, <1>t, <2>8, <3>4 DEF RemoveMount, Runs
      <4>2. Named(db, run[t].mount)'
        BY <3>1, <3>3, <4>1 DEF Named, First
      <4>3. TaskOn(t, q)'
        BY <4>1, <4>2 DEF TaskOn, At
      <4> QED BY <2>q, <2>r, <3>1, <3>2, <4>3
    <3>5. CASE ~HasName(mounts, x.machine)
      <4>1. x \in Listed(db) /\ x \notin Listed(mounts)
        BY <3>3, <3>5, NamedIsListed DEF HasName, Listed
      <4>2. PICK u \in Tasks : At(u, {"keep", "saveless"}) /\ run[u].mount = x
        <5> HIDE DEF x
        <5> QED BY <2>c, <2>e, <4>1, Views
      <4>3. u \in Threads /\ Busy(u) /\ u # t
        BY <3>1, <4>2 DEF At, Busy, Doing, Threads
      <4> QED BY <2>c, <3>3, <4>2, <4>3
    <3> QED BY <3>4, <3>5
  <2>9. CASE RemoveSaved(t)
    <3>1. /\ Doing(t, "saveless") /\ UNCHANGED fs /\ db' = run[t].list
          /\ run'[t].at = "keepless" /\ run'[t].mount = x
      BY <1>0, <1>t, <2>9 DEF RemoveSaved, Goto, Runs
    <3>2. Named(db, x) /\ x.path = q
      BY <1>2, <1>b, <2>c, <3>1 DEF TaskOn, At, Doing, p
    <3>3. PICK i \in 1 .. Len(db) : First(db, i, x.machine) /\ run[t].list = RemoveAt(db, i)
      BY <1>0, <3>1 DEF Shown, Shows
    <3>4. PICK j \in 1 .. Len(db) : First(db, j, x.machine) /\ db[j] = x
      BY <3>2 DEF Named
    <3>5. i = j
      <4> HIDE DEF x
      <4> QED BY <1>t, <3>3, <3>4, FirstIsOne
    <3>6. db[i].path = q /\ db[i] = x
      BY <3>2, <3>4, <3>5
    <3>7. On(db', q) = {} /\ Single(db', q)
      <4> HIDE DEF x
      <4>1. On(RemoveAt(db, i), q) = {} /\ Single(RemoveAt(db, i), q)
        BY <1>t, <2>c, <3>3, <3>6, ListedRemoved
      <4> QED BY <3>1, <3>3, <4>1
    <3>8. On(db, q)' = {} /\ Single(db, q)'
      BY <3>7 DEF On, Listed, Single
    <3>9. TaskOn(t, q)'
      BY <3>1, <3>8 DEF TaskOn, At
    <3>10. FsOn(q)'
      <4>1. ASSUME NEW y \in On(db, q) PROVE y = x
        <5>1. PICK k \in 1 .. Len(db) : db[k] = y /\ y.path = q
          BY <4>1 DEF On, Listed
        <5>2. k = i
          BY <2>c, <3>6, <5>1 DEF Single
        <5> QED BY <3>6, <5>1, <5>2
      <4>2. ~At(t, {"append", "save", "keepless", "unmount"})
        BY <3>1 DEF At, Doing
      <4>3. Live(q) => x.path = q /\ fs[q] = <<Entry(x)>>
        <5> HIDE DEF x
        <5> QED BY <2>w, <4>1, <4>2
      <4>4. Live(q)' <=> Live(q)
        BY <3>1 DEF Live
      <4> HIDE DEF x
      <4> QED BY <1>b, <2>c, <3>1, <4>3, <4>4 DEF FsOn, At
    <3>11. ListOn(q)'
      BY <3>8 DEF ListOn
    <3> QED BY <2>q, <3>8, <3>9, <3>10, <3>11
  <2>10. CASE RemoveNotSaved(t)
    BY <2>10 DEF RemoveNotSaved
  <2>11. CASE RemoveKept(t)
    <3>1. /\ Doing(t, "keepless") /\ UNCHANGED <<db, fs>>
          /\ run'[t].at = "unmount" /\ run'[t].mount = x
      BY <1>0, <1>t, <2>11 DEF RemoveKept, disk, Goto, Runs
    <3>2. On(db, q) = {}
      BY <1>2, <1>b, <2>c, <3>1 DEF TaskOn, At, Doing, p
    <3>3. TaskOn(t, q)'
      BY <3>1, <3>2, SamePath DEF TaskOn, At
    <3>4. ~At(t, {"saveless"})
      BY <3>1 DEF At, Doing
    <3> QED BY <2>q, <2>r, <3>1, <3>3, <3>4
  <2>12. CASE Unmount(t)
    <3>1. UnmountPath(q) /\ Doing(t, "unmount") /\ UNCHANGED db /\ Unmounted(t)
      BY <1>2, <2>12 DEF Unmount, Spoil, p
    <3>2. On(db, q) = {}
      BY <1>2, <1>b, <2>c, <3>1 DEF TaskOn, At, Doing, p
    <3>3. fs'[q] = <<>>
      <4>1. fs[q] \in Seq(Entries) /\ fs'[q] = IF fs[q] = <<>> THEN fs[q] ELSE Front(fs[q])
        BY <1>2, <1>t, <3>1 DEF UnmountPath
      <4>2. fs[q] # <<>> => Front(fs[q]) = <<>>
        BY <2>c, <4>1, FrontOfOne
      <4> QED BY <4>1, <4>2
    <3>4. On(db, q)' = {} /\ Single(db, q)'
      BY <2>c, <3>1, <3>2, SamePath
    <3>5. TaskOn(t, q)'
      <4>1. CASE End(t)
        <5>1. run'[t] = Idle
          BY <1>0, <1>t, <4>1 DEF End
        <5> QED BY <5>1 DEF TaskOn, Busy, Idle
      <4>2. CASE run' = [run EXCEPT ![t].at = "fuse", ![t].list = <<>>, ![t].mount.id = run[t].next]
        <5>1. run'[t].at = "fuse"
          BY <1>0, <1>t, <4>2 DEF Runs
        <5> QED BY <3>4, <5>1 DEF TaskOn, At
      <4> QED BY <3>1, <4>1, <4>2 DEF Unmounted
    <3>6. FsOn(q)' /\ ListOn(q)'
      <4>1. Len(fs'[q]) = 0 /\ ~(Live(q)')
        BY <3>3 DEF Live
      <4> QED BY <3>4, <4>1 DEF FsOn, ListOn
    <3> QED BY <2>q, <3>4, <3>5, <3>6
  <2> QED BY <2>1, <2>2, <2>3, <2>4, <2>5, <2>6, <2>7, <2>8, <2>9, <2>10, <2>11, <2>12 DEF Work
<1> QED BY <1>1, <1>2 DEF Served

LEMMA MetWork ==
  ASSUME TypeInv, Met, NEW t \in Tasks, Work(t) PROVE Met'
<1>0. t \in Threads /\ Boot \in Threads /\ t # Boot
  BY MountsAssumption DEF Threads
<1>t. run \in [Threads -> Runs] /\ run[t] \in Runs
  BY <1>0 DEF TypeInv, WellRun
<1>b. Busy(t) /\ run[t].mount \in Mounts
  <2>1. Busy(t)
    BY DEF Work, LockMounting, MountExisting, MountFails, AddMount, AddSaved, AddNotSaved, AddKept,
       RemoveMount, RemoveSaved, RemoveNotSaved, RemoveKept, Unmount, Doing, Busy
  <2> QED BY <1>0, <2>1 DEF TypeInv, WellRun
<1>o. \A u \in Threads : u # t => run'[u] = run[u]
  BY <1>t DEF Work, LockMounting, MountExisting, MountFails, AddMount, AddSaved, AddNotSaved, AddKept,
     RemoveMount, RemoveSaved, RemoveNotSaved, RemoveKept, Unmount, Unmounted, End, Goto
<1>s. spoiled \subseteq spoiled'
  BY DEF Work, LockMounting, MountExisting, MountFails, AddMount, AddSaved, AddNotSaved, AddKept,
     RemoveMount, RemoveSaved, RemoveNotSaved, RemoveKept, Unmount, Spoil
<1>m. Busy(t)' => /\ run'[t].mount.path = run[t].mount.path
                  /\ run'[t].mount.machine = run[t].mount.machine
  <2>1. CASE Unmounted(t)
    BY <1>0, <1>t, <1>b, <2>1 DEF Unmounted, End, Idle, Busy, Runs, Mounts
  <2>2. CASE run'[t].mount = run[t].mount
    BY <2>2
  <2>3. CASE End(t)
    BY <1>0, <1>t, <2>3 DEF End, Idle, Busy
  <2>4. run'[t].mount = run[t].mount \/ End(t) \/ Unmounted(t)
    BY <1>0, <1>t DEF Work, LockMounting, MountExisting, MountFails, AddMount, AddSaved, AddNotSaved,
       AddKept, RemoveMount, RemoveSaved, RemoveNotSaved, RemoveKept, Unmount, Goto, Runs
  <2> QED BY <2>1, <2>2, <2>3, <2>4
<1>1. \A u \in Threads : Busy(u)' => /\ Busy(u)
                                     /\ run'[u].mount.path = run[u].mount.path
                                     /\ run'[u].mount.machine = run[u].mount.machine
  BY <1>b, <1>m, <1>o DEF Busy
<1>2. Doing(Boot, "load")' => Doing(Boot, "load")
  BY <1>0, <1>o DEF Doing
<1> QED BY <1>1, <1>2, <1>s, MountsAssumption, MetKept

\* A step of Initialize that mounts and unmounts nothing on the path.
LEMMA BootElsewhere ==
  ASSUME NEW p \in Paths, PathOK(p), \A u \in Tasks : run'[u] = run[u], UNCHANGED db,
         fs'[p] = fs[p], BootOn(p)',
         \A x \in On(db, p) : Pending(x) => Pending(x)' \/ fs[p] = <<Entry(x)>> \/ Leaving(x)
  PROVE  PathOK(p)'
<1>1. \A u \in Tasks : TaskOn(u, p)' <=> TaskOn(u, p)
  <2> SUFFICES ASSUME NEW u \in Tasks PROVE TaskOn(u, p)' <=> TaskOn(u, p)
    OBVIOUS
  <2>1. run'[u] = run[u] /\ (Named(db, run[u].mount)' <=> Named(db, run[u].mount))
    BY DEF Named, First
  <2> QED BY <2>1, SamePath DEF TaskOn, Busy, At
<1>2. FsOn(p)'
  <2>1. Live(p)' <=> Live(p)
    BY DEF Live
  <2> QED BY <2>1, SamePath DEF PathOK, FsOn, At
<1>3. ListOn(p)'
  <2>1. \A x : Leaving(x) => Leaving(x)'
    BY DEF Leaving, At
  <2> QED BY <2>1, SamePath DEF PathOK, ListOn
<1> QED BY <1>1, <1>2, <1>3, SamePath DEF PathOK

\* Nothing happens to the mounts when Initialize looks for what is to be restored:
\* what it leaves out works, or is being removed.
LEMMA Seen ==
  ASSUME TypeInv, SyncInv, Shown, ~mangled, ~Doing(Boot, "load"), NEW p \in Paths \ spoiled,
         PathOK(p), NEW x \in On(db, p), x \notin Listed(mounts)
  PROVE  fs[p] = <<Entry(x)>> \/ Leaving(x)
<1>1. x \in Listed(db) /\ x.path = p /\ Clean(x)
  BY DEF On, Clean
<1>2. PICK u \in Tasks : At(u, {"keep", "saveless"}) /\ run[u].mount = x
  BY <1>1, Views
<1>3. CASE At(u, {"saveless"})
  BY <1>2, <1>3 DEF Leaving
<1>4. CASE At(u, {"keep"})
  <2>1. Busy(u) /\ TaskOn(u, p) /\ At(u, {"append", "save", "keep"})
    BY <1>4 DEF PathOK, At, Busy
  <2> QED BY <1>1, <1>2, <2>1 DEF TaskOn
<1> QED BY <1>2, <1>3, <1>4 DEF At

LEMMA MetInitialize ==
  ASSUME TypeInv, Met, Initialize PROVE Met'
<1>0. Boot \in Threads /\ Boot \notin Tasks
  BY MountsAssumption DEF Threads
<1>t. run \in [Threads -> Runs] /\ run[Boot] \in Runs /\ queue \in Seq(Mounts)
  BY <1>0 DEF TypeInv, WellRun, ListsOK
<1>o. \A u \in Tasks : u \in Threads /\ run'[u] = run[u]
  BY <1>0, <1>t DEF Initialize, LoadMounts, LoadMissed, InitializeFails, RestoreMounts,
     RestoreNext, RestoreEnds, RestoreRefused, RestoreDialed, RestoreLock, RestoreClear, Restored,
     NotRestored, Requeue, Goto, Threads
\* A step that begins nothing.
<1>k. ASSUME spoiled \subseteq spoiled', ~(Doing(Boot, "load")'),
             Busy(Boot)' => Busy(Boot) /\ run'[Boot].mount = run[Boot].mount
      PROVE  Met'
  <2>1. \A u \in Threads : Busy(u)' => Busy(u) /\ run'[u].mount = run[u].mount
    BY <1>k, <1>o DEF Busy, Threads
  <2> QED BY <1>0, <1>k, <2>1, MetKept
<1>1. CASE RestoreNext /\ Contains(mounts, Head(queue))
  <2> DEFINE y == Head(queue)
             r == [run[Boot] EXCEPT !.at = "dial", !.mount = y]
  <2>1. y \in Mounts
    BY <1>1, <1>t, HeadTailProperties DEF RestoreNext
  <2>2. run' = [run EXCEPT ![Boot] = r] /\ Begin(Boot, y) /\ ~Busy(Boot)
    BY <1>0, <1>t, <1>1 DEF RestoreNext, Doing, Busy
  <2> HIDE DEF y
  <2>3. r \in Runs /\ r.at = "dial" /\ r.mount = y
    BY <1>t, <2>1 DEF Runs, Places
  <2> HIDE DEF r
  <2> QED BY <1>0, <2>1, <2>2, <2>3, MetBegins
<1>2. CASE RestoreNext /\ ~Contains(mounts, Head(queue))
  BY <1>k, <1>2 DEF RestoreNext, Doing, Busy
<1>3. CASE \/ LoadMounts \/ LoadMissed \/ InitializeFails \/ RestoreMounts \/ RestoreEnds
         \/ RestoreRefused \/ NotRestored \/ Restored
  <2>1. spoiled' = spoiled /\ run'[Boot].at \in {"queue", "next", "done"}
    BY <1>0, <1>t, <1>3 DEF LoadMounts, LoadMissed, InitializeFails, RestoreMounts, RestoreEnds,
       RestoreRefused, NotRestored, Requeue, Restored, Goto, Runs
  <2> QED BY <1>k, <2>1 DEF Doing, Busy
<1>4. CASE RestoreDialed \/ RestoreLock \/ RestoreClear
  <2>1. /\ spoiled \subseteq spoiled' /\ Busy(Boot) /\ run'[Boot].at \in {"lock", "fuse", "clear"}
        /\ run'[Boot].mount = run[Boot].mount
    BY <1>0, <1>t, <1>4 DEF RestoreDialed, RestoreLock, RestoreClear, Spoil, Goto, Doing, Busy, Runs
  <2> QED BY <1>k, <2>1 DEF Doing
<1> QED BY <1>1, <1>2, <1>3, <1>4 DEF Initialize

LEMMA ServedInitialize ==
  ASSUME TypeInv, SyncInv, Met, ~mangled, Shown, Served, Initialize, ~mangled'
  PROVE  Shown' /\ Served'
<1>0. Boot \in Threads /\ Boot \notin Tasks
  BY MountsAssumption DEF Threads
<1> DEFINE x == run[Boot].mount
<1>t. /\ run \in [Threads -> Runs] /\ run[Boot] \in Runs /\ mounts \in Seq(Mounts) /\ db \in Seq(Mounts)
      /\ queue \in Seq(Mounts) /\ fs \in [Paths -> Seq(Entries)]
      /\ Busy(Boot) => x \in Mounts /\ x.path \in Paths
  BY <1>0 DEF TypeInv, WellRun, ListsOK, FsOK, Mounts
<1>o. \A u \in Tasks : u \in Threads /\ run'[u] = run[u]
  BY <1>0, <1>t DEF Initialize, LoadMounts, LoadMissed, InitializeFails, RestoreMounts,
     RestoreNext, RestoreEnds, RestoreRefused, RestoreDialed, RestoreLock, RestoreClear, Restored,
     NotRestored, Requeue, Goto, Threads
<1>d. UNCHANGED db
  BY DEF Initialize, LoadMounts, LoadMissed, InitializeFails, RestoreMounts, RestoreNext,
     RestoreEnds, RestoreRefused, RestoreDialed, RestoreLock, RestoreClear, Restored, NotRestored,
     Requeue, disk
<1>e. ~(Editing(Boot)') /\ ~Editing(Boot)
  BY <1>0, <1>t DEF SyncInv, Initialize, LoadMounts, LoadMissed, InitializeFails, RestoreMounts,
     RestoreNext, RestoreEnds, RestoreRefused, RestoreDialed, RestoreLock, RestoreClear, Restored,
     NotRestored, Requeue, Goto, Editing, Runs
<1>s. ASSUME UNCHANGED mounts, spoiled \subseteq spoiled' PROVE Shown'
  <2>1. \A u \in Threads : Editing(u)' => run'[u] = run[u]
    BY <1>e, <1>o DEF Threads
  <2> QED BY <1>d, <1>s, <2>1, ShownElsewhere
\* The step neither mounts nor unmounts, and goes on with the same mount.
<1>n. ASSUME UNCHANGED fs, spoiled \subseteq spoiled',
             Busy(Boot)' => /\ Busy(Boot) /\ run'[Boot].mount = x
                            /\ run'[Boot].at = "fuse" => fs[x.path] = <<>>,
             \A p \in Paths \ spoiled' : \A y \in On(db, p) :
                Pending(y) => Pending(y)' \/ fs[p] = <<Entry(y)>> \/ Leaving(y)
      PROVE  Served'
  <2> SUFFICES ASSUME NEW p \in Paths \ spoiled' PROVE PathOK(p)'
    BY DEF Served
  <2>1. PathOK(p)
    BY <1>n DEF Served
  <2>2. BootOn(p)'
    <3> SUFFICES ASSUME (Busy(Boot) /\ run[Boot].mount.path = p)' PROVE BootOn(p)'
      BY DEF BootOn
    <3>1. Busy(Boot) /\ run'[Boot].mount = x /\ x.path = p /\ (run'[Boot].at = "fuse" => fs[x.path] = <<>>)
      BY <1>n
    <3>2. x \in On(db, p)
      BY <2>1, <3>1 DEF PathOK, BootOn
    <3>3. run[Boot].mount' \in On(db, p)'
      BY <1>d, <3>1, <3>2, SamePath
    <3> QED BY <1>n, <3>1, <3>3 DEF BootOn, At
  <2> QED BY <1>d, <1>n, <1>o, <2>1, <2>2, BootElsewhere
<1>1. CASE LoadMounts
  <2>1. /\ UNCHANGED <<fs, queue, spoiled>> /\ run'[Boot].at = "queue" /\ \A u \in Tasks : ~Editing(u)
    BY <1>0, <1>t, <1>1 DEF LoadMounts, Goto, disk, boot, Runs
  <2>2. ~(Doing(Boot, "load")') /\ ~(Busy(Boot)')
    BY <2>1 DEF Doing, Busy
  <2>3. Shown'
    <3>1. \A u \in Threads : ~(Editing(u)')
      BY <1>e, <1>o, <2>1 DEF Editing, Threads
    <3> QED BY <3>1, ShownIdle
  <2>4. \A y : Pending(y)'
    BY <2>1 DEF Pending, At
  <2> QED BY <1>n, <2>1, <2>2, <2>3, <2>4
<1>2. CASE RestoreMounts
  <2>1. /\ UNCHANGED <<fs, mounts, spoiled>> /\ run'[Boot].at = "next" /\ queue' = mounts
        /\ ~Doing(Boot, "load")
    BY <1>0, <1>t, <1>2 DEF RestoreMounts, Goto, disk, Doing, Runs
  <2>2. ~(Doing(Boot, "load")') /\ ~(Busy(Boot)')
    BY <2>1 DEF Doing, Busy
  <2>3. \A y \in Listed(mounts) : Pending(y)'
    BY <2>1 DEF Pending, Contains, Listed
  <2>4. ASSUME NEW p \in Paths \ spoiled, NEW y \in On(db, p)
        PROVE  Pending(y)' \/ fs[p] = <<Entry(y)>> \/ Leaving(y)
    BY <2>1, <2>3, Seen DEF Served
  <2> QED BY <1>n, <1>s, <2>1, <2>2, <2>4
<1>3. CASE RestoreEnds
  <2>1. UNCHANGED <<fs, mounts, queue, spoiled>> /\ Doing(Boot, "next") /\ run'[Boot].at = "done"
    BY <1>0, <1>t, <1>3 DEF RestoreEnds, Goto, disk, boot, Runs
  <2>2. ~(Doing(Boot, "load")') /\ ~(Busy(Boot)')
    BY <2>1 DEF Doing, Busy
  <2>3. \A y : Pending(y) => Pending(y)'
    BY <2>1 DEF Pending, At, Doing, Busy
  <2> QED BY <1>n, <1>s, <2>1, <2>2, <2>3
<1>4. CASE RestoreRefused \/ NotRestored
  <2>1. /\ UNCHANGED <<fs, mounts, spoiled>> /\ Busy(Boot) /\ run[Boot].at \in {"dial", "fuse"}
        /\ run'[Boot].at = "next" /\ queue' = Append(queue, x)
    BY <1>0, <1>t, <1>4 DEF RestoreRefused, NotRestored, Requeue, disk, Doing, Busy, Runs
  <2>2. ~(Doing(Boot, "load")') /\ ~(Busy(Boot)')
    BY <2>1 DEF Doing, Busy
  <2>3. \A y : Contains(queue, y) \/ y = x => Contains(queue', y)
    <3>1. /\ Len(queue) \in Nat /\ Len(queue') = Len(queue) + 1 /\ queue'[Len(queue) + 1] = x
          /\ \A k \in 1 .. Len(queue) : queue'[k] = queue[k]
      BY <1>t, <2>1, LenProperties, AppendProperties
    <3> QED BY <3>1 DEF Contains
  <2>4. \A y : Pending(y) => Pending(y)'
    BY <2>1, <2>3 DEF Pending, At
  <2> QED BY <1>n, <1>s, <2>1, <2>2, <2>4
<1>5. CASE RestoreDialed \/ RestoreLock
  <2>1. /\ UNCHANGED <<fs, mounts, queue, spoiled>> /\ Busy(Boot) /\ run[Boot].at \in {"dial", "lock"}
        /\ run'[Boot].at \in {"lock", "fuse", "clear"} /\ run'[Boot].mount = x
        /\ run'[Boot].at = "fuse" => fs[x.path] = <<>>
    BY <1>0, <1>t, <1>5 DEF RestoreDialed, RestoreLock, Goto, disk, boot, Doing, Busy, Runs
  <2>2. ~(Doing(Boot, "load")') /\ Busy(Boot)'
    BY <2>1 DEF Doing, Busy
  <2>3. \A y : Pending(y) => Pending(y)'
    BY <2>1, <2>2 DEF Pending, At
  <2> QED BY <1>n, <1>s, <2>1, <2>2, <2>3
<1>6. CASE RestoreNext
  <2> DEFINE y == Head(queue)
  <2>1. /\ UNCHANGED <<fs, mounts>> /\ Doing(Boot, "next") /\ queue # <<>> /\ queue' = Tail(queue)
        /\ y \in Mounts /\ ~Busy(Boot) /\ ~Doing(Boot, "load")
    <3>1. y \in Mounts
      BY <1>6, <1>t, HeadTailProperties DEF RestoreNext
    <3> HIDE DEF y
    <3> QED BY <1>6, <3>1 DEF RestoreNext, disk, Doing, Busy
  <2>2. \A z : Contains(queue, z) => z = y \/ Contains(queue', z)
    <3> SUFFICES ASSUME NEW z, Contains(queue, z), z # y PROVE Contains(queue', z)
      OBVIOUS
    <3>1. PICK k \in 1 .. Len(queue) : queue[k] = z
      BY DEF Contains
    <3>2. /\ Len(queue) \in Nat /\ Len(queue') = Len(queue) - 1 /\ y = queue[1]
          /\ \A j \in 1 .. Len(queue) - 1 : queue'[j] = queue[j + 1]
      BY <1>t, <2>1, LenProperties, HeadTailProperties
    <3>3. k # 1
      BY <3>1, <3>2
    <3>4. k - 1 \in 1 .. Len(queue') /\ queue'[k - 1] = z
      BY <3>1, <3>2, <3>3
    <3> QED BY <3>4 DEF Contains
  <2>3. \A z : Pending(z) => Contains(queue, z)
    BY <2>1 DEF Pending, At, Doing, Busy
  <2>4. CASE ~Contains(mounts, y)
    <3>1. UNCHANGED <<run, spoiled>>
      BY <1>6, <2>4 DEF RestoreNext
    <3>2. ~(Doing(Boot, "load")') /\ ~(Busy(Boot)')
      BY <2>1, <3>1 DEF Doing, Busy
    <3>3. ASSUME NEW p \in Paths \ spoiled, NEW z \in On(db, p), Pending(z)
          PROVE  Pending(z)' \/ fs[p] = <<Entry(z)>> \/ Leaving(z)
      <4>1. CASE z = y
        <5>1. z \notin Listed(mounts)
          BY <2>4, <4>1 DEF Contains, Listed
        <5> QED BY <2>1, <5>1, Seen DEF Served
      <4>2. CASE z # y
        BY <2>2, <2>3, <3>3, <4>2 DEF Pending
      <4> QED BY <4>1, <4>2
    <3> QED BY <1>n, <1>s, <2>1, <3>1, <3>2, <3>3
  <2>5. CASE Contains(mounts, y)
    <3> DEFINE r == [run[Boot] EXCEPT !.at = "dial", !.mount = y]
    <3>1. run' = [run EXCEPT ![Boot] = r] /\ Begin(Boot, y)
      BY <1>0, <1>t, <1>6, <2>5 DEF RestoreNext
    <3>2. r \in Runs /\ r.at = "dial" /\ r.mount = y
      <4> HIDE DEF y
      <4> QED BY <1>t, <2>1 DEF Runs, Places
    <3> HIDE DEF r
    <3>3. /\ spoiled \subseteq spoiled'
          /\ y.path \notin spoiled' => \A u \in Threads : u # Boot /\ Busy(u) =>
               run[u].mount.path # y.path /\ run[u].mount.machine # y.machine
      <4> HIDE DEF y
      <4> QED BY <1>0, <2>1, <3>1, <3>2, MetBegins
    <3>4. run'[Boot].at = "dial" /\ run'[Boot].mount = y /\ Busy(Boot)'
      BY <1>0, <1>t, <3>1, <3>2 DEF Busy
    <3>5. \A z : Pending(z) => Pending(z)'
      BY <2>2, <2>3, <3>4 DEF Pending
    <3>6. y \in Listed(mounts)
      BY <2>5 DEF Contains, Listed
    <3> HIDE DEF y
    <3>7. ASSUME NEW p \in Paths \ spoiled' PROVE PathOK(p)'
      <4>1. PathOK(p)
        BY <3>3 DEF Served
      <4>2. BootOn(p)'
        <5> SUFFICES ASSUME y.path = p PROVE BootOn(p)'
          BY <3>4 DEF BootOn
        <5>1. ~\E u \in Tasks : Editing(u) /\ run[u].mount.machine = y.machine
          <6>1. \A u \in Tasks : Editing(u) => u \in Threads /\ u # Boot /\ Busy(u)
            BY <1>0 DEF Editing, Busy, Threads
          <6> QED BY <3>3, <3>7, <6>1
        <5>2. y \in Listed(db)
          BY <2>1, <3>6, <5>1, Views
        <5>3. run[Boot].mount' \in On(db, p)'
          BY <1>d, <3>4, <5>2, SamePath DEF On
        <5> QED BY <3>4, <5>3 DEF BootOn, At
      <4> QED BY <1>d, <1>o, <2>1, <3>5, <4>1, <4>2, BootElsewhere
    <3> QED BY <1>s, <2>1, <3>3, <3>7 DEF Served
  <2> QED BY <2>4, <2>5
<1>7. CASE RestoreClear \/ Restored
  <2>1. /\ UNCHANGED <<mounts, queue>> /\ Busy(Boot) /\ spoiled \subseteq spoiled'
        /\ ~(Doing(Boot, "load")') /\ (Busy(Boot)' => run'[Boot].mount = x)
    BY <1>0, <1>t, <1>7 DEF RestoreClear, Restored, Spoil, Goto, boot, Doing, Busy, Runs
  <2>2. x \in Mounts /\ x.path \in Paths
    BY <1>t, <2>1
  <2>3. \A p \in Paths : p # x.path => fs'[p] = fs[p]
    BY <1>7, <1>t, <2>2 DEF RestoreClear, Restored, MountOn, UnmountPath
  <2>4. \A z : Pending(z) => Contains(queue, z) \/ z = x
    BY <2>1 DEF Pending, At, Busy
  <2>5. ASSUME NEW p \in Paths \ spoiled', p # x.path PROVE PathOK(p)'
    <3>1. PathOK(p)
      BY <2>1, <2>5 DEF Served
    <3>2. BootOn(p)'
      BY <2>1, <2>5 DEF BootOn
    <3>3. \A z \in On(db, p) : Pending(z) => Pending(z)'
      BY <2>1, <2>4, <2>5 DEF Pending, On
    <3> QED BY <1>d, <1>o, <2>3, <2>5, <3>1, <3>2, <3>3, BootElsewhere
  <2>6. ASSUME NEW p \in Paths \ spoiled', p = x.path PROVE PathOK(p)'
    <3>1. PathOK(p) /\ Clean(x)
      BY <2>1, <2>6 DEF Served, Clean
    <3>2. On(db, p) = {x} /\ Single(db, p) /\ Len(fs[p]) <= 1
      <4>1. x \in On(db, p) /\ Single(db, p) /\ Len(fs[p]) <= 1
        BY <2>1, <2>6, <3>1 DEF PathOK, BootOn, FsOn
      <4>2. \A z \in On(db, p) : z = x
        <5> HIDE DEF x
        <5> QED BY <4>1 DEF On, Listed, Single
      <4> QED BY <4>1, <4>2
    <3>3. On(db, p)' = {x} /\ Single(db, p)'
      BY <1>d, <3>2, SamePath
    <3>4. \A u \in Tasks : TaskOn(u, p)'
      <4> SUFFICES ASSUME NEW u \in Tasks PROVE ~((Busy(u) /\ run[u].mount.path = p)')
        BY DEF TaskOn
      <4>1. u \in Threads /\ u # Boot /\ run'[u] = run[u]
        BY <1>0, <1>o
      <4>2. ~(Busy(u) /\ run[u].mount.path = p)
        BY <1>0, <2>1, <2>6, <3>1, <4>1, Alone DEF Met
      <4> QED BY <4>1, <4>2 DEF Busy
    <3>5. CASE RestoreClear
      <4>1. UnmountPath(p) /\ run'[Boot].at = "fuse" /\ run'[Boot].mount = x /\ Busy(Boot)'
        BY <1>0, <1>t, <2>6, <3>5 DEF RestoreClear, Spoil, Goto, Busy, Runs
      <4>2. fs'[p] = <<>>
        <5>1. fs[p] \in Seq(Entries) /\ fs'[p] = IF fs[p] = <<>> THEN fs[p] ELSE Front(fs[p])
          BY <1>t, <2>2, <2>6, <4>1 DEF UnmountPath
        <5>2. fs[p] # <<>> => Front(fs[p]) = <<>>
          BY <3>2, <5>1, FrontOfOne
        <5> QED BY <5>1, <5>2
      <4>3. BootOn(p)'
        BY <3>3, <4>1, <4>2 DEF BootOn
      <4>4. FsOn(p)'
        <5>1. Len(fs'[p]) = 0 /\ ~(Live(p)')
          BY <4>2 DEF Live
        <5> QED BY <5>1 DEF FsOn
      <4>5. ListOn(p)'
        BY <3>3, <4>1 DEF ListOn, Pending
      <4> QED BY <3>3, <3>4, <4>3, <4>4, <4>5 DEF PathOK
    <3>6. CASE Restored
      <4>1. Doing(Boot, "fuse") /\ fs' = [fs EXCEPT ![p] = Append(@, Entry(x))] /\ ~(Busy(Boot)')
        BY <1>0, <1>t, <2>6, <3>6 DEF Restored, MountOn, Busy, Runs
      <4>2. fs[p] = <<>>
        BY <2>1, <2>6, <3>1, <4>1 DEF PathOK, BootOn, At, Doing
      <4>3. fs'[p] = <<Entry(x)>>
        BY <1>t, <2>2, <2>6, <4>1, <4>2
      <4>4. BootOn(p)'
        BY <4>1 DEF BootOn
      <4> HIDE DEF x
      <4>5. FsOn(p)'
        <5>1. Len(fs'[p]) = 1
          BY <4>3
        <5> QED BY <2>2, <2>6, <3>3, <4>3, <5>1 DEF FsOn
      <4>6. ListOn(p)'
        BY <3>3, <4>3 DEF ListOn
      <4> QED BY <3>3, <3>4, <4>4, <4>5, <4>6 DEF PathOK
    <3> QED BY <1>7, <3>5, <3>6
  <2> QED BY <1>s, <2>1, <2>5, <2>6 DEF Served
<1>8. CASE LoadMissed
  <2>1. UNCHANGED <<fs, mounts, queue, spoiled>> /\ run'[Boot].at = "queue"
    BY <1>0, <1>t, <1>8 DEF LoadMissed, Goto, disk, boot, Runs
  <2>2. ~(Doing(Boot, "load")') /\ ~(Busy(Boot)')
    BY <2>1 DEF Doing, Busy
  <2>3. \A y : Pending(y)'
    BY <2>1 DEF Pending, At
  <2> QED BY <1>n, <1>s, <2>1, <2>2, <2>3
<1>9. CASE InitializeFails
  <2>1. /\ UNCHANGED <<fs, mounts, spoiled>> /\ run'[Boot].at = "done" /\ queue' = mounts
        /\ ~Doing(Boot, "load")
    BY <1>0, <1>t, <1>9 DEF InitializeFails, Goto, disk, Doing, Runs
  <2>2. ~(Doing(Boot, "load")') /\ ~(Busy(Boot)')
    BY <2>1 DEF Doing, Busy
  <2>3. \A y \in Listed(mounts) : Pending(y)'
    BY <2>1 DEF Pending, Contains, Listed
  <2>4. ASSUME NEW p \in Paths \ spoiled, NEW y \in On(db, p)
        PROVE  Pending(y)' \/ fs[p] = <<Entry(y)>> \/ Leaving(y)
    BY <2>1, <2>3, Seen DEF Served
  <2> QED BY <1>n, <1>s, <2>1, <2>2, <2>4
<1> QED BY <1>1, <1>2, <1>3, <1>4, <1>5, <1>6, <1>7, <1>8, <1>9 DEF Initialize

LEMMA ServedRestart ==
  ASSUME TypeInv, Restart PROVE Met' /\ (Shown /\ Served => Shown' /\ Served')
<1>0. Boot \in Threads /\ \A u \in Tasks : u \in Threads
  BY DEF Threads
<1>1. /\ run'[Boot].at = "load" /\ \A u \in Threads : ~(Busy(u)') /\ ~(Editing(u)')
      /\ UNCHANGED <<db, spoiled>>
  BY <1>0 DEF Restart, Idle, Starting, Busy, Editing
<1>2. Met'
  BY <1>0, <1>1 DEF Met, Apart, Early
<1>3. Shown'
  BY <1>1, ShownIdle
<1>4. ASSUME NEW p \in Paths, PathOK(p) PROVE PathOK(p)'
  <2> DEFINE list == fs[p]
  <2>0. CASE fs' = Rebooted
    <3>1. fs'[p] = <<>> /\ Len(fs'[p]) = 0 /\ ~(Live(p)')
      BY <2>0 DEF Rebooted, Live
    <3>2. FsOn(p)' /\ ListOn(p)'
      BY <1>1, <3>1 DEF FsOn, ListOn, Pending, At
    <3>3. BootOn(p)' /\ \A u \in Tasks : TaskOn(u, p)'
      BY <1>0, <1>1 DEF BootOn, TaskOn
    <3> QED BY <1>1, <1>4, <3>2, <3>3, SamePath DEF PathOK
  <2>k. SUFFICES ASSUME fs' = Killed PROVE PathOK(p)'
    BY <2>0 DEF Restart
  <2>1. /\ list \in Seq(Entries)
        /\ fs'[p] = [i \in DOMAIN list |-> [list[i] EXCEPT !.live = FALSE]]
    BY <1>4, <2>k DEF Killed, TypeInv, FsOK
  <2>2. Len(list) <= 1
    BY <1>4 DEF PathOK, FsOn
  <2> HIDE DEF list
  <2>3. /\ Len(list) \in Nat /\ DOMAIN list = 1 .. Len(list)
        /\ \A i \in 1 .. Len(list) : list[i] \in Entries
    BY <2>1, LenProperties, ElementOfSeq
  <2>4. fs'[p] \in Seq(Entries) /\ Len(fs'[p]) = Len(list)
        /\ \A i \in 1 .. Len(list) : ~fs'[p][i].live
    <3>1. \A i \in 1 .. Len(list) : [list[i] EXCEPT !.live = FALSE] \in Entries
                                    /\ ~[list[i] EXCEPT !.live = FALSE].live
      BY <2>3 DEF Entries
    <3>2. fs'[p] \in [1 .. Len(list) -> Entries]
      BY <2>1, <2>3, <3>1
    <3>3. fs'[p] \in Seq(Entries)
      BY <2>3, <3>2, IsASeq
    <3>4. DOMAIN fs'[p] = 1 .. Len(fs'[p]) /\ DOMAIN fs'[p] = 1 .. Len(list) /\ Len(fs'[p]) \in Nat
      BY <2>1, <2>3, <3>3, LenProperties
    <3>5. Len(fs'[p]) = Len(list)
      <4> DEFINE n == Len(fs'[p])  k == Len(list)
      <4>1. n \in Nat /\ k \in Nat /\ 1 .. n = 1 .. k
        BY <2>3, <3>4
      <4> HIDE DEF n, k
      <4>2. n = k
        BY <4>1
      <4> QED BY <4>2 DEF n, k
    <3> QED BY <2>1, <2>3, <3>1, <3>3, <3>5
  <2>5. ~(Live(p)')
    <3>1. fs'[p] # <<>> => Len(fs'[p]) \in 1 .. Len(list)
      BY <2>3, <2>4, EmptySeq
    <3> QED BY <2>4, <3>1 DEF Live, Last
  <2>6. FsOn(p)'
    BY <2>2, <2>4, <2>5 DEF FsOn
  <2>7. ListOn(p)'
    BY <1>1 DEF ListOn, Pending, At
  <2>8. BootOn(p)' /\ \A u \in Tasks : TaskOn(u, p)'
    BY <1>0, <1>1 DEF BootOn, TaskOn
  <2> QED BY <1>1, <1>4, <2>6, <2>7, <2>8, SamePath DEF PathOK
<1>5. Served => Served'
  BY <1>1, <1>4 DEF Served
<1> QED BY <1>2, <1>3, <1>5

ServedIInv == Met /\ (~mangled => Shown /\ Served)

LEMMA ServedInit == Init => ServedIInv
<1> SUFFICES ASSUME Init PROVE ServedIInv
  OBVIOUS
<1>1. /\ run[Boot].at = "load" /\ db = <<>> /\ spoiled = {}
      /\ \A u \in Threads : ~Busy(u)
      /\ \A p \in Paths : fs[p] = <<>>
  BY DEF Init, Idle, Starting, Busy, Threads
<1>2. Boot \in Threads /\ \A u \in Tasks : u \in Threads
  BY DEF Threads
<1>3. Met
  BY <1>1, <1>2 DEF Met, Apart, Early
<1>4. ASSUME NEW p \in Paths PROVE PathOK(p)
  <2>1. FsOn(p) /\ ListOn(p)
    BY <1>1 DEF FsOn, ListOn, Live, Pending, At
  <2>2. BootOn(p) /\ \A u \in Tasks : TaskOn(u, p)
    BY <1>1, <1>2 DEF BootOn, TaskOn
  <2>3. Single(db, p)
    BY <1>1 DEF Single
  <2> QED BY <2>1, <2>2, <2>3 DEF PathOK
<1> QED BY <1>3, <1>4, ShownInit DEF ServedIInv, Served

LEMMA ServedStep ==
  ASSUME TypeInv, SyncInv, ServedIInv, [Next]_vars PROVE ServedIInv'
<1>1. ASSUME NEW t \in Tasks, Request(t) PROVE ServedIInv'
  <2>1. mangled' = mangled
    BY <1>1 DEF Request, MountFolder, UnmountFolder, UnmountUnlisted
  <2> QED BY <1>1, <2>1, ServedRequest, MetRequest DEF ServedIInv
<1>2. ASSUME NEW t \in Tasks, Work(t) PROVE ServedIInv'
  <2>1. mangled => mangled'
    BY <1>2 DEF Work, LockMounting, MountExisting, MountFails, AddMount, AddSaved, AddNotSaved, AddKept,
       RemoveMount, RemoveSaved, RemoveNotSaved, RemoveKept, Unmount, Edit
  <2>2. ASSUME ~mangled' PROVE Shown' /\ Served'
    <3>1. Met /\ Shown /\ Served /\ ~mangled
      BY <2>1, <2>2 DEF ServedIInv
    <3>2. Shown'
      BY <1>2, <2>2, <3>1, ShownWork
    <3> QED BY <1>2, <2>2, <3>1, <3>2, ServedWork
  <2> QED BY <1>2, <2>2, MetWork DEF ServedIInv
<1>3. CASE Initialize
  <2>1. mangled => mangled'
    BY <1>3 DEF Initialize, LoadMounts, LoadMissed, InitializeFails, RestoreMounts, RestoreNext,
       RestoreEnds, RestoreRefused, RestoreDialed, RestoreLock, RestoreClear, Restored,
       NotRestored, Requeue
  <2> QED BY <1>3, <2>1, ServedInitialize, MetInitialize DEF ServedIInv
<1>4. CASE Restart
  <2>1. mangled' = mangled
    BY <1>4 DEF Restart
  <2> QED BY <1>4, <2>1, ServedRestart DEF ServedIInv
<1>5. CASE UNCHANGED vars
  <2>1. /\ UNCHANGED <<mounts, db, fs, run, queue, spoiled, mangled>>
        /\ \A u \in Threads : Busy(u)' <=> Busy(u)
        /\ Doing(Boot, "load")' <=> Doing(Boot, "load")
    BY <1>5 DEF vars, disk, boot, Busy, Doing
  <2>2. Met'
    BY <2>1, MountsAssumption, MetKept DEF ServedIInv
  <2>3. Shown => Shown'
    BY <2>1, ShownElsewhere
  <2>4. ASSUME Served, NEW p \in Paths \ spoiled PROVE PathOK(p)'
    <3>1. PathOK(p)
      BY <2>4 DEF Served
    <3>2. BootOn(p)' /\ \A x : Pending(x)' <=> Pending(x)
      BY <2>1, <3>1, SamePath DEF PathOK, BootOn, Pending, At, Busy
    <3> QED BY <2>1, <3>1, <3>2, BootElsewhere DEF Threads
  <2>5. Served => Served'
    BY <2>1, <2>4 DEF Served
  <2> QED BY <2>1, <2>2, <2>3, <2>5 DEF ServedIInv
<1> QED BY <1>1, <1>2, <1>3, <1>4, <1>5 DEF Next

LEMMA ServedInvariant == Spec => [](TypeInv /\ SyncInv /\ ServedIInv)
<1>1. Init => ServedIInv
  BY ServedInit
<1>2. TypeInv /\ SyncInv /\ ServedIInv /\ [Next]_vars => ServedIInv'
  BY ServedStep
<1> QED BY <1>1, <1>2, Invariants, PTL DEF Spec

LEMMA ServedImpliesQuiet ==
  ASSUME TypeInv, SyncInv, ServedIInv PROVE QuietServed
<1> SUFFICES ASSUME Quiet, ~mangled
             PROVE  /\ \A i \in 1 .. Len(mounts) :
                         Clean(mounts[i]) /\ ~Contains(queue, mounts[i]) =>
                           fs[mounts[i].path] = <<Entry(mounts[i])>>
                    /\ \A p \in Paths \ spoiled : Live(p) =>
                         \E i \in 1 .. Len(mounts) : mounts[i].id = Last(fs[p]).id /\ mounts[i].path = p
  BY DEF QuietServed
<1>1. db = mounts /\ db \in Seq(Mounts)
  <2>1. ~Doing(Boot, "load") /\ Unedited
    BY DEF Quiet, Doing, Unedited, Editing, Threads
  <2> QED BY <2>1 DEF SyncInv, Sync, TypeInv, ListsOK
<1>2. \A t \in Threads : run[t].at \in {"idle", "done"}
  BY DEF Quiet, Doing, Threads
<1>3. /\ ~Busy(Boot) /\ ~At(Boot, {"load", "queue"})
      /\ \A t \in Tasks : ~At(t, {"append", "save", "keepless", "unmount", "saveless"})
  BY <1>2 DEF Busy, At, Threads, Quiet, Doing
<1>4. ASSUME NEW i \in 1 .. Len(mounts), Clean(mounts[i]), ~Contains(queue, mounts[i])
      PROVE  fs[mounts[i].path] = <<Entry(mounts[i])>>
  <2> DEFINE x == mounts[i]
  <2>1. x \in Mounts /\ x \in Listed(db)
    BY <1>1, <1>4, ElementOfSeq DEF Listed
  <2>2. Clean(x) /\ ~Contains(queue, x)
    BY <1>4
  <2> HIDE DEF x
  <2>3. x.path \in Paths \ spoiled
    BY <2>1, <2>2 DEF Mounts, Clean
  <2>4. x \in On(db, x.path) /\ ListOn(x.path)
    BY <2>1, <2>3 DEF On, ServedIInv, Served, PathOK
  <2>5. ~Pending(x) /\ ~Leaving(x)
    BY <1>3, <2>2 DEF Pending, Leaving, At
  <2>6. fs[x.path] = <<Entry(x)>>
    BY <2>4, <2>5 DEF ListOn
  <2> QED BY <2>6 DEF x
<1>5. ASSUME NEW p \in Paths \ spoiled, Live(p)
      PROVE  \E i \in 1 .. Len(mounts) : mounts[i].id = Last(fs[p]).id /\ mounts[i].path = p
  <2>0. FsOn(p)
    BY <1>5 DEF ServedIInv, Served, PathOK
  <2>1. PICK x \in On(db, p) : fs[p] = <<Entry(x)>>
    BY <1>3, <1>5, <2>0 DEF FsOn, At
  <2>2. PICK i \in 1 .. Len(mounts) : mounts[i] = x /\ x.path = p
    BY <1>1, <2>1 DEF On, Listed
  <2>3. Last(fs[p]).id = x.id
    BY <2>1 DEF Last, Entry
  <2> QED BY <2>2, <2>3
<1> QED BY <1>4, <1>5

(* QuietServed: when nothing runs, the mounts that work are the listed ones *)
THEOREM MountsServed == Spec => []QuietServed
<1>1. TypeInv /\ SyncInv /\ ServedIInv => QuietServed
  BY ServedImpliesQuiet
<1> QED BY <1>1, ServedInvariant, PTL

(* Two mounts cannot occupy the same local path (IsDuplicate), in the      *)
(* database nor, between two edits, in memory.                             *)
DistinctIn(list) ==
  \A i, j \in 1 .. Len(list) : list[i].path = list[j].path /\ Clean(list[i]) => i = j

CleanPathsAreDistinct ==
  ~mangled => DistinctIn(db) /\ (Unedited => DistinctIn(mounts))

(* PathsAreDistinct on every path where no two operations met and nothing  *)
(* else went wrong that QuietServed excepts: what the list takes for       *)
(* granted fails only where a request and another operation overlap.       *)
THEOREM PathsAreDistinctWhereClean == Spec => []CleanPathsAreDistinct
<1>1. TypeInv /\ SyncInv /\ ServedIInv => CleanPathsAreDistinct
  <2> SUFFICES ASSUME TypeInv, SyncInv, ServedIInv, ~mangled
               PROVE  DistinctIn(db) /\ (Unedited => DistinctIn(mounts))
    BY DEF CleanPathsAreDistinct
  <2>1. DistinctIn(db)
    <3> SUFFICES ASSUME NEW i \in 1 .. Len(db), NEW j \in 1 .. Len(db),
                        db[i].path = db[j].path, Clean(db[i])
                 PROVE  i = j
      BY DEF DistinctIn
    <3>1. db[i] \in Mounts
      BY ElementOfSeq DEF TypeInv, ListsOK
    <3>2. db[i].path \in Paths \ spoiled
      BY <3>1 DEF Mounts, Clean
    <3>3. Single(db, db[i].path)
      BY <3>2 DEF ServedIInv, Served, PathOK
    <3> QED BY <3>3 DEF Single
  <2>2. Unedited => mounts = db \/ mounts = <<>>
    BY DEF SyncInv, Sync
  <2> QED BY <2>1, <2>2 DEF DistinctIn
<1> QED BY <1>1, ServedInvariant, PTL
=============================================================================
