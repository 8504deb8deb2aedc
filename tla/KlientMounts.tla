---------------------------- MODULE KlientMounts ---------------------------
(***************************************************************************)
(* The mounts a user's klient keeps: folders of remote machines, mounted   *)
(* with FUSE on local paths, listed in memory and in klient's database.    *)
(*                                                                         *)
(* Every request runs in a goroutine of its own, and so does Initialize,   *)
(* which reloads the list after a start and mounts its entries again while *)
(* requests are already served.  The list has no lock.  Each machine has   *)
(* one, which mountFolder and restoreMount take and the others do not.     *)
(*                                                                         *)
(* A FUSE mount outlives the process that serves it, dead, until somebody  *)
(* unmounts it or the machine itself restarts; opening its path then       *)
(* fails.  Only FUSE mounts, the ones the system knows of, are modelled.   *)
(* The database is the one on disk: when klient cannot open it, its lists  *)
(* are kept in memory only, which is left out.                             *)
(***************************************************************************)
EXTENDS Integers, SequencesExt

CONSTANTS
  Machines,     \* their names, which are the names of their mounts
  Paths,        \* local paths
  Folders,      \* remote paths
  Tasks,        \* goroutines of requests
  Boot,         \* the goroutine of Initialize
  NoMount,
  MaxAttempts,  \* maxRestoreAttempts
  MaxMounts,    \* bounds the mounts ever made
  MaxFaults,    \* bounds the failures of storage, mount and unmount
  MaxCrashes    \* bounds the restarts

Threads == Tasks \cup {Boot}
Mounts == [id : 1 .. MaxMounts, machine : Machines, path : Paths, remote : Folders]

ASSUME MountsAssumption ==
  /\ Boot \notin Tasks /\ NoMount \notin Mounts /\ Machines \cap Paths = {}
  /\ MaxAttempts \in Nat /\ MaxMounts \in Nat /\ MaxFaults \in Nat /\ MaxCrashes \in Nat

VARIABLES
  mounts,    \* r.mounts
  db,        \* the list saved under mountsStorageKey
  fs,        \* the mounts on each path, the visible one last
  lock,      \* the thread that holds each machine's mountLocker
  run,       \* what each thread does
  queue,     \* remountQueue; at the end, what was not restored
  attempt,
  made,      \* mounts made so far
  faults,    \* failures so far
  crashes,   \* restarts so far
  mangled,   \* history: two edits of the list overlapped, one failed half-way, or the
             \* saved list could not be read
  spoiled    \* history: paths QuietServed says nothing about

vars == <<mounts, db, fs, lock, run, queue, attempt, made, faults, crashes,
          mangled, spoiled>>
disk == <<db, fs>>
boot == <<queue, attempt>>
bounds == <<made, faults, crashes>>

Idle == [at |-> "idle", op |-> "none", mount |-> NoMount, list |-> <<>>, next |-> 0]
Starting == [Idle EXCEPT !.at = "load", !.op = "restore"]
Doing(t, at) == run[t].at = at
Goto(t, at) == run' = [run EXCEPT ![t].at = at]

Init ==
  /\ mounts = <<>> /\ db = <<>> /\ queue = <<>> /\ attempt = 0
  /\ fs = [p \in Paths |-> <<>>]
  /\ lock = [m \in Machines |-> NoMount]
  /\ run = [t \in Threads |-> IF t = Boot THEN Starting ELSE Idle]
  /\ made = 0 /\ faults = 0 /\ crashes = 0
  /\ mangled = FALSE /\ spoiled = {}

------------------------------------------------------------------------------
(* Helpers                                                                 *)

\* The first entry of the list with a name.
IndexByName(list, m) ==
  CHOOSE i \in 1 .. Len(list) : list[i].machine = m /\ \A j \in 1 .. i - 1 : list[j].machine # m
HasName(list, m) == \E i \in 1 .. Len(list) : list[i].machine = m
FindByName(list, m) == list[IndexByName(list, m)]

IsDuplicate(list, x) ==
  \E i \in 1 .. Len(list) :
    \/ list[i].path = x.path
    \/ list[i].machine = x.machine /\ list[i].remote = x.remote

\* RemoveByName appends to a prefix of the list it is called on, so what r.mounts
\* shows is shifted at once, its last entry twice.
Shifted(list, i) ==
  [j \in 1 .. Len(list) |-> IF j < i \/ j = Len(list) THEN list[j] ELSE list[j + 1]]

Live(p) == fs[p] # <<>> /\ Last(fs[p]).live
Dead(p) == fs[p] # <<>> /\ ~Last(fs[p]).live
Entry(x) == [id |-> x.id, machine |-> x.machine, live |-> TRUE]
MountOn(p, x) == fs' = [fs EXCEPT ![p] = Append(@, Entry(x))]
UnmountPath(p) == fs' = [fs EXCEPT ![p] = IF @ = <<>> THEN @ ELSE Front(@)]

\* Mutant: the deferred unlock is missing.
UnlockedNever(x) == lock

Unlocked(x) == [lock EXCEPT ![x.machine] = NoMount]

\* The thread's operation ends.
End(t) == run' = [run EXCEPT ![t] = Idle]
\* mountFolder holds the lock to its end, remount holds none.
Leave(t) == lock' = IF run[t].op = "mount" THEN Unlocked(run[t].mount) ELSE lock

Fault == faults < MaxFaults /\ faults' = faults + 1 /\ UNCHANGED <<made, crashes>>

Touches(x) == {x.machine, x.path}
Busy(t) == run[t].at \notin {"idle", "load", "queue", "next", "done"}
Meets(t, x) == {u \in Threads \ {t} : Busy(u) /\ Touches(run[u].mount) \cap Touches(x) # {}}
\* Their paths.
Spoil(X) == spoiled' = spoiled \cup {x.path : x \in X}
\* The thread begins to work on a mount; before the list is loaded, it meets all of it.
Begin(t, x) ==
  Spoil(IF Meets(t, x) = {} /\ ~Doing(Boot, "load") THEN {}
        ELSE {x} \cup {run[u].mount : u \in Meets(t, x)})

\* The thread begins to edit the list.
Editing(t) == run[t].at \in {"save", "keep", "saveless", "keepless"}
Edit(t) ==
  mangled' = (mangled \/ Doing(Boot, "load") \/ \E u \in Threads \ {t} : Editing(u))

------------------------------------------------------------------------------
(* remote.mountFolder                                                      *)

\* The path can be opened, and the lock is free at this moment.
MountFolder(t, x) ==
  /\ Doing(t, "idle") /\ ~Dead(x.path) /\ lock[x.machine] = NoMount
  /\ made < MaxMounts /\ x.id = made + 1
  /\ made' = made + 1
  /\ run' = [run EXCEPT ![t] = [Idle EXCEPT !.at = "lock", !.op = "mount", !.mount = x]]
  /\ Begin(t, x)
  /\ UNCHANGED <<mounts, disk, lock, boot, faults, crashes, mangled>>

LockMounting(t) ==
  LET x == run[t].mount IN
  /\ Doing(t, "lock") /\ run[t].op = "mount" /\ lock[x.machine] = NoMount
  /\ IF IsDuplicate(mounts, x)
       THEN End(t) /\ UNCHANGED lock
       ELSE lock' = [lock EXCEPT ![x.machine] = t] /\ Goto(t, "fuse")
  /\ UNCHANGED <<mounts, disk, boot, bounds, mangled, spoiled>>

MountExisting(t) ==
  LET x == run[t].mount IN
  /\ Doing(t, "fuse") /\ t # Boot /\ ~Dead(x.path)
  /\ MountOn(x.path, x) /\ Goto(t, "append")
  /\ UNCHANGED <<mounts, db, lock, boot, bounds, mangled, spoiled>>

MountFails(t) ==
  /\ Doing(t, "fuse") /\ t # Boot
  /\ (Dead(run[t].mount.path) /\ UNCHANGED bounds) \/ Fault
  /\ Leave(t) /\ End(t)
  /\ UNCHANGED <<mounts, disk, boot, mangled, spoiled>>

------------------------------------------------------------------------------
(* AddMount                                                                *)

\* Mutant: the saved list is replaced by the new mount.
AddMountAlone(t) ==
  /\ Doing(t, "append")
  /\ run' = [run EXCEPT ![t].at = "save", ![t].list = <<run[t].mount>>]
  /\ Edit(t)
  /\ UNCHANGED <<mounts, disk, lock, boot, bounds, spoiled>>

AddMount(t) ==
  /\ Doing(t, "append")
  /\ run' = [run EXCEPT ![t].at = "save", ![t].list = Append(mounts, run[t].mount)]
  /\ Edit(t)
  /\ UNCHANGED <<mounts, disk, lock, boot, bounds, spoiled>>

\* Mutant: the new list is kept in memory only.
AddSavedNever(t) ==
  /\ Doing(t, "save") /\ Goto(t, "keep")
  /\ UNCHANGED <<mounts, disk, lock, boot, bounds, mangled, spoiled>>

AddSaved(t) ==
  /\ Doing(t, "save")
  /\ db' = run[t].list /\ Goto(t, "keep")
  /\ UNCHANGED <<mounts, fs, lock, boot, bounds, mangled, spoiled>>

\* The folder stays mounted.
AddNotSaved(t) ==
  /\ Doing(t, "save") /\ Fault
  /\ Spoil({run[t].mount}) /\ Leave(t) /\ End(t)
  /\ UNCHANGED <<mounts, disk, boot, mangled>>

AddKept(t) ==
  /\ Doing(t, "keep")
  /\ mounts' = run[t].list /\ Leave(t) /\ End(t)
  /\ UNCHANGED <<disk, boot, bounds, mangled, spoiled>>

------------------------------------------------------------------------------
(* remote.unmountFolder, and the first half of remote.remount              *)

\* The mount is found by its name.
UnmountFolder(t, m, op) ==
  LET x == FindByName(mounts, m) IN
  /\ Doing(t, "idle") /\ HasName(mounts, m)
  /\ made' = made + (IF op = "remount" THEN 1 ELSE 0) /\ made' <= MaxMounts
  /\ run' = [run EXCEPT ![t] = [Idle EXCEPT !.at = "remove", !.op = op, !.mount = x, !.next = made']]
  /\ Begin(t, x)
  /\ UNCHANGED <<mounts, disk, lock, boot, faults, crashes, mangled>>

\* It is not, and the request names a path.
UnmountUnlisted(t, m, p) ==
  /\ Doing(t, "idle") /\ ~HasName(mounts, m) /\ fs[p] # <<>>
  /\ UnmountPath(p)
  /\ spoiled' = spoiled \cup {p}
  /\ UNCHANGED <<mounts, db, lock, run, boot, bounds, mangled>>

RemoveMount(t) ==
  LET x == run[t].mount  i == IndexByName(mounts, x.machine) IN
  /\ Doing(t, "remove")
  /\ IF HasName(mounts, x.machine)
       THEN \* another mount with the name may have taken its place
            /\ mounts' = Shifted(mounts, i)
            /\ run' = [run EXCEPT ![t].at = "saveless", ![t].list = RemoveAt(mounts, i)]
            /\ Edit(t) /\ Spoil({mounts[i]} \ {x})
       ELSE \* the error is kept, the folder unmounted all the same
            /\ run' = [run EXCEPT ![t].at = "unmount", ![t].op = "unmount"]
            /\ UNCHANGED <<mounts, mangled, spoiled>>
  /\ UNCHANGED <<disk, lock, boot, bounds>>

RemoveSaved(t) ==
  /\ Doing(t, "saveless")
  /\ db' = run[t].list /\ Goto(t, "keepless")
  /\ UNCHANGED <<mounts, fs, lock, boot, bounds, mangled, spoiled>>

RemoveNotSaved(t) ==
  /\ Doing(t, "saveless") /\ Fault
  /\ run' = [run EXCEPT ![t].at = "unmount", ![t].op = "unmount"]
  /\ mangled' = TRUE
  /\ UNCHANGED <<mounts, disk, lock, boot, spoiled>>

RemoveKept(t) ==
  /\ Doing(t, "keepless")
  /\ mounts' = run[t].list /\ Goto(t, "unmount")
  /\ UNCHANGED <<disk, lock, boot, bounds, mangled, spoiled>>

\* What follows the attempt to unmount, whose error is ignored: remount mounts again.
Unmounted(t) ==
  \/ run[t].op = "unmount" /\ End(t)
  \/ /\ run[t].op = "remount"
     /\ run' = [run EXCEPT ![t].at = "fuse", ![t].list = <<>>, ![t].mount.id = run[t].next]

Unmount(t) ==
  LET x == run[t].mount IN
  /\ Doing(t, "unmount")
  /\ \/ UnmountPath(x.path) /\ UNCHANGED <<faults, spoiled>>
     \/ /\ faults < MaxFaults /\ faults' = faults + 1
        /\ Spoil({x}) /\ UNCHANGED fs
  /\ Unmounted(t)
  /\ UNCHANGED <<mounts, db, lock, boot, made, crashes, mangled>>

------------------------------------------------------------------------------
(* Initialize                                                              *)

LoadMounts ==
  /\ Doing(Boot, "load")
  /\ mounts' = IF db = <<>> THEN mounts ELSE db
  /\ mangled' = (mangled \/ \E t \in Tasks : Editing(t))
  /\ Goto(Boot, "queue")
  /\ UNCHANGED <<disk, lock, boot, bounds, spoiled>>

\* The error of the read is dropped; and a list that cannot be decoded leaves r.mounts
\* as it is, like one that was not there.
LoadMissed ==
  /\ Doing(Boot, "load") /\ Fault
  /\ mangled' = (mangled \/ db # mounts)
  /\ Goto(Boot, "queue")
  /\ UNCHANGED <<mounts, disk, lock, boot, spoiled>>

\* The names or the machines cannot be loaded: nothing is restored.
InitializeFails ==
  /\ Doing(Boot, "queue") /\ Fault
  /\ queue' = mounts /\ attempt' = 0 /\ Goto(Boot, "done")
  /\ UNCHANGED <<mounts, disk, lock, mangled, spoiled>>

RestoreMounts ==
  /\ Doing(Boot, "queue")
  /\ queue' = mounts /\ attempt' = 0 /\ Goto(Boot, "next")
  /\ UNCHANGED <<mounts, disk, lock, bounds, mangled, spoiled>>

\* Mutant: the attempts are not limited.
RestoreNextForever ==
  /\ Doing(Boot, "next") /\ queue # <<>>
  /\ queue' = Tail(queue) /\ attempt' = attempt + 1
  /\ IF Contains(mounts, Head(queue))
       THEN /\ run' = [run EXCEPT ![Boot].at = "dial", ![Boot].mount = Head(queue)]
            /\ Begin(Boot, Head(queue))
       ELSE UNCHANGED <<run, spoiled>>
  /\ UNCHANGED <<mounts, disk, lock, bounds, mangled>>

\* Mutant: entries that were unmounted are mounted again.
RestoreNextAny ==
  /\ Doing(Boot, "next") /\ queue # <<>> /\ attempt < MaxAttempts
  /\ queue' = Tail(queue) /\ attempt' = attempt + 1
  /\ run' = [run EXCEPT ![Boot].at = "dial", ![Boot].mount = Head(queue)]
  /\ Begin(Boot, Head(queue))
  /\ UNCHANGED <<mounts, disk, lock, bounds, mangled>>

\* ContainsMount compares pointers, here the identifiers.
RestoreNext ==
  /\ Doing(Boot, "next") /\ queue # <<>> /\ attempt < MaxAttempts
  /\ queue' = Tail(queue) /\ attempt' = attempt + 1
  /\ IF Contains(mounts, Head(queue))
       THEN /\ run' = [run EXCEPT ![Boot].at = "dial", ![Boot].mount = Head(queue)]
            /\ Begin(Boot, Head(queue))
       ELSE UNCHANGED <<run, spoiled>>
  /\ UNCHANGED <<mounts, disk, lock, bounds, mangled>>

RestoreEnds ==
  /\ Doing(Boot, "next") /\ (queue = <<>> \/ attempt = MaxAttempts)
  /\ Goto(Boot, "done")
  /\ UNCHANGED <<mounts, disk, lock, boot, bounds, mangled, spoiled>>

Requeue ==
  /\ queue' = Append(queue, run[Boot].mount)
  /\ run' = [run EXCEPT ![Boot].at = "next", ![Boot].mount = NoMount]
  /\ UNCHANGED <<mounts, disk, attempt, mangled, spoiled>>

\* The machine cannot be dialed, or is locked at this moment.
RestoreRefused ==
  /\ Doing(Boot, "dial")
  /\ (lock[run[Boot].mount.machine] # NoMount /\ UNCHANGED bounds) \/ Fault
  /\ Requeue /\ UNCHANGED lock

RestoreDialed ==
  /\ Doing(Boot, "dial") /\ lock[run[Boot].mount.machine] = NoMount
  /\ Goto(Boot, "lock")
  /\ UNCHANGED <<mounts, disk, lock, boot, bounds, mangled, spoiled>>

\* The lock is taken and the table of mounted file systems read.
RestoreLock ==
  LET x == run[Boot].mount IN
  /\ Doing(Boot, "lock") /\ lock[x.machine] = NoMount
  /\ lock' = [lock EXCEPT ![x.machine] = Boot]
  /\ Goto(Boot, IF fs[x.path] = <<>> THEN "fuse" ELSE "clear")
  /\ UNCHANGED <<mounts, disk, boot, bounds, mangled, spoiled>>

RestoreClear ==
  LET x == run[Boot].mount IN
  /\ Doing(Boot, "clear")
  /\ \/ UnmountPath(x.path) /\ UNCHANGED <<bounds, spoiled>>
     \/ Fault /\ Spoil({x}) /\ UNCHANGED fs
  /\ Goto(Boot, "fuse")
  /\ UNCHANGED <<mounts, db, lock, boot, mangled>>

Restored ==
  LET x == run[Boot].mount IN
  /\ Doing(Boot, "fuse") /\ ~Dead(x.path)
  /\ MountOn(x.path, x) /\ lock' = Unlocked(x)
  /\ run' = [run EXCEPT ![Boot].at = "next", ![Boot].mount = NoMount]
  /\ UNCHANGED <<mounts, db, boot, bounds, mangled, spoiled>>

NotRestored ==
  /\ Doing(Boot, "fuse")
  /\ (Dead(run[Boot].mount.path) /\ UNCHANGED bounds) \/ Fault
  /\ lock' = Unlocked(run[Boot].mount)
  /\ Requeue

------------------------------------------------------------------------------
(* Klient dies, or replaces itself by a newer version, and starts again    *)
Killed == [p \in Paths |-> [i \in DOMAIN fs[p] |-> [fs[p][i] EXCEPT !.live = FALSE]]]
Rebooted == [p \in Paths |-> <<>>]

Restart ==
  /\ crashes < MaxCrashes /\ crashes' = crashes + 1
  /\ mounts' = <<>> /\ queue' = <<>> /\ attempt' = 0
  /\ fs' \in {Killed, Rebooted}
  /\ lock' = [m \in Machines |-> NoMount]
  /\ run' = [t \in Threads |-> IF t = Boot THEN Starting ELSE Idle]
  /\ UNCHANGED <<db, made, faults, mangled, spoiled>>

Request(t) ==
  \/ \E x \in Mounts : MountFolder(t, x)
  \/ \E m \in Machines, op \in {"unmount", "remount"} : UnmountFolder(t, m, op)
  \/ \E m \in Machines, p \in Paths : UnmountUnlisted(t, m, p)

Work(t) ==
  \/ LockMounting(t) \/ MountExisting(t) \/ MountFails(t)
  \/ AddMount(t) \/ AddSaved(t) \/ AddNotSaved(t) \/ AddKept(t)
  \/ RemoveMount(t) \/ RemoveSaved(t) \/ RemoveNotSaved(t) \/ RemoveKept(t)
  \/ Unmount(t)

Initialize ==
  \/ LoadMounts \/ LoadMissed \/ InitializeFails
  \/ RestoreMounts \/ RestoreNext \/ RestoreEnds
  \/ RestoreRefused \/ RestoreDialed \/ RestoreLock \/ RestoreClear
  \/ Restored \/ NotRestored

Next ==
  \/ \E t \in Tasks : Request(t) \/ Work(t)
  \/ Initialize
  \/ Restart

Spec == Init /\ [][Next]_vars

\* Goroutines run.
FairSpec == Spec /\ WF_vars(Initialize) /\ \A t \in Tasks : WF_vars(Work(t))

------------------------------------------------------------------------------
(* Types                                                                   *)
Entries == [id : 1 .. MaxMounts, machine : Machines, live : BOOLEAN]
Places == {"idle", "lock", "fuse", "append", "save", "keep", "remove", "saveless", "keepless",
           "unmount", "load", "queue", "next", "dial", "clear", "done"}

(* Type invariant: the state keeps its shape, and a thread that works on a *)
(* mount has one.                                                          *)
TypeOK ==
  /\ mounts \in Seq(Mounts) /\ db \in Seq(Mounts) /\ queue \in Seq(Mounts)
  /\ fs \in [Paths -> Seq(Entries)]
  /\ lock \in [Machines -> Threads \cup {NoMount}]
  /\ run \in [Threads -> [at : Places, op : {"none", "mount", "unmount", "remount", "restore"},
                          mount : Mounts \cup {NoMount}, list : Seq(Mounts),
                          next : 0 .. MaxMounts]]
  /\ \A t \in Threads : Busy(t) => run[t].mount \in Mounts
  /\ attempt \in 0 .. MaxAttempts /\ made \in 0 .. MaxMounts
  /\ faults \in 0 .. MaxFaults /\ crashes \in 0 .. MaxCrashes
  /\ mangled \in BOOLEAN /\ spoiled \subseteq Paths

------------------------------------------------------------------------------
(* Properties                                                              *)

Quiet == Doing(Boot, "done") /\ \A t \in Tasks : Doing(t, "idle")
Clean(x) == x.path \notin spoiled

(* When nothing runs, klient remembers across a restart exactly the mounts *)
(* it lists, wherever it was restarted and whatever mount, unmount, dial   *)
(* or save of a new mount failed, unless two edits of the unguarded list   *)
(* overlapped, a removal was not saved, or the saved list could not be     *)
(* read: loadMounts drops that error, and starts with an empty list        *)
(* (AddMount, RemoveMount, loadMounts).                                    *)
QuietSaved == Quiet /\ ~mangled => db = mounts

(* When nothing runs, the mounts that work are the mounts that are listed, *)
(* on the path they are listed with and nothing else there: a restart      *)
(* brought them back, and no request left one behind.  Excepted are those  *)
(* that were not restored, because restoring gave up on them or Initialize *)
(* failed before it, and the paths two operations met at, an error was     *)
(* ignored at, that were unmounted by hand, or whose mount was removed     *)
(* from the list in the place of another with its name; and everything     *)
(* after what QuietSaved excepts                                           *)
(* (mountFolder, unmountFolder, remount, restoreMount, RemoveByName).      *)
QuietServed ==
  Quiet /\ ~mangled =>
    /\ \A i \in 1 .. Len(mounts) :
         Clean(mounts[i]) /\ ~Contains(queue, mounts[i]) =>
           fs[mounts[i].path] = <<Entry(mounts[i])>>
    /\ \A p \in Paths \ spoiled : Live(p) =>
         \E i \in 1 .. Len(mounts) : mounts[i].id = Last(fs[p]).id /\ mounts[i].path = p

(* A saved mount is forgotten only by the request that unmounts it, unless *)
(* two edits of the list overlapped, a removal was not saved, or the saved *)
(* list could not be read, after which the next edit replaces it           *)
(* (AddMount, RemoveMount, loadMounts).                                    *)
OnlyUnmountForgets ==
  [][\A i \in 1 .. Len(db) : mangled \/ Contains(db', db[i])
       \/ \E t \in Tasks : Doing(t, "saveless") /\ run[t].mount.machine = db[i].machine]_vars

(* Every request is answered and every restoration ends, though requests   *)
(* and restoration wait for each other's lock, unless klient is restarted  *)
(* once more (LockMounting, restoreMounts).                                *)
EveryoneFinishes ==
  /\ \A t \in Tasks : ~Doing(t, "idle") ~> Doing(t, "idle")
  /\ <>[]Doing(Boot, "done")

(* What the list of mounts takes for granted: two mounts cannot occupy the *)
(* same local path (IsDuplicate).                                          *)
PathsAreDistinct ==
  \A i, j \in 1 .. Len(mounts) : mounts[i].path = mounts[j].path => mounts[i].id = mounts[j].id
=============================================================================
