---------------------------- MODULE FileStore ----------------------------
(***************************************************************************)
(* store/file.py over store/memory.py: the store of a local API process.   *)
(* Rows live in the dictionaries of the process, one per kind; a call that *)
(* FileStore overrides then writes all snapshot kinds to one file.  The    *)
(* change and the save are two steps: only the save is under the lock, so  *)
(* it may carry what other threads have changed meanwhile.  A restart      *)
(* (uvicorn --reload, a kill) reads the file back.                         *)
(*                                                                         *)
(* Data: one row of each kind; a tenant is its slug, other rows are there  *)
(* with some content.  Not modelled: two processes on one file.            *)
(***************************************************************************)
EXTENDS Requests, Naturals, Sequences

CONSTANT Contents  \* Contents[k]: what the row of kind k may hold

VARIABLES
    mem,       \* mem[k]: the row in the dictionary of kind k
    slugIndex, \* the slugs that lead to the tenant
    disk,      \* the file store.json
    lock,      \* the thread that saves
    unsaved    \* history: kinds whose last change has not been saved

fileVars == <<mem, slugIndex, disk, lock, unsaved>>

Kinds == DOMAIN Contents

\* In the order in which _save dumps them.
SaveOrder == <<"tenant", "profile", "membership", "client", "project", "state",
               "activity", "export job", "audit event", "platform admin">>

SavedKinds == {k \in Kinds : \E n \in DOMAIN SaveOrder : SaveOrder[n] = k}

DumpedBefore(k, l) ==
    \E m, n \in DOMAIN SaveOrder : m < n /\ SaveOrder[m] = k /\ SaveOrder[n] = l

MemoryKinds == {"agent run", "llm job", "llm baseline", "llm config", "guard rails"}

\* Kinds of which the store deletes a row, and those of which it saves that.
Deletable == {"tenant", "profile", "membership", "client", "project", "activity",
              "platform admin", "guard rails"}
SavingDeletes == Deletable \ {"profile", "guard rails"}

ASSUME FileStoreAssumption ==
    /\ \A k \in Kinds : k \in SavedKinds \cup MemoryKinds /\ None \notin Contents[k]
    /\ "tenant" \in Kinds
    /\ None \notin Slots

Empty == [k \in Kinds |-> None]

FileStoreInit ==
    /\ mem = Empty /\ slugIndex = {}
    /\ disk = [k \in SavedKinds |-> None]
    /\ lock = None /\ unsaved = {}

SlugsOf(rows) == {rows["tenant"]} \ {None}

-----------------------------------------------------------------------------
(* The calls *)

\* The handler has changed the rows of ks; saves tells if the call saves.
Changed(s, k, ks, saves) ==
    IF saves
    THEN Begin(s, [at |-> "file.save", kind |-> k]) /\ UNCHANGED unsaved
    ELSE /\ At(s, "idle") /\ UNCHANGED req
         /\ unsaved' = unsaved \cup (ks \cap SavedKinds)

\* put_*: only the kinds of the snapshot have a put that saves.
Put(s, k, v) ==
    /\ mem' = [mem EXCEPT ![k] = v]
    /\ slugIndex' = IF k = "tenant" THEN (slugIndex \ SlugsOf(mem)) \cup {v} ELSE slugIndex
    /\ Changed(s, k, {k}, k \in SavedKinds)
    /\ UNCHANGED <<disk, lock>>

\* What goes with the row of a kind.
GoesWith(k) ==
    CASE k = "tenant" -> {k, "llm config"}
      [] k = "project" -> {k, "state", "export job", "activity"}
      [] OTHER -> {k}

\* delete_*, and set_platform_admin with FALSE.
Delete(s, k) ==
    /\ k \in Deletable
    /\ mem' = [l \in Kinds |-> IF l \in GoesWith(k) THEN None ELSE mem[l]]
    /\ slugIndex' = IF k = "tenant" THEN slugIndex \ SlugsOf(mem) ELSE slugIndex
    /\ Changed(s, k, GoesWith(k), k \in SavingDeletes)
    /\ UNCHANGED <<disk, lock>>

-----------------------------------------------------------------------------
(* _save *)

Nothing == [k \in {} |-> None]

\* Broken: a save does not wait for the one that is under way.
LockAtOnce(s) ==
    /\ At(s, "file.save")
    /\ lock' = s
    /\ Become(s, [at |-> "file.dump", kind |-> req[s].kind, payload |-> Nothing])
    /\ UNCHANGED <<mem, slugIndex, disk, unsaved>>

Lock(s) ==
    /\ At(s, "file.save") /\ lock = None
    /\ lock' = s
    /\ Become(s, [at |-> "file.dump", kind |-> req[s].kind, payload |-> Nothing])
    /\ UNCHANGED <<mem, slugIndex, disk, unsaved>>

\* The dictionaries are dumped one after the other.
Dump(s) ==
    LET done == req[s].payload
        left == SavedKinds \ DOMAIN done
    IN  /\ At(s, "file.dump")
        /\ \E k \in left :
            /\ ~\E l \in left : DumpedBefore(l, k)
            /\ Become(s, [at |-> "file.dump", kind |-> req[s].kind,
                          payload |-> [l \in DOMAIN done \cup {k} |->
                                        IF l = k THEN mem[k] ELSE done[l]]])
        /\ UNCHANGED fileVars

\* tmp.replace: the whole file at once.
Replace(s) ==
    LET file == req[s].payload IN
    /\ At(s, "file.dump") /\ DOMAIN file = SavedKinds
    /\ disk' = file
    /\ unsaved' = {k \in unsaved : file[k] # mem[k]}
    /\ lock' = None
    /\ Return(s)
    /\ UNCHANGED <<mem, slugIndex>>

\* The file cannot be written, or a dictionary grows while it is dumped: the
\* request fails, and what it has changed stays in memory.
SaveRaises(s) ==
    /\ At(s, "file.dump")
    /\ unsaved' = unsaved \cup (GoesWith(req[s].kind) \cap SavedKinds)
    /\ lock' = None
    /\ Return(s)
    /\ UNCHANGED <<mem, slugIndex, disk>>

\* _load rebuilds the slug index, which is not in the file.
Restart ==
    /\ mem' = [k \in Kinds |-> IF k \in DOMAIN disk THEN disk[k] ELSE None]
    /\ slugIndex' = SlugsOf(disk)
    /\ lock' = None /\ unsaved' = {}
    /\ req' = [s \in Slots |-> Idle]
    /\ UNCHANGED disk

FileStoreNext ==
    \/ \E s \in Slots :
        \/ \E k \in Kinds : \/ \E v \in Contents[k] : Put(s, k, v)
                            \/ Delete(s, k)
        \/ Lock(s) \/ Dump(s) \/ Replace(s) \/ SaveRaises(s)
    \/ Restart

-----------------------------------------------------------------------------
(* Properties *)

\* "Disk-backed store for local dev - survives platform API restarts": when no
\* call is under way, the file holds what the process holds, of the kinds that
\* are saved, but for profiles that were deleted and rows whose save failed
\* since; and every slug that leads to a tenant leads there after a restart.
RestartsChangeNothing ==
    (\A s \in Slots : ~Busy(s)) =>
        /\ \A k \in DOMAIN disk \ unsaved : disk[k] = mem[k]
        /\ slugIndex = SlugsOf(mem)
=============================================================================
