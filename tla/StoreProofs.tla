---------------------------- MODULE StoreProofs ----------------------------
(***************************************************************************)
(* Inductive invariants of five components of the control plane.  The      *)
(* handlers of guard rails, of clients and of tenants share rows of the    *)
(* store; those that are routed to a data service share the environment of *)
(* their process, and those of a local store its file.  Each is shown      *)
(* to hold at first and to be kept by every step of its component;         *)
(* ControlPlaneProofs concludes that it holds of the whole control plane.  *)
(***************************************************************************)
EXTENDS GuardRails, Clients, DataRouting, FileStore, Tenants, FiniteSetTheorems,
        WellFoundedInduction, TLAPS

(***************************************************************************)
(* Guard rails                                                             *)
(***************************************************************************)
ScopeRows == [ScopeKeys -> Rails \cup {None}]
SeedFiles == Seq([key : ScopeKeys, rails : Rails]) \ {<<>>}

SomeRows == UNION {[keys -> Rails \cup {None}] : keys \in SUBSET ScopeKeys}

SeedHandlers ==
    [at : {"seed.get", "seed.put"}, paths : SeedFiles, refresh : BOOLEAN, written : Nat,
     replaced : SomeRows]

RailHandlers ==
    {Idle} \cup SeedHandlers
    \cup [at : {"rails.put"}, key : ScopeKeys, rails : Rails]
    \cup [at : {"rails.delete"}, key : ScopeKeys]
    \cup [at : {"rails.list"}, replaced : SomeRows]
    \cup [at : {"rails.meta"}, listed : ScopeRows]

RailsType ==
    /\ req \in [Slots -> RailHandlers]
    /\ scopes \in ScopeRows
    /\ versionMeta \in ScopeRows
    /\ behind \in BOOLEAN

\* A list that is not old is the list of the scopes as they are.
ListsAreFresh ==
    /\ outdated \subseteq Listed
    /\ \A s \in Listed \ outdated : req[s].listed = scopes

RailsInv == RailsType /\ ListsAreFresh /\ VersionMatchesScopes

\* What is stored of the guard rails, whatever the handlers do with it.
LEMMA WriteEffect ==
    ASSUME RailsInv, NEW k \in ScopeKeys, NEW content \in Rails \cup {None},
           WriteScope(k, content)
    PROVE  /\ scopes' \in ScopeRows /\ versionMeta' \in ScopeRows /\ behind' \in BOOLEAN
           /\ outdated' \subseteq Listed
           /\ \A s \in Listed \ outdated' : req[s].listed = scopes'
<1>1. CASE scopes[k] = content
  <2>1. scopes' = scopes /\ outdated' = outdated
    BY <1>1 DEF WriteScope, RailsInv, RailsType, ScopeRows
  <2> QED BY <2>1 DEF WriteScope, RailsInv, RailsType, ListsAreFresh
<1>2. CASE scopes[k] # content
  <2>1. outdated' = outdated \cup Listed
    BY <1>2 DEF WriteScope
  <2> QED BY <2>1 DEF WriteScope, RailsInv, RailsType, ListsAreFresh, ScopeRows
<1> QED BY <1>1, <1>2

\* A handler that goes where it does not hold a list yet does not hold one.
LEMMA RailMoves ==
    ASSUME RailsType, NEW s \in Slots, NEW r \in RailHandlers, Become(s, r)
    PROVE  /\ req' \in [Slots -> RailHandlers]
           /\ req'[s] = r
           /\ \A t \in Slots \ {s} : req'[t] = req[t]
           /\ r.at # "rails.meta" => Listed' = Listed \ {s}
<1>1. /\ req' \in [Slots -> RailHandlers]
      /\ req'[s] = r
      /\ \A t \in Slots \ {s} : req'[t] = req[t]
  BY DEF RailsType, Become
<1> QED BY <1>1 DEF Listed, At

\* What has been replaced is rows of scopes.
LEMMA ReplacedRows ==
    ASSUME scopes \in ScopeRows, NEW rows \in SomeRows, NEW k \in ScopeKeys
    PROVE  Replaced(rows, k) \in SomeRows
<1>1. PICK keys \in SUBSET ScopeKeys : rows \in [keys -> Rails \cup {None}]
  BY DEF SomeRows
<1>2. Replaced(rows, k) \in [keys \cup {k} -> Rails \cup {None}]
  BY <1>1 DEF Replaced, ScopeRows
<1> QED BY <1>1, <1>2 DEF SomeRows

LEMMA NothingIsReplaced == <<>> \in SomeRows
<1>1. <<>> \in [{} -> Rails \cup {None}]
  OBVIOUS
<1> QED BY <1>1 DEF SomeRows

\* A list is one of scopes, whichever rows are late.
LEMMA ShownRows ==
    ASSUME scopes \in ScopeRows, NEW s \in Slots, req[s].replaced \in SomeRows,
           NEW late \in SUBSET DOMAIN req[s].replaced
    PROVE  ShownTo(s, late) \in ScopeRows
<1>1. PICK keys \in SUBSET ScopeKeys : req[s].replaced \in [keys -> Rails \cup {None}]
  BY DEF SomeRows
<1> QED BY <1>1 DEF ShownTo, ScopeRows

\* Answering and beginning are moves as well.
LEMMA IdleMoves ==
    ASSUME NEW s, Return(s)
    PROVE  Become(s, Idle)
BY DEF Return, Become

\* A request begins in an idle slot.
LEMMA BeginMoves ==
    ASSUME NEW s, NEW r, Begin(s, r)
    PROVE  Become(s, r) /\ req[s].at = "idle"
BY DEF Begin, Become, At

\* Seeding goes on with the next file, with the refresh or not at all.
LEMMA SeedNextEffect ==
    ASSUME NEW s \in Slots, NEW r \in SeedHandlers, SeedNext(s, r)
    PROVE  \E next \in RailHandlers :
                /\ Become(s, next)
                /\ next.at # "rails.meta"
                /\ \/ next = Idle /\ r.written = 0
                   \/ next.at = "rails.list"
                   \/ next.at = "seed.get" /\ next.written = r.written
<1> DEFINE rest == Tail(r.paths)
<1>1. CASE rest # <<>>
  <2> DEFINE next == [r EXCEPT !.at = "seed.get", !.paths = rest]
  <2>1. Become(s, next)
    BY <1>1 DEF SeedNext
  <2>2. rest \in SeedFiles
    BY <1>1 DEF SeedHandlers, SeedFiles
  <2>3. next \in SeedHandlers /\ next.at = "seed.get" /\ next.written = r.written
    BY <2>2 DEF SeedHandlers
  <2> QED BY <2>1, <2>3 DEF RailHandlers
<1>2. CASE rest = <<>> /\ (r.refresh \/ r.written > 0)
  BY <1>2 DEF SeedNext, RailHandlers, SeedHandlers
<1>3. CASE rest = <<>> /\ ~(r.refresh \/ r.written > 0)
  <2>1. Become(s, Idle) /\ r.written = 0
    BY <1>3, IdleMoves DEF SeedNext, SeedHandlers
  <2> QED BY <2>1 DEF RailHandlers, Idle
<1> QED BY <1>1, <1>2, <1>3

\* A step of a handler that stores nothing and takes no list keeps the
\* invariant, if the handler still owes what it owed.
LEMMA QuietRailStep ==
    ASSUME RailsInv, NEW s \in Slots, NEW r \in RailHandlers, Become(s, r),
           UNCHANGED railVars, r.at # "rails.meta", req[s].at # "rails.meta",
           OwesRefresh(s) => OwesRefresh(s)'
    PROVE  RailsInv'
<1> USE DEF railVars
<1>1. RailsType'
  BY RailMoves DEF RailsInv, RailsType
<1>2. ListsAreFresh'
  BY RailMoves DEF RailsInv, ListsAreFresh, Listed, At
<1>3. \A t \in Slots : OwesRefresh(t) => OwesRefresh(t)'
  BY RailMoves DEF OwesRefresh, At, RailsInv
<1>4. VersionMatchesScopes'
  BY <1>3 DEF VersionMatchesScopes, RailsInv
<1> QED BY <1>1, <1>2, <1>4 DEF RailsInv

\* A step that stores a scope keeps the invariant, if its handler owes a
\* refresh then.
LEMMA WritingRailStep ==
    ASSUME RailsInv, NEW s \in Slots, NEW r \in RailHandlers, Become(s, r),
           NEW k \in ScopeKeys, NEW content \in Rails \cup {None}, WriteScope(k, content),
           r.at # "rails.meta", req[s].at # "rails.meta", OwesRefresh(s)'
    PROVE  RailsInv'
<1>1. RailsType'
  BY RailMoves, WriteEffect DEF RailsInv, RailsType
<1>2. ListsAreFresh'
  BY RailMoves, WriteEffect DEF RailsInv, ListsAreFresh, Listed, At
<1>3. VersionMatchesScopes'
  BY DEF VersionMatchesScopes
<1> QED BY <1>1, <1>2, <1>3 DEF RailsInv

\* The head of a sequence that is not empty is one of its elements.
LEMMA HeadIsMember ==
    ASSUME NEW S, NEW seq \in Seq(S), seq # <<>>
    PROVE  Head(seq) \in S
OBVIOUS

\* No request and no scope: no list to be old.
LEMMA RailsInvInit ==
    ASSUME RequestsInit, GuardRailsInit
    PROVE  RailsInv
BY DEF RequestsInit, GuardRailsInit, RailsInv, RailsType, RailHandlers, NoScopes, ScopeRows,
       ListsAreFresh, Listed, At, Idle, VersionMatchesScopes

\* Every step of the guard rails keeps their invariant.
LEMMA RailsInvStep ==
    ASSUME RailsInv, [GuardRailsNext]_<<req, railVars>>
    PROVE  RailsInv'
<1>1. CASE UNCHANGED <<req, railVars>>
  BY <1>1 DEF railVars, RailsInv, RailsType, ListsAreFresh, Listed, At, VersionMatchesScopes,
              OwesRefresh
<1>2. ASSUME NEW s \in Slots, NEW k \in ScopeKeys, UpsertScope(s, k)
      PROVE  RailsInv'
  <2>1. PICK rails \in Rails :
            Begin(s, [at |-> "rails.put", key |-> k, rails |-> rails]) /\ UNCHANGED railVars
    BY <1>2 DEF UpsertScope
  <2> DEFINE r == [at |-> "rails.put", key |-> k, rails |-> rails]
  <2>2. r \in RailHandlers /\ Become(s, r) /\ req[s].at = "idle"
    BY <2>1, BeginMoves DEF RailHandlers
  <2> QED BY <2>1, <2>2, QuietRailStep DEF OwesRefresh, At
<1>3. ASSUME NEW s \in Slots, NEW k \in ScopeKeys, DeleteScope(s, k)
      PROVE  RailsInv'
  <2> DEFINE r == [at |-> "rails.delete", key |-> k]
  <2>1. r \in RailHandlers /\ Become(s, r) /\ req[s].at = "idle" /\ UNCHANGED railVars
    BY <1>3, BeginMoves DEF RailHandlers, DeleteScope
  <2> QED BY <2>1, QuietRailStep DEF OwesRefresh, At
<1>4. ASSUME NEW s \in Slots, SeedRequest(s)
      PROVE  RailsInv'
  <2>1. PICK refresh \in BOOLEAN : SeedGuardRails(s, refresh)
    BY <1>4 DEF SeedRequest
  <2> DEFINE r == [at |-> "seed.get", paths |-> SeedScopes, refresh |-> refresh, written |-> 0,
                   replaced |-> <<>>]
  <2>2. Become(s, r) /\ req[s].at = "idle" /\ UNCHANGED railVars
    BY <2>1, BeginMoves DEF SeedGuardRails
  <2>3. r \in RailHandlers
    BY GuardRailsAssumption, NothingIsReplaced DEF RailHandlers, SeedHandlers, SeedFiles
  <2> QED BY <2>2, <2>3, QuietRailStep DEF OwesRefresh, At
<1>5. ASSUME NEW s \in Slots, ListScopes(s)
      PROVE  RailsInv'
  <2>1. PICK late \in SUBSET DOMAIN req[s].replaced :
            /\ Become(s, [at |-> "rails.meta", listed |-> ShownTo(s, late)])
            /\ outdated' = IF ShownTo(s, late) = scopes THEN outdated ELSE outdated \cup {s}
    BY <1>5 DEF ListScopes
  <2> DEFINE r == [at |-> "rails.meta", listed |-> ShownTo(s, late)]
  <2>2. req[s].at = "rails.list" /\ UNCHANGED <<scopes, versionMeta, behind>>
    BY <1>5 DEF ListScopes, At
  <2>3. req[s].replaced \in SomeRows
    BY <2>2 DEF RailsInv, RailsType, RailHandlers, SeedHandlers, Idle
  <2>4. r \in RailHandlers
    BY <2>3, ShownRows DEF RailHandlers, RailsInv, RailsType
  <2>5. /\ req' \in [Slots -> RailHandlers] /\ req'[s] = r
        /\ \A t \in Slots \ {s} : req'[t] = req[t]
    BY <2>1, <2>4, RailMoves DEF RailsInv
  <2>6. RailsType'
    BY <2>2, <2>5 DEF RailsInv, RailsType
  <2>7. Listed' = Listed \cup {s}
    BY <2>5 DEF Listed, At
  <2>8. outdated' \subseteq Listed'
    BY <2>1, <2>7 DEF RailsInv, ListsAreFresh
  <2>9. ASSUME NEW x \in Listed' \ outdated' PROVE req'[x].listed = scopes'
    <3>1. CASE x = s
      BY <2>1, <2>2, <2>5, <3>1
    <3>2. CASE x # s
      BY <2>1, <2>2, <2>5, <2>7, <2>9, <3>2 DEF RailsInv, ListsAreFresh, Listed
    <3> QED BY <3>1, <3>2
  <2>10. VersionMatchesScopes'
    BY <2>5 DEF VersionMatchesScopes, OwesRefresh, At
  <2> QED BY <2>6, <2>8, <2>9, <2>10 DEF RailsInv, ListsAreFresh
<1>6. ASSUME NEW s \in Slots, PutVersionMeta(s)
      PROVE  RailsInv'
  <2>1. Become(s, Idle) /\ s \in Listed /\ Idle \in RailHandlers /\ Idle.at # "rails.meta"
    BY <1>6, IdleMoves DEF PutVersionMeta, Listed, At, RailHandlers, Idle
  <2>2. req[s].listed \in ScopeRows
    BY <2>1 DEF RailsInv, RailsType, RailHandlers, SeedHandlers, Idle, Listed, At
  <2>3. RailsType'
    BY <1>6, <2>1, <2>2, RailMoves DEF PutVersionMeta, RailsInv, RailsType
  <2>4. Listed' = Listed \ {s} /\ \A t \in Slots \ {s} : req'[t] = req[t]
    BY <2>1, RailMoves DEF RailsInv
  <2>5. ListsAreFresh'
    BY <1>6, <2>4 DEF PutVersionMeta, RailsInv, ListsAreFresh, Listed
  <2>6. ASSUME ~behind' PROVE versionMeta' = scopes'
    BY <1>6, <2>1, <2>6 DEF PutVersionMeta, RailsInv, ListsAreFresh
  <2> QED BY <2>3, <2>5, <2>6 DEF RailsInv, VersionMatchesScopes
<1>7. ASSUME NEW s \in Slots, PutScope(s)
      PROVE  RailsInv'
  <2> DEFINE r == [at |-> "rails.list", replaced |-> Replaced(<<>>, req[s].key)]
  <2>1. /\ Become(s, r) /\ req[s].at = "rails.put"
        /\ WriteScope(req[s].key, req[s].rails)
    BY <1>7 DEF PutScope, At
  <2>2. req[s].key \in ScopeKeys /\ req[s].rails \in Rails
    BY <2>1 DEF RailsInv, RailsType, RailHandlers, SeedHandlers, Idle
  <2>4. r \in RailHandlers
    BY <2>2, ReplacedRows, NothingIsReplaced DEF RailHandlers, RailsInv, RailsType
  <2>3. OwesRefresh(s)'
    BY <2>1, <2>4, RailMoves DEF OwesRefresh, At, RailsInv
  <2> QED BY <2>1, <2>2, <2>3, <2>4, WritingRailStep
<1>8. ASSUME NEW s \in Slots, DropRow(s)
      PROVE  RailsInv'
  <2> DEFINE r == [at |-> "rails.list", replaced |-> Replaced(<<>>, req[s].key)]
  <2>1. /\ Become(s, r) /\ req[s].at = "rails.delete"
        /\ WriteScope(req[s].key, None)
    BY <1>8 DEF DropRow, At
  <2>2. req[s].key \in ScopeKeys
    BY <2>1 DEF RailsInv, RailsType, RailHandlers, SeedHandlers, Idle
  <2>4. r \in RailHandlers
    BY <2>2, ReplacedRows, NothingIsReplaced DEF RailHandlers, RailsInv, RailsType
  <2>3. OwesRefresh(s)'
    BY <2>1, <2>4, RailMoves DEF OwesRefresh, At, RailsInv
  <2> QED BY <2>1, <2>2, <2>3, <2>4, WritingRailStep
<1>9. ASSUME NEW s \in Slots, GetSeedScope(s)
      PROVE  RailsInv'
  <2>1. req[s].at = "seed.get" /\ req[s] \in SeedHandlers /\ UNCHANGED railVars
    BY <1>9 DEF GetSeedScope, At, RailsInv, RailsType, RailHandlers, Idle
  <2>2. CASE SeedNext(s, req[s])
    <3>1. req[s].written \in Nat
      BY <2>1 DEF SeedHandlers
    <3>2. PICK next \in RailHandlers :
            /\ Become(s, next)
            /\ next.at # "rails.meta"
            /\ \/ next = Idle /\ req[s].written = 0
               \/ next.at = "rails.list"
               \/ next.at = "seed.get" /\ next.written = req[s].written
      BY <2>1, <2>2, <3>1, SeedNextEffect
    <3>3. req'[s] = next
      BY <3>2, RailMoves DEF RailsInv
    <3>4. OwesRefresh(s) => OwesRefresh(s)'
      BY <2>1, <3>1, <3>2, <3>3 DEF OwesRefresh, At, Idle
    <3> QED BY <2>1, <3>2, <3>4, QuietRailStep
  <2>3. CASE Goto(s, "seed.put")
    <3> DEFINE r == [req[s] EXCEPT !.at = "seed.put"]
    <3>1. r \in RailHandlers /\ r.at = "seed.put" /\ r.written = req[s].written
      BY <2>1 DEF RailHandlers, SeedHandlers
    <3>2. Become(s, r)
      BY <2>3 DEF Goto, Become
    <3>3. OwesRefresh(s) => OwesRefresh(s)'
      BY <2>1, <3>1, <3>2, RailMoves DEF OwesRefresh, At, RailsInv
    <3> QED BY <2>1, <3>1, <3>2, <3>3, QuietRailStep
  <2> QED BY <1>9, <2>2, <2>3 DEF GetSeedScope
<1>10. ASSUME NEW s \in Slots, PutSeedScope(s)
       PROVE  RailsInv'
  <2>1. req[s].at = "seed.put" /\ req[s] \in SeedHandlers
    BY <1>10 DEF PutSeedScope, At, RailsInv, RailsType, RailHandlers, Idle
  <2> DEFINE key == Head(req[s].paths).key
             r == [req[s] EXCEPT !.written = @ + 1, !.replaced = Replaced(@, key)]
  <2>2. Head(req[s].paths) \in [key : ScopeKeys, rails : Rails]
    <3>1. req[s].paths \in SeedFiles
      BY <2>1 DEF SeedHandlers
    <3> QED BY <3>1, HeadIsMember DEF SeedFiles
  <2>3. req[s].written \in Nat /\ Replaced(req[s].replaced, key) \in SomeRows
    BY <2>1, <2>2, ReplacedRows DEF SeedHandlers, RailsInv, RailsType
  <2>4. WriteScope(key, Head(req[s].paths).rails) /\ SeedNext(s, r)
    BY <1>10 DEF PutSeedScope
  <2>5. r \in SeedHandlers /\ r.written = req[s].written + 1
    <3> DEFINE rows == Replaced(req[s].replaced, key)
    <3>1. rows \in SomeRows /\ req[s].written + 1 \in Nat
      BY <2>3
    <3>2. r = [req[s] EXCEPT !.written = req[s].written + 1, !.replaced = rows]
      OBVIOUS
    <3> HIDE DEF rows, r
    <3> QED BY <2>1, <3>1, <3>2 DEF SeedHandlers
  <2> HIDE DEF r
  <2>6. PICK next \in RailHandlers :
            /\ Become(s, next)
            /\ next.at # "rails.meta"
            /\ \/ next = Idle /\ r.written = 0
               \/ next.at = "rails.list"
               \/ next.at = "seed.get" /\ next.written = r.written
    BY <2>4, <2>5, SeedNextEffect
  <2>7. req'[s] = next
    BY <2>6, RailMoves DEF RailsInv
  <2>8. OwesRefresh(s)'
    BY <2>3, <2>5, <2>6, <2>7 DEF OwesRefresh, At
  <2> QED BY <2>1, <2>2, <2>4, <2>6, <2>8, WritingRailStep
<1>11. ASSUME NEW s \in Slots, AbortRailRequest(s)
       PROVE  RailsInv'
  <2>1. Become(s, Idle) /\ Idle \in RailHandlers /\ Idle.at # "rails.meta"
    BY <1>11, IdleMoves DEF AbortRailRequest, RailHandlers, Idle
  <2>2. /\ behind' = (behind \/ OwesRefresh(s)) /\ outdated' = outdated \ {s}
        /\ UNCHANGED <<scopes, versionMeta>>
    BY <1>11 DEF AbortRailRequest
  <2>3. OwesRefresh(s) \in BOOLEAN
    BY DEF OwesRefresh, At
  <2>4. RailsType'
    BY <2>1, <2>2, <2>3, RailMoves DEF RailsInv, RailsType
  <2>5. Listed' = Listed \ {s} /\ \A t \in Slots \ {s} : req'[t] = req[t]
    BY <2>1, RailMoves DEF RailsInv
  <2>6. ListsAreFresh'
    BY <2>2, <2>5 DEF RailsInv, ListsAreFresh, Listed
  <2>7. \A t \in Slots \ {s} : OwesRefresh(t)' <=> OwesRefresh(t)
    BY <2>5 DEF OwesRefresh, At
  <2>8. VersionMatchesScopes'
    BY <2>2, <2>7 DEF RailsInv, VersionMatchesScopes
  <2> QED BY <2>4, <2>6, <2>8 DEF RailsInv
<1> QED
  BY <1>1, <1>2, <1>3, <1>4, <1>5, <1>6, <1>7, <1>8, <1>9, <1>10, <1>11
     DEF GuardRailsNext, RailRequest, RailStep

(***************************************************************************)
(* Clients                                                                 *)
(***************************************************************************)
ClientHandlers ==
    {Idle}
    \cup [at : {"client.new"}, company : Companies, contacts : ContactBooks,
          notes : SUBSET Remarks]
    \cup [at : {"client.merge"}, i : ClientIds, listed : ClientRows, company : Companies,
          contacts : ContactBooks, notes : SUBSET Remarks]
    \cup [at : {"client.put"}, i : ClientIds, read : ClientRows, row : ClientRows,
          adds : ClientFiles \cup {None}]
    \cup [at : {"client.delete"}, i : ClientIds, read : ClientRows]

ClientsType ==
    /\ req \in [Slots -> ClientHandlers]
    /\ clients \in [ClientIds -> ClientRows \cup {None}]
    /\ issued \subseteq ClientIds
    /\ muddled \subseteq Companies
    /\ filed \in [Companies -> ClientFiles \cup {None}]

RowSteps == {"client.merge", "client.put", "client.delete"}

\* Only ids that were handed out have rows or handlers.
IdsAreIssued ==
    /\ \A i \in ClientIds : clients[i] # None => i \in issued
    /\ \A s \in Slots : req[s].at \in RowSteps => req[s].i \in issued

\* A merge that collided with nothing is the merge of what update_client reads.
MergeFits(r) ==
    /\ r.at = "client.merge" => r.listed.company = r.company
    /\ r.at = "client.put" /\ r.adds # None /\ r.row.company \notin muddled =>
        /\ r.read.company = r.row.company
        /\ r.row.contacts = MergeContacts(r.read.contacts, r.adds.contacts)
        /\ r.row.notes = r.read.notes \cup r.adds.notes

MergesAreOfTheRow == \A s \in Slots : MergeFits(req[s])

\* What CompaniesKeepTheirFiles says of one company.
FileKept(c) ==
    IF filed[c] = None
    THEN RowsOf(c) = {}
    ELSE \E i \in ClientIds :
            /\ RowsOf(c) = {i}
            /\ clients[i].contacts = filed[c].contacts
            /\ clients[i].notes = filed[c].notes

ClientsInv == ClientsType /\ IdsAreIssued /\ MergesAreOfTheRow /\ CompaniesKeepTheirFiles

\* A handler of clients moves.
LEMMA ClientMoves ==
    ASSUME ClientsType, NEW s \in Slots, NEW r \in ClientHandlers, Become(s, r)
    PROVE  /\ req' \in [Slots -> ClientHandlers]
           /\ req'[s] = r
           /\ \A t \in Slots \ {s} : req'[t] = req[t]
BY DEF ClientsType, Become

\* A request is filed for the companies that no collision has touched.
LEMMA FileEffect ==
    ASSUME NEW cs, NEW what \in ClientFiles \cup {None}, NEW c \in Companies \cup {None},
           filed \in [Companies -> ClientFiles \cup {None}], File(cs, c, what)
    PROVE  /\ filed' \in [Companies -> ClientFiles \cup {None}]
           /\ \A d \in Companies \ muddled' :
                filed'[d] = IF d = c THEN what ELSE IF d \in cs THEN None ELSE filed[d]
<1> DEFINE new(d) ==
        CASE d \in muddled' -> None
          [] d \notin muddled' /\ d = c -> what
          [] d \notin muddled' /\ d # c /\ d \in cs -> None
          [] OTHER -> filed[d]
<1>1. filed' = [d \in Companies |-> new(d)]
  BY DEF File
<1>2. ASSUME NEW d \in Companies
      PROVE  new(d) \in ClientFiles \cup {None}
  <2>1. filed[d] \in ClientFiles \cup {None}
    OBVIOUS
  <2> QED BY <2>1
<1>3. ASSUME NEW d \in Companies \ muddled'
      PROVE  new(d) = IF d = c THEN what ELSE IF d \in cs THEN None ELSE filed[d]
  BY <1>3
<1> HIDE DEF new
<1> QED BY <1>1, <1>2, <1>3

\* Companies are muddled for good, the ones of a collision among them.
LEMMA MuddleEffect ==
    ASSUME NEW cs \in SUBSET Companies, NEW collided \in BOOLEAN, Muddle(cs, collided),
           muddled \subseteq Companies
    PROVE  /\ muddled \subseteq muddled' /\ muddled' \subseteq Companies
           /\ collided => cs \subseteq muddled'
           /\ ~collided => muddled' = muddled
BY DEF Muddle

\* Handlers other than the one that moves are as they were, of fewer companies.
LEMMA OthersFit ==
    ASSUME ClientsType, MergesAreOfTheRow, NEW s \in Slots, NEW r \in ClientHandlers,
           Become(s, r), muddled \subseteq muddled', MergeFits(r)'
    PROVE  MergesAreOfTheRow'
<1>1. MergeFits(req[s])'
  <2>1. req'[s] = r
    BY ClientMoves
  <2> QED BY <2>1 DEF MergeFits
<1>2. ASSUME NEW t \in Slots \ {s}
      PROVE  MergeFits(req[t])'
  <2>1. req'[t] = req[t]
    BY ClientMoves
  <2>2. MergeFits(req[t])
    BY DEF MergesAreOfTheRow
  <2> QED BY <2>1, <2>2 DEF MergeFits, MergeContacts
<1> QED BY <1>1, <1>2 DEF MergesAreOfTheRow

\* A step that leaves the rows alone keeps the invariant, if its handler goes on
\* with what there is.
LEMMA QuietClientStep ==
    ASSUME ClientsInv, NEW s \in Slots, NEW r \in ClientHandlers, Become(s, r),
           UNCHANGED clientVars, r.at \in RowSteps => r.i \in issued, MergeFits(r)
    PROVE  ClientsInv'
<1> USE DEF clientVars
<1>1. ClientsType'
  BY ClientMoves DEF ClientsInv, ClientsType
<1>2. IdsAreIssued'
  BY ClientMoves DEF ClientsInv, IdsAreIssued
<1>3. MergeFits(r)'
  BY DEF MergeFits, MergeContacts
<1>4. MergesAreOfTheRow'
  BY <1>3, OthersFit DEF ClientsInv
<1>5. CompaniesKeepTheirFiles'
  BY DEF ClientsInv, CompaniesKeepTheirFiles, RowsOf
<1> QED BY <1>1, <1>2, <1>4, <1>5 DEF ClientsInv

\* A step that stores row, or nothing, under the id i keeps the invariant, if it
\* files what it stores or else muddles the companies that it is about.
LEMMA RowStep ==
    ASSUME ClientsInv, NEW s \in Slots, Become(s, Idle), NEW i \in ClientIds,
           NEW row \in ClientRows \cup {None}, clients' = [clients EXCEPT ![i] = row],
           issued' \in SUBSET ClientIds, issued \subseteq issued', i \in issued',
           muddled \subseteq muddled', muddled' \subseteq Companies,
           filed' \in [Companies -> ClientFiles \cup {None}],
           \A c \in Companies \ muddled' : FileKept(c)'
    PROVE  ClientsInv'
<1>1. Idle \in ClientHandlers /\ Idle.at = "idle"
  BY DEF ClientHandlers, Idle
<1>2. ClientsType'
  BY <1>1, ClientMoves DEF ClientsInv, ClientsType
<1>3. IdsAreIssued'
  <2>1. \A t \in Slots : req'[t].at \in RowSteps => req'[t] = req[t]
    BY <1>1, ClientMoves DEF ClientsInv, RowSteps
  <2> QED BY <2>1 DEF ClientsInv, ClientsType, IdsAreIssued
<1>4. MergeFits(Idle)'
  BY <1>1 DEF MergeFits
<1>5. MergesAreOfTheRow'
  BY <1>1, <1>4, OthersFit DEF ClientsInv
<1>6. CompaniesKeepTheirFiles'
  BY DEF CompaniesKeepTheirFiles, FileKept
<1> QED BY <1>2, <1>3, <1>5, <1>6 DEF ClientsInv

\* The rows of a company that a change of the row i is not about.
LEMMA OtherCompanies ==
    ASSUME ClientsType, NEW i \in ClientIds, NEW row \in ClientRows \cup {None},
           clients' = [clients EXCEPT ![i] = row], NEW c \in Companies,
           clients[i] # None => clients[i].company # c, row # None => row.company # c,
           filed'[c] = filed[c], FileKept(c)
    PROVE  FileKept(c)'
<1>1. i \notin RowsOf(c)
  BY DEF RowsOf
<1>2. \A j \in ClientIds \ {i} : clients'[j] = clients[j]
  BY DEF ClientsType
<1>3. clients'[i] = row
  BY DEF ClientsType
<1>4. RowsOf(c)' = RowsOf(c)
  BY <1>1, <1>2, <1>3 DEF RowsOf
<1>5. CASE filed[c] = None
  BY <1>4, <1>5 DEF FileKept
<1>6. CASE filed[c] # None
  <2>1. PICK j \in ClientIds : /\ RowsOf(c) = {j}
                               /\ clients[j].contacts = filed[c].contacts
                               /\ clients[j].notes = filed[c].notes
    BY <1>6 DEF FileKept
  <2>2. clients'[j] = clients[j]
    BY <1>1, <1>2, <2>1
  <2> QED BY <1>4, <1>6, <2>1, <2>2 DEF FileKept
<1> QED BY <1>5, <1>6

\* The one row of a company is the one that is there.
LEMMA OneRow ==
    ASSUME NEW i \in ClientIds, NEW c \in Companies, FileKept(c), i \in RowsOf(c)
    PROVE  /\ filed[c] # None /\ RowsOf(c) = {i}
           /\ clients[i].contacts = filed[c].contacts
           /\ clients[i].notes = filed[c].notes
BY DEF FileKept

\* No client and no request.
LEMMA ClientsInvInit ==
    ASSUME RequestsInit, ClientsInit
    PROVE  ClientsInv
BY DEF RequestsInit, ClientsInit, ClientsInv, ClientsType, ClientHandlers, Idle, IdsAreIssued,
       RowSteps, MergesAreOfTheRow, MergeFits, CompaniesKeepTheirFiles, RowsOf

\* create_client puts a new row, the only one of its company if nobody else has
\* put one since the listing.
LEMMA PutNewClientStep ==
    ASSUME ClientsInv, NEW s \in Slots, NEW i \in ClientIds, PutNewClient(s, i)
    PROVE  ClientsInv'
<1> DEFINE r == req[s]
           c == r.company
           row == [company |-> c, contacts |-> r.contacts, notes |-> r.notes]
           what == [contacts |-> r.contacts, notes |-> r.notes]
<1>1. /\ c \in Companies /\ row \in ClientRows /\ what \in ClientFiles
      /\ row.company = c /\ row.contacts = what.contacts /\ row.notes = what.notes
  BY DEF PutNewClient, At, ClientsInv, ClientsType, ClientHandlers, Idle, ClientRows, ClientFiles
<1>2. row # None /\ what # None
  BY <1>1, ClientsAssumption
<1>3. clients[i] = None
  BY DEF PutNewClient, ClientsInv, IdsAreIssued
<1>4. /\ Become(s, Idle) /\ clients' = [clients EXCEPT ![i] = row]
      /\ issued' = issued \cup {i}
      /\ Muddle({c}, RowsOf(c) # {}) /\ File({c}, c, what)
  BY IdleMoves DEF PutNewClient
<1>5. ClientsType
  BY DEF ClientsInv
<1>6. /\ muddled \subseteq muddled' /\ muddled' \subseteq Companies
      /\ RowsOf(c) # {} => c \in muddled'
  BY <1>1, <1>4, <1>5, MuddleEffect DEF ClientsType
<1>7. /\ filed' \in [Companies -> ClientFiles \cup {None}]
      /\ \A d \in Companies \ muddled' :
            filed'[d] = IF d = c THEN what ELSE IF d \in {c} THEN None ELSE filed[d]
  <2> HIDE DEF c, what
  <2> QED BY <1>1, <1>4, <1>5, FileEffect DEF ClientsType
<1>8. ASSUME NEW d \in Companies \ muddled'
      PROVE  FileKept(d)'
  <2>1. CASE d = c
    <3>1. RowsOf(d) = {} /\ filed'[d] = what
      BY <1>6, <1>7, <2>1
    <3>2. \A j \in ClientIds : clients'[j] = IF j = i THEN row ELSE clients[j]
      BY <1>4, <1>5 DEF ClientsType
    <3>3. RowsOf(d)' = {i}
      BY <1>1, <1>2, <2>1, <3>1, <3>2 DEF RowsOf
    <3> QED BY <1>1, <1>2, <3>1, <3>2, <3>3 DEF FileKept
  <2>2. CASE d # c
    <3>1. filed'[d] = filed[d] /\ FileKept(d)
      BY <1>6, <1>7, <2>2 DEF ClientsInv, CompaniesKeepTheirFiles, FileKept
    <3> HIDE DEF row
    <3> QED BY <1>1, <1>3, <1>4, <1>5, <2>2, <3>1, OtherCompanies
  <2> QED BY <2>1, <2>2
<1>9. issued' \in SUBSET ClientIds /\ issued \subseteq issued' /\ i \in issued'
  BY <1>4, <1>5 DEF ClientsType
<1> HIDE DEF row
<1> QED BY <1>1, <1>4, <1>6, <1>7, <1>8, <1>9, RowStep

\* update_client lays the merge over the row that it has just read.
LEMMA MergeReadClientStep ==
    ASSUME ClientsInv, NEW s \in Slots, MergeReadClient(s)
    PROVE  ClientsInv'
<1> DEFINE r == req[s]
           row == clients[r.i]
<1>1. r \in [at : {"client.merge"}, i : ClientIds, listed : ClientRows, company : Companies,
             contacts : ContactBooks, notes : SUBSET Remarks]
  BY DEF MergeReadClient, At, ClientsInv, ClientsType, ClientHandlers, Idle
<1>2. r.i \in issued /\ r.listed.company = r.company
  BY <1>1 DEF ClientsInv, IdsAreIssued, RowSteps, MergesAreOfTheRow, MergeFits
<1>3. CASE row = None
  <2>1. Become(s, Idle) /\ UNCHANGED clientVars
    BY <1>3, IdleMoves DEF MergeReadClient, clientVars
  <2>2. Idle \in ClientHandlers /\ Idle.at \notin RowSteps /\ MergeFits(Idle)
    BY DEF ClientHandlers, Idle, RowSteps, MergeFits
  <2> QED BY <2>1, <2>2, QuietClientStep
<1>4. CASE row # None
  <2> DEFINE merged == [company |-> r.company,
                        contacts |-> MergeContacts(r.listed.contacts, r.contacts),
                        notes |-> r.listed.notes \cup r.notes]
             adds == [contacts |-> r.contacts, notes |-> r.notes]
             next == [at |-> "client.put", i |-> r.i, read |-> row, row |-> merged,
                      adds |-> adds]
  <2>1. /\ Become(s, next) /\ Muddle({r.company, row.company}, row # r.listed)
        /\ File({}, None, None) /\ UNCHANGED <<clients, issued>>
    BY <1>4 DEF MergeReadClient
  <2>2. row \in ClientRows /\ row.company \in Companies
    BY <1>1, <1>4 DEF ClientsInv, ClientsType, ClientRows
  <2>3. MergeContacts(r.listed.contacts, r.contacts) \in ContactBooks
    BY <1>1 DEF ClientRows, ContactBooks, MergeContacts
  <2>4. merged \in ClientRows /\ adds \in ClientFiles
    BY <1>1, <2>3 DEF ClientRows, ClientFiles
  <2>5. PICK n \in ClientHandlers : n = next
    <3>1. next \in ClientHandlers
      BY <1>1, <2>2, <2>4 DEF ClientHandlers
    <3> QED BY <3>1
  <2> HIDE DEF next
  <2>6. ClientsType
    BY DEF ClientsInv
  <2>7. /\ muddled \subseteq muddled' /\ muddled' \subseteq Companies
        /\ row # r.listed => r.company \in muddled'
    <3>1. {r.company, row.company} \in SUBSET Companies /\ muddled \subseteq Companies
      BY <1>1, <2>2, <2>6 DEF ClientsType
    <3>2. (row # r.listed) \in BOOLEAN
      OBVIOUS
    <3> HIDE DEF r, row
    <3> QED BY <2>1, <3>1, <3>2, MuddleEffect
  <2>8. /\ filed' \in [Companies -> ClientFiles \cup {None}]
        /\ \A d \in Companies \ muddled' : filed'[d] = filed[d]
    <3>1. filed \in [Companies -> ClientFiles \cup {None}]
      BY <2>6 DEF ClientsType
    <3>2. PICK nobody : nobody = {}
      OBVIOUS
    <3>3. File(nobody, None, None)
      BY <2>1, <3>2
    <3>4. None \in ClientFiles \cup {None} /\ None \in Companies \cup {None}
      OBVIOUS
    <3>5. /\ filed' \in [Companies -> ClientFiles \cup {None}]
          /\ \A d \in Companies \ muddled' :
                filed'[d] = IF d = None THEN None ELSE IF d \in nobody THEN None ELSE filed[d]
      BY <3>1, <3>3, <3>4, FileEffect
    <3> QED BY <3>2, <3>5, ClientsAssumption
  <2>9. MergeFits(n)'
    <3>1. /\ n.at = "client.put" /\ n.read = row /\ n.row = merged /\ n.adds = adds
      BY <2>5 DEF next
    <3>2. CASE row = r.listed
      <4>1. /\ n.read.company = n.row.company
            /\ n.row.contacts = MergeContacts(n.read.contacts, n.adds.contacts)
            /\ n.row.notes = n.read.notes \cup n.adds.notes
        <5>1. n.read = r.listed /\ n.adds.contacts = r.contacts /\ n.adds.notes = r.notes
          BY <3>1, <3>2
        <5>2. /\ n.row.company = r.company
              /\ n.row.contacts = MergeContacts(r.listed.contacts, r.contacts)
              /\ n.row.notes = r.listed.notes \cup r.notes
          BY <3>1
        <5> QED BY <1>2, <5>1, <5>2
      <4> QED BY <3>1, <4>1 DEF MergeFits, MergeContacts
    <3>3. CASE row # r.listed
      <4>1. n.row.company \in muddled'
        BY <2>7, <3>1, <3>3
      <4> QED BY <3>1, <4>1 DEF MergeFits
    <3> QED BY <3>2, <3>3
  <2>10. ClientsType'
    <3>1. req' \in [Slots -> ClientHandlers]
      BY <2>1, <2>5, <2>6, ClientMoves
    <3> QED BY <2>1, <2>6, <2>7, <2>8, <3>1 DEF ClientsType
  <2>11. IdsAreIssued'
    <3>1. req'[s] = n /\ n.i = r.i /\ \A t \in Slots \ {s} : req'[t] = req[t]
      BY <2>1, <2>5, <2>6, ClientMoves DEF next
    <3> QED BY <1>2, <2>1, <3>1 DEF ClientsInv, IdsAreIssued
  <2>12. MergesAreOfTheRow'
    BY <2>1, <2>5, <2>6, <2>7, <2>9, OthersFit DEF ClientsInv
  <2>13. CompaniesKeepTheirFiles'
    BY <2>1, <2>7, <2>8 DEF ClientsInv, CompaniesKeepTheirFiles, RowsOf
  <2> QED BY <2>10, <2>11, <2>12, <2>13 DEF ClientsInv
<1> QED BY <1>3, <1>4

\* What is on file after a row has been put, if nothing collided.
LEMMA RefiledFits ==
    ASSUME ClientsInv, NEW s \in Slots, req[s].at = "client.put",
           req[s].row.company \notin muddled, clients[req[s].i] = req[s].read
    PROVE  /\ Refiled(req[s]) \in ClientFiles
           /\ Refiled(req[s]).contacts = req[s].row.contacts
           /\ Refiled(req[s]).notes = req[s].row.notes
<1> DEFINE r == req[s]
           c == r.row.company
           i == r.i
<1>1. r \in [at : {"client.put"}, i : ClientIds, read : ClientRows, row : ClientRows,
             adds : ClientFiles \cup {None}]
  BY DEF ClientsInv, ClientsType, ClientHandlers, Idle
<1>2. c \in Companies /\ r.row.contacts \in ContactBooks /\ r.row.notes \in SUBSET Remarks
  BY <1>1 DEF ClientRows
<1>3. CASE r.adds # None /\ filed[c] # None
  <2>1. /\ r.read.company = c
        /\ r.row.contacts = MergeContacts(r.read.contacts, r.adds.contacts)
        /\ r.row.notes = r.read.notes \cup r.adds.notes
    BY <1>3 DEF ClientsInv, MergesAreOfTheRow, MergeFits
  <2>2. i \in RowsOf(c)
    BY <1>1, <2>1, ClientsAssumption DEF RowsOf
  <2>3. FileKept(c)
    BY <1>2 DEF ClientsInv, CompaniesKeepTheirFiles, FileKept
  <2>4. r.read.contacts = filed[c].contacts /\ r.read.notes = filed[c].notes
    BY <1>1, <1>2, <2>2, <2>3, OneRow
  <2> DEFINE book == [m \in ContactEmails |->
                            IF m \in {n \in ContactEmails : r.adds.contacts[n] = None}
                            THEN filed[c].contacts[m] ELSE r.adds.contacts[m]]
             notes == filed[c].notes \cup r.adds.notes
  <2>5. Refiled(r) = [contacts |-> book, notes |-> notes]
    BY <1>3 DEF Refiled
  <2>6. book = MergeContacts(filed[c].contacts, r.adds.contacts)
    BY DEF MergeContacts
  <2>7. book = r.row.contacts
    <3> HIDE DEF book
    <3> QED BY <2>1, <2>4, <2>6
  <2>8. notes = r.row.notes
    BY <2>1, <2>4
  <2> HIDE DEF book, notes
  <2>9. Refiled(r) = [contacts |-> r.row.contacts, notes |-> r.row.notes]
    BY <2>5, <2>7, <2>8
  <2> QED BY <1>2, <2>9 DEF ClientFiles
<1>4. CASE ~(r.adds # None /\ filed[c] # None)
  <2>1. Refiled(r) = [contacts |-> r.row.contacts, notes |-> r.row.notes]
    BY <1>4 DEF Refiled
  <2> QED BY <1>2, <2>1 DEF ClientFiles
<1> QED BY <1>3, <1>4

\* update_client puts the row that it has made of the one it has read.
LEMMA PutClientStep ==
    ASSUME ClientsInv, NEW s \in Slots, PutClient(s)
    PROVE  ClientsInv'
<1> DEFINE r == req[s]
           i == r.i
           c == r.row.company
           old == r.read.company
           cs == {old, c} \cup CompaniesAt(i)
           collided == clients[i] # r.read \/ RowsOf(c) \ {i} # {}
<1>1. r \in [at : {"client.put"}, i : ClientIds, read : ClientRows, row : ClientRows,
             adds : ClientFiles \cup {None}]
  BY DEF PutClient, At, ClientsInv, ClientsType, ClientHandlers, Idle
<1>2. /\ i \in ClientIds /\ i \in issued /\ r.row \in ClientRows /\ r.read \in ClientRows
      /\ r.row # None /\ r.read # None /\ r.at = "client.put"
  BY <1>1, ClientsAssumption DEF ClientsInv, IdsAreIssued, RowSteps
<1>3. c \in Companies /\ old \in Companies
  BY <1>2 DEF ClientRows
<1>4. CompaniesAt(i) \subseteq Companies
  <2>1. clients[i] \in ClientRows \cup {None}
    BY <1>2 DEF ClientsInv, ClientsType
  <2> QED BY <2>1 DEF CompaniesAt, ClientRows
<1>5. /\ Become(s, Idle) /\ clients' = [clients EXCEPT ![i] = r.row] /\ issued' = issued
      /\ Muddle(cs, collided) /\ File({old}, c, Refiled(r))
  BY IdleMoves DEF PutClient
<1>6. /\ ClientsType /\ muddled \subseteq Companies
      /\ filed \in [Companies -> ClientFiles \cup {None}]
      /\ issued \subseteq ClientIds /\ clients \in [ClientIds -> ClientRows \cup {None}]
  BY DEF ClientsInv, ClientsType
<1>7. /\ muddled \subseteq muddled' /\ muddled' \subseteq Companies
      /\ collided => cs \subseteq muddled'
  <2>1. cs \in SUBSET Companies /\ collided \in BOOLEAN
    BY <1>3, <1>4
  <2> HIDE DEF cs, collided
  <2> QED BY <1>5, <1>6, <2>1, MuddleEffect
<1>8. /\ Refiled(r) \in ClientFiles
      /\ c \notin muddled /\ clients[i] = r.read =>
            /\ Refiled(r).contacts = r.row.contacts
            /\ Refiled(r).notes = r.row.notes
  <2>1. CASE c \notin muddled /\ clients[i] = r.read
    BY <1>2, <2>1, RefiledFits
  <2>2. CASE r.adds # None /\ filed[c] # None
    <3>1. filed[c] \in ClientFiles /\ r.adds \in ClientFiles
      BY <1>1, <1>3, <1>6, <2>2
    <3>2. [m \in ContactEmails |->
                IF m \in {n \in ContactEmails : r.adds.contacts[n] = None}
                THEN filed[c].contacts[m] ELSE r.adds.contacts[m]] \in ContactBooks
      BY <3>1 DEF ClientFiles, ContactBooks
    <3>3. filed[c].notes \cup r.adds.notes \in SUBSET Remarks
      BY <3>1 DEF ClientFiles
    <3>4. Refiled(r) \in ClientFiles
      BY <2>2, <3>2, <3>3 DEF Refiled, ClientFiles
    <3> QED BY <2>1, <3>4
  <2>3. CASE ~(r.adds # None /\ filed[c] # None)
    <3>1. Refiled(r) = [contacts |-> r.row.contacts, notes |-> r.row.notes]
      BY <2>3 DEF Refiled
    <3>2. r.row.contacts \in ContactBooks /\ r.row.notes \in SUBSET Remarks
      BY <1>2 DEF ClientRows
    <3> QED BY <3>1, <3>2 DEF ClientFiles
  <2> QED BY <2>2, <2>3
<1>9. /\ filed' \in [Companies -> ClientFiles \cup {None}]
      /\ \A d \in Companies \ muddled' :
            filed'[d] = IF d = c THEN Refiled(r) ELSE IF d \in {old} THEN None ELSE filed[d]
  <2>1. Refiled(r) \in ClientFiles \cup {None} /\ c \in Companies \cup {None}
    BY <1>3, <1>8
  <2> HIDE DEF c, old
  <2> QED BY <1>5, <1>6, <2>1, FileEffect
<1>10. ASSUME NEW d \in Companies \ muddled'
       PROVE  FileKept(d)'
  <2>1. FileKept(d)
    BY <1>7 DEF ClientsInv, CompaniesKeepTheirFiles, FileKept
  <2>2. \A j \in ClientIds : clients'[j] = IF j = i THEN r.row ELSE clients[j]
    BY <1>2, <1>5, <1>6
  <2>3. CASE d = c
    <3>1. clients[i] = r.read /\ RowsOf(d) \subseteq {i} /\ filed'[d] = Refiled(r)
      BY <1>7, <1>9, <2>3
    <3>2. /\ Refiled(r).contacts = r.row.contacts /\ Refiled(r).notes = r.row.notes
          /\ Refiled(r) # None
      BY <1>7, <1>8, <2>3, <3>1, ClientsAssumption
    <3>3. RowsOf(d)' = {i}
      BY <1>2, <2>2, <2>3, <3>1 DEF RowsOf
    <3> QED BY <1>2, <2>2, <3>1, <3>2, <3>3 DEF FileKept
  <2>4. CASE d # c /\ clients[i] # None /\ clients[i].company = d
    <3>1. ~collided
      BY <1>7, <2>4 DEF CompaniesAt
    <3>2. d = old /\ filed'[d] = None
      BY <1>9, <2>4, <3>1
    <3>3. RowsOf(d) = {i}
      BY <1>2, <2>1, <2>4, OneRow DEF RowsOf
    <3>4. RowsOf(d)' = {}
      BY <1>2, <2>2, <2>4, <3>3 DEF RowsOf
    <3> QED BY <3>2, <3>4 DEF FileKept
  <2>5. CASE d # c /\ ~(clients[i] # None /\ clients[i].company = d)
    <3>1. d # old
      <4>1. CASE collided
        BY <1>7, <4>1
      <4>2. CASE ~collided
        BY <1>2, <2>5, <4>2
      <4> QED BY <4>1, <4>2
    <3>2. filed'[d] = filed[d]
      BY <1>9, <2>5, <3>1
    <3> QED BY <1>2, <1>5, <1>6, <2>1, <2>5, <3>2, OtherCompanies
  <2> QED BY <2>3, <2>4, <2>5
<1>11. issued' \in SUBSET ClientIds /\ issued \subseteq issued' /\ i \in issued'
  BY <1>2, <1>5, <1>6
<1> QED BY <1>2, <1>5, <1>7, <1>9, <1>10, <1>11, RowStep

\* delete_client deletes the row of an id, whatever it is by now.
LEMMA RemoveClientStep ==
    ASSUME ClientsInv, NEW s \in Slots, RemoveClient(s)
    PROVE  ClientsInv'
<1> DEFINE r == req[s]
           i == r.i
           old == r.read.company
           cs == {old} \cup CompaniesAt(i)
           collided == clients[i] # r.read
<1>1. r \in [at : {"client.delete"}, i : ClientIds, read : ClientRows]
  BY DEF RemoveClient, At, ClientsInv, ClientsType, ClientHandlers, Idle
<1>2. /\ i \in ClientIds /\ i \in issued /\ r.read \in ClientRows /\ r.read # None
      /\ old \in Companies
  BY <1>1, ClientsAssumption DEF ClientsInv, IdsAreIssued, RowSteps, ClientRows
<1>3. CompaniesAt(i) \subseteq Companies
  <2>1. clients[i] \in ClientRows \cup {None}
    BY <1>2 DEF ClientsInv, ClientsType
  <2> QED BY <2>1 DEF CompaniesAt, ClientRows
<1>4. /\ Become(s, Idle) /\ clients' = [clients EXCEPT ![i] = None] /\ issued' = issued
      /\ Muddle(cs, collided) /\ File({old}, None, None)
  BY IdleMoves DEF RemoveClient
<1>5. /\ ClientsType /\ muddled \subseteq Companies
      /\ filed \in [Companies -> ClientFiles \cup {None}]
      /\ issued \subseteq ClientIds /\ clients \in [ClientIds -> ClientRows \cup {None}]
  BY DEF ClientsInv, ClientsType
<1>6. /\ muddled \subseteq muddled' /\ muddled' \subseteq Companies
      /\ collided => cs \subseteq muddled'
  <2>1. cs \in SUBSET Companies /\ collided \in BOOLEAN
    BY <1>2, <1>3
  <2> HIDE DEF cs, collided
  <2> QED BY <1>4, <1>5, <2>1, MuddleEffect
<1>7. /\ filed' \in [Companies -> ClientFiles \cup {None}]
      /\ \A d \in Companies \ muddled' :
            filed'[d] = IF d = None THEN None ELSE IF d \in {old} THEN None ELSE filed[d]
  <2>1. None \in ClientFiles \cup {None} /\ None \in Companies \cup {None}
    OBVIOUS
  <2>2. PICK gone : gone = {old}
    OBVIOUS
  <2>3. File(gone, None, None)
    BY <1>4, <2>2
  <2> HIDE DEF old
  <2>4. /\ filed' \in [Companies -> ClientFiles \cup {None}]
        /\ \A d \in Companies \ muddled' :
              filed'[d] = IF d = None THEN None ELSE IF d \in gone THEN None ELSE filed[d]
    BY <1>5, <2>1, <2>3, FileEffect
  <2> QED BY <2>2, <2>4
<1>8. ASSUME NEW d \in Companies \ muddled'
      PROVE  FileKept(d)'
  <2>1. FileKept(d) /\ d # None
    BY <1>6, ClientsAssumption DEF ClientsInv, CompaniesKeepTheirFiles, FileKept
  <2>2. \A j \in ClientIds : clients'[j] = IF j = i THEN None ELSE clients[j]
    BY <1>2, <1>4, <1>5
  <2>3. CASE clients[i] # None /\ clients[i].company = d
    <3>1. ~collided
      BY <1>6, <2>3 DEF CompaniesAt
    <3>2. filed'[d] = None
      BY <1>7, <2>3, <3>1
    <3>3. RowsOf(d) = {i}
      BY <1>2, <2>1, <2>3, OneRow DEF RowsOf
    <3>4. RowsOf(d)' = {}
      BY <1>2, <2>2, <3>3 DEF RowsOf
    <3> QED BY <3>2, <3>4 DEF FileKept
  <2>4. CASE ~(clients[i] # None /\ clients[i].company = d)
    <3>1. d # old
      BY <1>2, <1>6, <2>4
    <3>2. filed'[d] = filed[d]
      BY <1>7, <2>1, <3>1
    <3> QED BY <1>2, <1>4, <1>5, <2>1, <2>4, <3>2, OtherCompanies
  <2> QED BY <2>3, <2>4
<1>9. issued' \in SUBSET ClientIds /\ issued \subseteq issued' /\ i \in issued'
  BY <1>2, <1>4, <1>5
<1> QED BY <1>2, <1>4, <1>6, <1>7, <1>8, <1>9, RowStep

\* Every step of the clients keeps their invariant.
LEMMA ClientsInvStep ==
    ASSUME ClientsInv, [ClientsNext]_<<req, clientVars>>
    PROVE  ClientsInv'
<1> USE DEF ClientsInv
<1>1. CASE UNCHANGED <<req, clientVars>>
  BY <1>1 DEF clientVars, ClientsType, IdsAreIssued, MergesAreOfTheRow, MergeFits,
              MergeContacts, CompaniesKeepTheirFiles, RowsOf
<1>2. ASSUME NEW s \in Slots, NEW c \in Companies, NEW body \in ClientBodies,
             CreateClient(s, c, body)
      PROVE  ClientsInv'
  <2>1. body \in ClientFiles /\ UNCHANGED clientVars
    BY <1>2, ClientsAssumption DEF CreateClient
  <2>2. body.contacts \in ContactBooks /\ body.notes \in SUBSET Remarks
    BY <2>1 DEF ClientFiles
  <2>3. CASE RowsOf(c) = {}
    <3> DEFINE r == [at |-> "client.new", company |-> c, contacts |-> body.contacts,
                     notes |-> body.notes]
    <3>1. r \in ClientHandlers /\ Become(s, r)
      BY <1>2, <2>2, <2>3, BeginMoves DEF CreateClient, ClientHandlers
    <3>2. r.at \notin RowSteps /\ MergeFits(r)
      BY DEF RowSteps, MergeFits
    <3> QED BY <2>1, <3>1, <3>2, QuietClientStep
  <2>4. CASE RowsOf(c) # {}
    <3>1. PICK i \in RowsOf(c) :
            Begin(s, [at |-> "client.merge", i |-> i, listed |-> clients[i],
                      company |-> c, contacts |-> body.contacts, notes |-> body.notes])
      BY <1>2, <2>4 DEF CreateClient
    <3> DEFINE r == [at |-> "client.merge", i |-> i, listed |-> clients[i],
                     company |-> c, contacts |-> body.contacts, notes |-> body.notes]
    <3>2. i \in ClientIds /\ clients[i] \in ClientRows /\ clients[i].company = c /\ i \in issued
      BY DEF RowsOf, ClientsType, IdsAreIssued
    <3>3. r \in ClientHandlers /\ Become(s, r)
      BY <2>2, <3>1, <3>2, BeginMoves DEF ClientHandlers
    <3>4. r.i \in issued /\ MergeFits(r)
      BY <3>2 DEF MergeFits
    <3> QED BY <2>1, <3>3, <3>4, QuietClientStep
  <2> QED BY <2>3, <2>4
<1>3. ASSUME NEW s \in Slots, NEW i \in ClientIds, NEW patch \in ClientPatches,
             UpdateClient(s, i, patch)
      PROVE  ClientsInv'
  <2> DEFINE row == clients[i]
             new == [f \in DOMAIN row |-> IF f \in DOMAIN patch THEN patch[f] ELSE row[f]]
             r == [at |-> "client.put", i |-> i, read |-> row, row |-> new, adds |-> None]
  <2>1. Become(s, r) /\ UNCHANGED clientVars /\ row # None
    BY <1>3, BeginMoves DEF UpdateClient
  <2>2. row \in ClientRows /\ i \in issued
    BY <2>1 DEF ClientsType, IdsAreIssued
  <2>3. new \in ClientRows
    <3>1. DOMAIN row = {"company", "contacts", "notes"}
      BY <2>2 DEF ClientRows
    <3>2. /\ row.company \in Companies /\ row.contacts \in ContactBooks
          /\ row.notes \in SUBSET Remarks
      BY <2>2 DEF ClientRows
    <3>3. new = [company |-> new["company"], contacts |-> new["contacts"],
                 notes |-> new["notes"]]
      BY <3>1
    <3>4. new["company"] \in Companies
      BY <3>1, <3>2, ClientsAssumption
    <3>5. new["contacts"] \in ContactBooks
      BY <3>1, <3>2, ClientsAssumption
    <3>6. new["notes"] \in SUBSET Remarks
      BY <3>1, <3>2, ClientsAssumption
    <3> HIDE DEF new
    <3> QED BY <3>3, <3>4, <3>5, <3>6 DEF ClientRows
  <2>4. r \in ClientHandlers /\ r.i \in issued /\ MergeFits(r)
    BY <2>2, <2>3 DEF ClientHandlers, MergeFits
  <2> QED BY <2>1, <2>4, QuietClientStep
<1>4. ASSUME NEW s \in Slots, NEW i \in ClientIds, DeleteClient(s, i)
      PROVE  ClientsInv'
  <2> DEFINE r == [at |-> "client.delete", i |-> i, read |-> clients[i]]
  <2>1. Become(s, r) /\ UNCHANGED clientVars /\ clients[i] # None
    BY <1>4, BeginMoves DEF DeleteClient
  <2>2. r \in ClientHandlers /\ r.i \in issued /\ MergeFits(r)
    BY <2>1 DEF ClientHandlers, ClientsType, IdsAreIssued, MergeFits
  <2> QED BY <2>1, <2>2, QuietClientStep
<1>5. ASSUME NEW s \in Slots, AbortClientRequest(s)
      PROVE  ClientsInv'
  <2>1. Become(s, Idle) /\ UNCHANGED clientVars
    BY <1>5, IdleMoves DEF AbortClientRequest
  <2>2. Idle \in ClientHandlers /\ Idle.at \notin RowSteps /\ MergeFits(Idle)
    BY DEF ClientHandlers, Idle, RowSteps, MergeFits
  <2> QED BY <2>1, <2>2, QuietClientStep
<1> HIDE DEF ClientsInv
<1> QED
  BY <1>1, <1>2, <1>3, <1>4, <1>5, PutNewClientStep, MergeReadClientStep, PutClientStep,
     RemoveClientStep DEF ClientsNext

(***************************************************************************)
(* Data routing                                                            *)
(***************************************************************************)
RoutingHandlers ==
    {Idle}
    \cup [at : {"served"}, origin : Origins, bases : SUBSET Environments]
    \cup [at : {"run.set"}, origin : Origins, want : Bases]
    \cup [at : {"run.client", "run.agent"}, origin : Origins, want : Bases,
          previous : Environments]
    \cup [at : {"run.reset", "run.reset client"}, origin : Origins, previous : Environments,
          bases : SUBSET Environments]

RoutingType ==
    /\ req \in [Slots -> RoutingHandlers]
    /\ deployed \in Environments
    /\ base \in Environments
    /\ agentClient \in Bases
    /\ mixed \in BOOLEAN

\* The base that a request of origin o is to be served by.
Due(o) == DataApiBaseForOrigin(o, deployed)

\* The environment while the run r is at its step.
RunHolds(r) ==
    /\ r.previous = deployed
    /\ r.at \in {"run.client", "run.agent"} => r.want = Due(r.origin) /\ base = r.want
    /\ r.at = "run.agent" => agentClient = r.want
    /\ r.at = "run.reset" => base = Due(r.origin)
    /\ r.at = "run.reset client" => base = deployed

Unmixed ==
    /\ \A s, t \in Slots : req[s].at \in Routed /\ req[t].at \in Routed => s = t
    /\ \A s \in Slots : req[s].at \in Routed => RunHolds(req[s])
    /\ ~InRun => base = deployed /\ agentClient = Or(deployed, LocalBase)
    /\ \A s \in Slots : At(s, "run.set") => req[s].want = Due(req[s].origin)

RoutingInv == RoutingType /\ (~mixed => Unmixed) /\ OriginsDecide

\* What OriginsDecide says of one handler.
WellServed(r) ==
    r.at \in {"served", "run.reset", "run.reset client"} => r.bases = {Due(r.origin)}

\* A step tells what its handler knows, and if it says what it was served by.
LEMMA HandlersAreTyped ==
    ASSUME NEW r \in RoutingHandlers
    PROVE  /\ "bases" \in DOMAIN r <=> r.at \in {"served", "run.reset", "run.reset client"}
           /\ r.at = "run.set" => r \in [at : {"run.set"}, origin : Origins, want : Bases]
           /\ r.at \in {"run.client", "run.agent"} =>
                r \in [at : {"run.client", "run.agent"}, origin : Origins, want : Bases,
                       previous : Environments]
           /\ r.at \in {"run.reset", "run.reset client"} =>
                r \in [at : {"run.reset", "run.reset client"}, origin : Origins,
                       previous : Environments, bases : SUBSET Environments]
<1>1. CASE r = Idle
  BY <1>1 DEF Idle
<1>2. CASE r \in [at : {"served"}, origin : Origins, bases : SUBSET Environments]
  BY <1>2
<1>3. CASE r \in [at : {"run.set"}, origin : Origins, want : Bases]
  BY <1>3
<1>4. CASE r \in [at : {"run.client", "run.agent"}, origin : Origins, want : Bases,
                 previous : Environments]
  BY <1>4
<1>5. CASE r \in [at : {"run.reset", "run.reset client"}, origin : Origins,
                 previous : Environments, bases : SUBSET Environments]
  BY <1>5
<1> QED BY <1>1, <1>2, <1>3, <1>4, <1>5 DEF RoutingHandlers

\* A base that was chosen for an origin is what the agent makes of it.
LEMMA DueIsABase ==
    ASSUME NEW o \in Origins, NEW b \in Environments
    PROVE  /\ DataApiBaseForOrigin(o, b) \in Bases
           /\ Or(DataApiBaseForOrigin(o, b), LocalBase) = DataApiBaseForOrigin(o, b)
           /\ Or(b, LocalBase) \in Bases
BY DataRoutingAssumption DEF DataApiBaseForOrigin, Or, Environments

\* One handler moves, in an environment that fits its run and the others.
LEMMA RoutingStep ==
    ASSUME RoutingInv, NEW s \in Slots, NEW r \in RoutingHandlers,
           req' = [req EXCEPT ![s] = r], deployed' = deployed,
           base' \in Environments, agentClient' \in Bases, mixed' \in BOOLEAN, mixed => mixed',
           ~mixed' =>
                /\ WellServed(r)
                /\ r.at = "run.set" => r.want = Due(r.origin)
                /\ r.at \in Routed \/ req[s].at \in Routed =>
                        \A t \in Slots \ {s} : req[t].at \notin Routed
                /\ r.at \in Routed => RunHolds(r)'
                /\ r.at \notin Routed /\ req[s].at \in Routed =>
                        base' = deployed /\ agentClient' = Or(deployed, LocalBase)
                /\ r.at \notin Routed /\ req[s].at \notin Routed =>
                        base' = base /\ agentClient' = agentClient
    PROVE  RoutingInv'
<1>1. /\ req' \in [Slots -> RoutingHandlers] /\ req'[s] = r
      /\ \A t \in Slots \ {s} : req'[t] = req[t]
  BY DEF RoutingInv, RoutingType
<1>2. RoutingType'
  BY <1>1 DEF RoutingInv, RoutingType
<1>3. ASSUME ~mixed'
      PROVE  Unmixed' /\ \A t \in Slots : WellServed(req[t])'
  <2>1. /\ ~mixed /\ Unmixed
        /\ \A t \in Slots : "bases" \in DOMAIN req[t] => req[t].bases = {Due(req[t].origin)}
    BY <1>3 DEF RoutingInv, OriginsDecide, Due
  <2>2. \A t \in Slots : WellServed(req[t])
    BY <2>1, HandlersAreTyped DEF WellServed, RoutingInv, RoutingType
  <2>3. ASSUME NEW t \in Slots
        PROVE  WellServed(req[t])'
    <3>1. \A o : Due(o)' = Due(o)
      BY DEF Due, DataApiBaseForOrigin
    <3>2. CASE t = s
      BY <1>1, <1>3, <3>1, <3>2 DEF WellServed
    <3>3. CASE t # s
      BY <1>1, <2>2, <3>1, <3>3 DEF WellServed
    <3> QED BY <3>2, <3>3
  <2>4. ASSUME NEW t \in Slots, NEW u \in Slots, req'[t].at \in Routed, req'[u].at \in Routed
        PROVE  t = u
    BY <1>1, <1>3, <2>1, <2>4 DEF Unmixed
  <2>5. ASSUME NEW t \in Slots, req'[t].at \in Routed
        PROVE  RunHolds(req[t])'
    <3>1. CASE t = s
      BY <1>1, <1>3, <2>5, <3>1 DEF RunHolds
    <3>2. CASE t # s
      <4>1. req'[t] = req[t] /\ r.at \notin Routed /\ req[s].at \notin Routed
        BY <1>1, <1>3, <2>5, <3>2
      <4>2. RunHolds(req[t]) /\ base' = base /\ agentClient' = agentClient
        BY <1>3, <2>1, <2>5, <4>1 DEF Unmixed
      <4> QED BY <4>1, <4>2 DEF RunHolds, Due, DataApiBaseForOrigin
    <3> QED BY <3>1, <3>2
  <2>6. ASSUME ~InRun'
        PROVE  base' = deployed' /\ agentClient' = Or(deployed', LocalBase)
    <3>1. r.at \notin Routed
      BY <1>1, <2>6 DEF InRun
    <3>2. CASE req[s].at \in Routed
      BY <1>3, <3>1, <3>2
    <3>3. CASE req[s].at \notin Routed
      <4>1. ~InRun
        BY <1>1, <2>6, <3>3 DEF InRun
      <4> QED BY <1>3, <2>1, <3>1, <3>3, <4>1 DEF Unmixed
    <3> QED BY <3>2, <3>3
  <2>7. ASSUME NEW t \in Slots, req'[t].at = "run.set"
        PROVE  req'[t].want = Due(req'[t].origin)
    BY <1>1, <1>3, <2>1, <2>7 DEF Unmixed, At
  <2>8. Unmixed'
    BY <2>4, <2>5, <2>6, <2>7 DEF Unmixed, At, Due, DataApiBaseForOrigin
  <2> QED BY <2>3, <2>8
<1>4. OriginsDecide'
  <2>1. ASSUME ~mixed', NEW t \in Slots, "bases" \in DOMAIN req'[t]
        PROVE  req'[t].bases = {DataApiBaseForOrigin(req'[t].origin, deployed')}
    <3>1. req'[t].at \in {"served", "run.reset", "run.reset client"}
      BY <1>1, <2>1, HandlersAreTyped
    <3>2. WellServed(req[t])'
      BY <1>3, <2>1
    <3> QED BY <3>1, <3>2 DEF WellServed, Due
  <2> QED BY <2>1 DEF OriginsDecide
<1> QED BY <1>2, <1>3, <1>4 DEF RoutingInv

\* A process as it starts has no request.
JustStarted ==
    /\ req = [s \in Slots |-> Idle]
    /\ deployed \in Environments
    /\ base = deployed
    /\ agentClient = Or(deployed, LocalBase)
    /\ mixed = FALSE

\* A process that has just started has the base of its deployment.
LEMMA StartsInOrder == JustStarted => RoutingInv
<1> SUFFICES ASSUME JustStarted PROVE RoutingInv
  OBVIOUS
<1> USE DEF JustStarted
<1>1. \A s \in Slots : req[s] = Idle /\ req[s].at = "idle" /\ DOMAIN req[s] = {"at"}
  BY DEF Idle
<1>2. RoutingType
  BY DataRoutingAssumption DEF RoutingType, RoutingHandlers, Environments, Or
<1>3. Unmixed
  BY <1>1 DEF Unmixed, Routed, At
<1>4. OriginsDecide
  BY <1>1 DEF OriginsDecide
<1> QED BY <1>2, <1>3, <1>4 DEF RoutingInv

\* That is how the process starts.
LEMMA RoutingInvInit ==
    ASSUME NEW environments, environments \subseteq Environments, RequestsInit,
           DataRoutingInit(environments)
    PROVE  RoutingInv
BY StartsInOrder DEF JustStarted, RequestsInit, DataRoutingInit

\* Every step of the process keeps the invariant.
LEMMA RoutingInvStep ==
    ASSUME RoutingInv, [DataRoutingNext]_<<req, routingVars>>
    PROVE  RoutingInv'
<1> USE DEF routingVars
<1> DEFINE Others(s) == \A t \in Slots \ {s} : req[t].at \notin Routed
<1>0. /\ RoutingType
      /\ ~mixed => Unmixed
      /\ \A s \in Slots : req[s] \in RoutingHandlers
  BY DEF RoutingInv, RoutingType
<1>1. CASE UNCHANGED <<req, routingVars>>
  BY <1>1 DEF RoutingInv, RoutingType, Unmixed, RunHolds, Due, DataApiBaseForOrigin, InRun, At,
              OriginsDecide
<1>2. ASSUME NEW s \in Slots, NEW o \in Origins, AskDirectly(s, o)
      PROVE  RoutingInv'
  <2> DEFINE want == DataApiBaseForOrigin(o, base)
             r == [at |-> "served", origin |-> o, bases |-> {want}]
  <2>1. /\ req' = [req EXCEPT ![s] = r] /\ req[s].at = "idle"
        /\ mixed' = (mixed \/ InRun) /\ UNCHANGED <<deployed, base, agentClient>>
    BY <1>2 DEF AskDirectly, Begin, At
  <2>2. want \in Bases
    BY <1>0, DueIsABase DEF RoutingType
  <2>3. r \in RoutingHandlers
    BY <2>2 DEF RoutingHandlers, Environments
  <2>4. base' \in Environments /\ agentClient' \in Bases /\ mixed' \in BOOLEAN /\ (mixed => mixed')
    BY <1>0, <2>1 DEF RoutingType, InRun
  <2>5. ~mixed' => WellServed(r)
    BY <1>0, <2>1 DEF Unmixed, WellServed, Due
  <2>6. r.at \notin Routed /\ req[s].at \notin Routed /\ r.at # "run.set"
    BY <2>1 DEF Routed
  <2> HIDE DEF r
  <2> QED BY <2>1, <2>3, <2>4, <2>5, <2>6, RoutingStep
<1>3. ASSUME NEW s \in Slots, NEW o \in Origins, StartRouted(s, o)
      PROVE  RoutingInv'
  <2> DEFINE want == DataApiBaseForOrigin(o, base)
             r == [at |-> "run.set", origin |-> o, want |-> want]
  <2>1. /\ req' = [req EXCEPT ![s] = r] /\ req[s].at = "idle"
        /\ mixed' = (mixed \/ InRun) /\ UNCHANGED <<deployed, base, agentClient>>
    BY <1>3 DEF StartRouted, Begin, At
  <2>2. want \in Bases
    BY <1>0, DueIsABase DEF RoutingType
  <2>3. r \in RoutingHandlers
    BY <2>2 DEF RoutingHandlers
  <2>4. base' \in Environments /\ agentClient' \in Bases /\ mixed' \in BOOLEAN /\ (mixed => mixed')
    BY <1>0, <2>1 DEF RoutingType, InRun
  <2>5. ~mixed' => r.want = Due(r.origin)
    BY <1>0, <2>1 DEF Unmixed, Due
  <2>6. r.at \notin Routed /\ req[s].at \notin Routed /\ WellServed(r)
    BY <2>1 DEF Routed, WellServed
  <2> HIDE DEF r
  <2> QED BY <2>1, <2>3, <2>4, <2>5, <2>6, RoutingStep
<1>4. ASSUME NEW s \in Slots, SetBase(s)
      PROVE  RoutingInv'
  <2>1. req[s] \in [at : {"run.set"}, origin : Origins, want : Bases]
    BY <1>0, <1>4, HandlersAreTyped DEF SetBase, At
  <2>2. PICK r : r = [at |-> "run.client", origin |-> req[s].origin, want |-> req[s].want,
                      previous |-> base]
    OBVIOUS
  <2>3. /\ req' = [req EXCEPT ![s] = r] /\ base' = req[s].want
        /\ mixed' = (mixed \/ InRun) /\ UNCHANGED <<deployed, agentClient>>
    BY <1>4, <2>2 DEF SetBase, Become
  <2>4. r \in RoutingHandlers /\ r.at = "run.client" /\ WellServed(r) /\ req[s].at \notin Routed
    BY <1>0, <2>1, <2>2 DEF RoutingHandlers, RoutingType, WellServed, Routed
  <2>5. base' \in Environments /\ agentClient' \in Bases /\ mixed' \in BOOLEAN /\ (mixed => mixed')
    BY <1>0, <2>1, <2>3 DEF RoutingType, InRun, Environments
  <2>6. ASSUME ~mixed' PROVE Others(s) /\ RunHolds(r)'
    <3>1. ~mixed /\ ~InRun
      BY <2>3, <2>6
    <3>2. Unmixed /\ base = deployed /\ req[s].want = Due(req[s].origin)
      BY <1>0, <2>1, <3>1 DEF Unmixed, At
    <3>3. Due(r.origin)' = Due(r.origin)
      BY <2>3 DEF Due, DataApiBaseForOrigin
    <3>4. RunHolds(r)'
      BY <2>2, <2>3, <3>2, <3>3 DEF RunHolds
    <3> QED BY <3>1, <3>4 DEF InRun
  <2> QED BY <2>3, <2>4, <2>5, <2>6, RoutingStep DEF Routed
<1> DEFINE Run(s) == ~mixed => Others(s) /\ RunHolds(req[s])
<1>5. ASSUME NEW s \in Slots, req[s].at \in Routed
      PROVE  Run(s)
  BY <1>0, <1>5 DEF Unmixed
<1>6. ASSUME NEW s \in Slots, SetClient(s)
      PROVE  RoutingInv'
  <2>1. req[s] \in [at : {"run.client", "run.agent"}, origin : Origins, want : Bases,
                    previous : Environments] /\ req[s].at = "run.client"
    BY <1>0, <1>6, HandlersAreTyped DEF SetClient, At
  <2>2. PICK r : r = [req[s] EXCEPT !.at = "run.agent"]
    OBVIOUS
  <2>3. /\ r.at = "run.agent" /\ r.origin = req[s].origin /\ r.want = req[s].want
        /\ r.previous = req[s].previous /\ r \in RoutingHandlers
    BY <2>1, <2>2 DEF RoutingHandlers
  <2>4. /\ req' = [req EXCEPT ![s] = r] /\ agentClient' = req[s].want
        /\ UNCHANGED <<deployed, base, mixed>>
    BY <1>6, <2>2 DEF SetClient, Goto
  <2>5. base' \in Environments /\ agentClient' \in Bases /\ mixed' \in BOOLEAN
    BY <1>0, <2>1, <2>4 DEF RoutingType
  <2>6. ASSUME ~mixed' PROVE Others(s) /\ RunHolds(r)'
    BY <1>5, <2>1, <2>3, <2>4, <2>6 DEF RunHolds, Routed, Due, DataApiBaseForOrigin
  <2> QED BY <2>3, <2>4, <2>5, <2>6, RoutingStep DEF Routed, WellServed
<1>7. ASSUME NEW s \in Slots, RunAgent(s)
      PROVE  RoutingInv'
  <2>1. req[s] \in [at : {"run.client", "run.agent"}, origin : Origins, want : Bases,
                    previous : Environments] /\ req[s].at = "run.agent"
    BY <1>0, <1>7, HandlersAreTyped DEF RunAgent, At
  <2>2. PICK r : r = [at |-> "run.reset", origin |-> req[s].origin,
                      previous |-> req[s].previous, bases |-> {Or(base, LocalBase), agentClient}]
    OBVIOUS
  <2>3. req' = [req EXCEPT ![s] = r] /\ UNCHANGED routingVars
    BY <1>7, <2>2 DEF RunAgent, Become
  <2>4. Or(base, LocalBase) \in Bases /\ agentClient \in Bases
    BY <1>0, DueIsABase, DataRoutingAssumption DEF RoutingType, Or, Environments
  <2>5. r \in RoutingHandlers /\ r.at = "run.reset"
    BY <2>1, <2>2, <2>4 DEF RoutingHandlers, Environments
  <2>6. ASSUME ~mixed' PROVE Others(s) /\ RunHolds(r)' /\ WellServed(r)
    <3>1. /\ Others(s) /\ req[s].previous = deployed /\ req[s].want = Due(req[s].origin)
          /\ base = req[s].want /\ agentClient = req[s].want
      BY <1>5, <2>1, <2>3, <2>6 DEF RunHolds, Routed
    <3>2. Or(base, LocalBase) = base
      BY <1>0, <2>1, <3>1, DueIsABase DEF RoutingType, Due
    <3>3. WellServed(r)
      BY <2>2, <3>1, <3>2 DEF WellServed
    <3>4. RunHolds(r)'
      BY <2>2, <2>3, <3>1 DEF RunHolds, Due, DataApiBaseForOrigin
    <3> QED BY <3>1, <3>3, <3>4
  <2>7. base' \in Environments /\ agentClient' \in Bases /\ mixed' \in BOOLEAN
    BY <1>0, <2>3 DEF RoutingType
  <2> QED BY <2>3, <2>5, <2>6, <2>7, RoutingStep DEF Routed
<1>8. ASSUME NEW s \in Slots, ResetBase(s)
      PROVE  RoutingInv'
  <2>1. req[s] \in [at : {"run.reset", "run.reset client"}, origin : Origins,
                    previous : Environments, bases : SUBSET Environments]
        /\ req[s].at = "run.reset"
    BY <1>0, <1>8, HandlersAreTyped DEF ResetBase, At
  <2>2. PICK r : r = [req[s] EXCEPT !.at = "run.reset client"]
    OBVIOUS
  <2>3. /\ r.at = "run.reset client" /\ r.origin = req[s].origin
        /\ r.previous = req[s].previous /\ r.bases = req[s].bases /\ r \in RoutingHandlers
    BY <2>1, <2>2 DEF RoutingHandlers
  <2>4. /\ req' = [req EXCEPT ![s] = r] /\ base' = req[s].previous
        /\ UNCHANGED <<deployed, agentClient, mixed>>
    BY <1>8, <2>2 DEF ResetBase, Goto
  <2>5. base' \in Environments /\ agentClient' \in Bases /\ mixed' \in BOOLEAN
    BY <1>0, <2>1, <2>4 DEF RoutingType
  <2>6. ASSUME ~mixed' PROVE Others(s) /\ RunHolds(r)'
    BY <1>5, <2>1, <2>3, <2>4, <2>6 DEF RunHolds, Routed
  <2>7. ASSUME ~mixed' PROVE WellServed(r)
    BY <2>1, <2>3, <2>4, <2>7, HandlersAreTyped
       DEF RoutingInv, OriginsDecide, WellServed, Due
  <2> QED BY <2>3, <2>4, <2>5, <2>6, <2>7, RoutingStep DEF Routed
<1>9. ASSUME NEW s \in Slots, ResetClient(s)
      PROVE  RoutingInv'
  <2>1. req[s] \in [at : {"run.reset", "run.reset client"}, origin : Origins,
                    previous : Environments, bases : SUBSET Environments]
        /\ req[s].at = "run.reset client"
    BY <1>0, <1>9, HandlersAreTyped DEF ResetClient, At
  <2>2. PICK r : r = [at |-> "served", origin |-> req[s].origin, bases |-> req[s].bases]
    OBVIOUS
  <2>3. r \in RoutingHandlers /\ r.at = "served"
    BY <2>1, <2>2 DEF RoutingHandlers
  <2>4. /\ req' = [req EXCEPT ![s] = r] /\ agentClient' = Or(req[s].previous, LocalBase)
        /\ UNCHANGED <<deployed, base, mixed>>
    BY <1>9, <2>2 DEF ResetClient, Become
  <2>5. base' \in Environments /\ agentClient' \in Bases /\ mixed' \in BOOLEAN
    BY <1>0, <2>1, <2>4, DataRoutingAssumption DEF RoutingType, Or, Environments
  <2>6. ASSUME ~mixed'
        PROVE  Others(s) /\ base' = deployed /\ agentClient' = Or(deployed, LocalBase)
    BY <1>5, <2>1, <2>4, <2>6 DEF RunHolds, Routed
  <2>7. ASSUME ~mixed' PROVE WellServed(r)
    BY <2>1, <2>2, <2>4, <2>7, HandlersAreTyped
       DEF RoutingInv, OriginsDecide, WellServed, Due
  <2> QED BY <2>1, <2>3, <2>4, <2>5, <2>6, <2>7, RoutingStep DEF Routed
<1>10. ASSUME NEW s \in Slots, Answer(s)
       PROVE  RoutingInv'
  <2>1. /\ req' = [req EXCEPT ![s] = Idle] /\ UNCHANGED routingVars
        /\ req[s].at = "served"
    BY <1>10 DEF Answer, Return, At
  <2>2. Idle \in RoutingHandlers /\ Idle.at = "idle" /\ WellServed(Idle)
    BY DEF RoutingHandlers, Idle, WellServed
  <2>3. base' \in Environments /\ agentClient' \in Bases /\ mixed' \in BOOLEAN
    BY <1>0, <2>1 DEF RoutingType
  <2> QED BY <2>1, <2>2, <2>3, RoutingStep DEF Routed
<1>11. CASE RestartProcess
  <2>1. JustStarted'
    BY <1>0, <1>11 DEF RestartProcess, RoutingType, JustStarted
  <2>2. JustStarted' => RoutingInv'
    BY StartsInOrder, PTL
  <2> QED BY <2>1, <2>2
<1> QED
  BY <1>1, <1>2, <1>3, <1>4, <1>6, <1>7, <1>8, <1>9, <1>10, <1>11 DEF DataRoutingNext

(***************************************************************************)
(* File store                                                              *)
(***************************************************************************)
AnyRow == {None} \cup UNION {Contents[k] : k \in Kinds}

Payloads == UNION {[ks -> AnyRow] : ks \in SUBSET SavedKinds}

FileHandlers ==
    {Idle}
    \cup [at : {"file.save"}, kind : Kinds]
    \cup [at : {"file.dump"}, kind : Kinds, payload : Payloads]

FileType ==
    /\ req \in [Slots -> FileHandlers]
    /\ mem \in [Kinds -> AnyRow]
    /\ disk \in [SavedKinds -> AnyRow]
    /\ lock \in Slots \cup {None}
    /\ unsaved \subseteq SavedKinds

\* One thread dumps the dictionaries, the one that has the lock.
OneSaves == \A s \in Slots : At(s, "file.dump") <=> lock = s

\* What has been dumped of kind k is what is in memory.
DumpIsFresh(s, k) == k \in DOMAIN req[s].payload => req[s].payload[k] = mem[k]

\* The last change of kind k is being saved, or has been.
Accounted(k) ==
    \/ \E s \in Slots : At(s, "file.save") /\ k \in GoesWith(req[s].kind)
    \/ \E s \in Slots : At(s, "file.dump") /\ k \in GoesWith(req[s].kind) /\ DumpIsFresh(s, k)
    \/ /\ disk[k] = mem[k]
       /\ \A s \in Slots : At(s, "file.dump") => DumpIsFresh(s, k)

FileInv ==
    /\ FileType
    /\ OneSaves
    /\ slugIndex = SlugsOf(mem)
    /\ \A k \in SavedKinds \ unsaved : Accounted(k)

\* A handler of the file store moves.
LEMMA FileMoves ==
    ASSUME FileType, NEW s \in Slots, NEW r \in FileHandlers, req' = [req EXCEPT ![s] = r]
    PROVE  /\ req' \in [Slots -> FileHandlers]
           /\ req'[s] = r
           /\ \A t \in Slots \ {s} : req'[t] = req[t]
BY DEF FileType

\* A step tells what its handler knows.
LEMMA FileHandlersAreTyped ==
    ASSUME NEW r \in FileHandlers
    PROVE  /\ r.at = "file.save" => r.kind \in Kinds
           /\ r.at = "file.dump" => r.kind \in Kinds /\ r.payload \in Payloads
           /\ r.at \in {"idle", "file.save", "file.dump"}
BY DEF FileHandlers, Idle

\* What has been dumped is of saved kinds.
LEMMA PayloadFacts ==
    ASSUME NEW p \in Payloads
    PROVE  DOMAIN p \subseteq SavedKinds /\ p \in [DOMAIN p -> AnyRow]
BY DEF Payloads

\* No row is a row that may be there.
LEMMA NoneIsARow == None \in AnyRow
BY DEF AnyRow

\* The tenant is of the snapshot.
LEMMA TenantsAreSaved == "tenant" \in SavedKinds
BY FileStoreAssumption DEF MemoryKinds

\* A dump starts with nothing.
LEMMA NothingIsAPayload == Nothing \in Payloads /\ DOMAIN Nothing = {}
<1>1. Nothing \in [{} -> AnyRow] /\ {} \in SUBSET SavedKinds
  BY DEF Nothing
<1> QED BY <1>1 DEF Payloads, Nothing

\* A call changes rows of the kinds ks: what it saves is accounted for, and
\* what it does not save is known to be unsaved.
LEMMA CallStep ==
    ASSUME FileInv, NEW s \in Slots, NEW k \in Kinds, NEW saves \in BOOLEAN,
           NEW ks, Changed(s, k, ks, saves), saves => ks = {} \/ ks \subseteq GoesWith(k),
           mem' \in [Kinds -> AnyRow], slugIndex' = SlugsOf(mem'),
           \A l \in Kinds \ ks : mem'[l] = mem[l],
           disk' = disk, lock' = lock
    PROVE  FileInv'
<1>1. /\ FileType /\ OneSaves /\ req[s].at = "idle"
      /\ \A l \in SavedKinds \ unsaved : Accounted(l)
  BY DEF FileInv, Changed, Begin, At
<1>2. SavedKinds \subseteq Kinds
  BY DEF SavedKinds
<1>3. CASE saves
  <2>1. PICK r : r = [at |-> "file.save", kind |-> k]
    OBVIOUS
  <2>2. req' = [req EXCEPT ![s] = r] /\ unsaved' = unsaved /\ r \in FileHandlers
    BY <1>3, <2>1 DEF Changed, Begin, FileHandlers
  <2>3. /\ req' \in [Slots -> FileHandlers] /\ req'[s] = r
        /\ \A t \in Slots \ {s} : req'[t] = req[t]
    BY <1>1, <2>2, FileMoves
  <2>4. FileType'
    BY <1>1, <2>2, <2>3 DEF FileType
  <2>5. OneSaves'
    BY <1>1, <2>1, <2>3 DEF OneSaves, At
  <2>6. ASSUME NEW l \in SavedKinds \ unsaved
        PROVE  Accounted(l)'
    <3>1. CASE l \in ks
      <4>1. At(s, "file.save")' /\ l \in GoesWith(req'[s].kind)
        BY <1>3, <2>1, <2>3, <3>1 DEF At
      <4> QED BY <4>1 DEF Accounted, GoesWith
    <3>2. CASE l \notin ks
      <4>1. mem'[l] = mem[l] /\ Accounted(l)
        BY <1>1, <1>2, <2>6, <3>2
      <4>2. \A t \in Slots : At(t, "file.save") => At(t, "file.save")' /\ req'[t] = req[t]
        BY <1>1, <2>3 DEF At
      <4>3. \A t \in Slots : At(t, "file.dump") <=> At(t, "file.dump")'
        BY <1>1, <2>1, <2>3 DEF At
      <4>4. \A t \in Slots : At(t, "file.dump") => req'[t] = req[t]
        BY <1>1, <2>3 DEF At
      <4> QED BY <4>1, <4>2, <4>3, <4>4 DEF Accounted, DumpIsFresh, GoesWith
    <3> QED BY <3>1, <3>2
  <2> QED BY <2>2, <2>4, <2>5, <2>6 DEF FileInv
<1>4. CASE ~saves
  <2>1. req' = req /\ unsaved' = unsaved \cup (ks \cap SavedKinds)
    BY <1>4 DEF Changed
  <2>2. FileType' /\ OneSaves'
    BY <1>1, <2>1 DEF FileType, OneSaves, At
  <2>3. ASSUME NEW l \in SavedKinds \ unsaved'
        PROVE  Accounted(l)'
    <3>1. mem'[l] = mem[l] /\ Accounted(l)
      BY <1>1, <1>2, <2>1, <2>3
    <3> QED BY <2>1, <3>1 DEF Accounted, DumpIsFresh, GoesWith, At
  <2> QED BY <2>2, <2>3 DEF FileInv
<1> QED BY <1>3, <1>4

\* No request, an empty file and nothing in memory, or a process that has read
\* back the file.
JustLoaded ==
    /\ req = [s \in Slots |-> Idle]
    /\ disk \in [SavedKinds -> AnyRow]
    /\ mem = [k \in Kinds |-> IF k \in SavedKinds THEN disk[k] ELSE None]
    /\ slugIndex = SlugsOf(mem)
    /\ lock = None
    /\ unsaved = {}

\* Such a process is in order.
LEMMA LoadsInOrder == JustLoaded => FileInv
<1> SUFFICES ASSUME JustLoaded PROVE FileInv
  OBVIOUS
<1> USE DEF JustLoaded
<1>1. \A s \in Slots : req[s].at = "idle"
  BY DEF Idle
<1>2. FileType
  <2>1. req \in [Slots -> FileHandlers]
    BY DEF FileHandlers
  <2>2. mem \in [Kinds -> AnyRow]
    BY NoneIsARow
  <2> QED BY <2>1, <2>2 DEF FileType
<1>3. OneSaves
  BY <1>1, FileStoreAssumption DEF OneSaves, At
<1>4. ASSUME NEW k \in SavedKinds
      PROVE  Accounted(k)
  BY <1>1 DEF Accounted, At, SavedKinds
<1> QED BY <1>2, <1>3, <1>4 DEF FileInv

\* That is how a process without a file starts.
LEMMA FileInvInit ==
    ASSUME RequestsInit, FileStoreInit
    PROVE  FileInv
<1>1. "tenant" \in Kinds
  BY FileStoreAssumption
<1>2. JustLoaded
  <2>1. disk = [k \in SavedKinds |-> None] /\ mem = [k \in Kinds |-> None]
    BY DEF FileStoreInit, Empty
  <2>2. disk \in [SavedKinds -> AnyRow]
    BY <2>1, NoneIsARow
  <2>3. mem = [k \in Kinds |-> IF k \in SavedKinds THEN disk[k] ELSE None]
    BY <2>1
  <2>4. slugIndex = SlugsOf(mem)
    BY <1>1, <2>1 DEF FileStoreInit, SlugsOf
  <2> QED BY <2>2, <2>3, <2>4 DEF JustLoaded, RequestsInit, FileStoreInit
<1> QED BY <1>2, LoadsInOrder

\* Every step of the file store keeps the invariant.
LEMMA FileInvStep ==
    ASSUME FileInv, [FileStoreNext]_<<req, fileVars>>
    PROVE  FileInv'
<1>0. /\ FileType /\ OneSaves /\ slugIndex = SlugsOf(mem)
      /\ \A l \in SavedKinds \ unsaved : Accounted(l)
      /\ \A s \in Slots : req[s] \in FileHandlers
      /\ SavedKinds \subseteq Kinds
  BY DEF FileInv, FileType, SavedKinds
<1>1. CASE UNCHANGED <<req, fileVars>>
  BY <1>1 DEF fileVars, FileInv, FileType, OneSaves, Accounted, DumpIsFresh, GoesWith, At,
              SlugsOf
<1>2. ASSUME NEW s \in Slots, NEW k \in Kinds, NEW v \in Contents[k], Put(s, k, v)
      PROVE  FileInv'
  <2>1. v # None /\ v \in AnyRow
    BY FileStoreAssumption DEF AnyRow
  <2>2. /\ mem' = [mem EXCEPT ![k] = v] /\ UNCHANGED <<disk, lock>>
        /\ Changed(s, k, {k}, k \in SavedKinds)
        /\ slugIndex' = IF k = "tenant" THEN (slugIndex \ SlugsOf(mem)) \cup {v} ELSE slugIndex
    BY <1>2 DEF Put
  <2>3. mem' \in [Kinds -> AnyRow] /\ \A l \in Kinds \ {k} : mem'[l] = mem[l]
    BY <1>0, <2>1, <2>2 DEF FileType
  <2>4. slugIndex' = SlugsOf(mem')
    BY <1>0, <2>1, <2>2, FileStoreAssumption DEF FileType, SlugsOf
  <2>5. {k} \subseteq GoesWith(k) /\ (k \in SavedKinds) \in BOOLEAN
    BY DEF GoesWith
  <2> QED BY <2>2, <2>3, <2>4, <2>5, CallStep
<1>3. ASSUME NEW s \in Slots, NEW k \in Kinds, Delete(s, k)
      PROVE  FileInv'
  <2>1. /\ mem' = [l \in Kinds |-> IF l \in GoesWith(k) THEN None ELSE mem[l]]
        /\ Changed(s, k, GoesWith(k), k \in SavingDeletes) /\ UNCHANGED <<disk, lock>>
        /\ slugIndex' = IF k = "tenant" THEN slugIndex \ SlugsOf(mem) ELSE slugIndex
    BY <1>3 DEF Delete
  <2>2. mem' \in [Kinds -> AnyRow] /\ \A l \in Kinds \ GoesWith(k) : mem'[l] = mem[l]
    BY <1>0, <2>1, NoneIsARow DEF FileType
  <2>3. "tenant" \in GoesWith(k) <=> k = "tenant"
    BY DEF GoesWith
  <2>4. slugIndex' = SlugsOf(mem')
    BY <1>0, <2>1, <2>3, FileStoreAssumption DEF SlugsOf
  <2>5. (k \in SavingDeletes) \in BOOLEAN
    OBVIOUS
  <2> QED BY <2>1, <2>2, <2>4, <2>5, CallStep
<1>4. ASSUME NEW s \in Slots, Lock(s)
      PROVE  FileInv'
  <2>1. PICK r : r = [at |-> "file.dump", kind |-> req[s].kind, payload |-> Nothing]
    OBVIOUS
  <2>2. /\ req' = [req EXCEPT ![s] = r] /\ lock' = s /\ lock = None /\ req[s].at = "file.save"
        /\ UNCHANGED <<mem, slugIndex, disk, unsaved>>
    BY <1>4, <2>1 DEF Lock, Become, At
  <2>3. r \in FileHandlers
    BY <1>0, <2>1, <2>2, FileHandlersAreTyped, NothingIsAPayload DEF FileHandlers
  <2>4. /\ req' \in [Slots -> FileHandlers] /\ req'[s] = r
        /\ \A t \in Slots \ {s} : req'[t] = req[t]
    BY <1>0, <2>2, <2>3, FileMoves
  <2>5. \A t \in Slots : ~At(t, "file.dump")
    BY <1>0, <2>2, FileStoreAssumption DEF OneSaves
  <2>6. FileType'
    BY <1>0, <2>2, <2>4 DEF FileType
  <2>7. OneSaves'
    BY <2>1, <2>2, <2>4, <2>5 DEF OneSaves, At
  <2>8. ASSUME NEW l \in SavedKinds \ unsaved
        PROVE  Accounted(l)'
    <3>1. At(s, "file.dump")' /\ DumpIsFresh(s, l)' /\ req'[s].kind = req[s].kind
      BY <2>1, <2>4, NothingIsAPayload DEF At, DumpIsFresh
    <3>2. \A t \in Slots \ {s} : ~At(t, "file.dump")'
      BY <2>4, <2>5 DEF At
    <3>3. CASE \E t \in Slots : At(t, "file.save") /\ l \in GoesWith(req[t].kind)
      <4>1. PICK t \in Slots : At(t, "file.save") /\ l \in GoesWith(req[t].kind)
        BY <3>3
      <4>2. CASE t = s
        BY <3>1, <4>1, <4>2 DEF Accounted, GoesWith
      <4>3. CASE t # s
        BY <2>4, <4>1, <4>3 DEF Accounted, GoesWith, At
      <4> QED BY <4>2, <4>3
    <3>4. CASE disk[l] = mem[l]
      BY <2>2, <3>1, <3>2, <3>4 DEF Accounted
    <3> QED BY <1>0, <2>5, <3>3, <3>4 DEF Accounted
  <2> QED BY <1>0, <2>2, <2>6, <2>7, <2>8 DEF FileInv
<1>5. ASSUME NEW s \in Slots, Dump(s)
      PROVE  FileInv'
  <2>1. PICK k \in SavedKinds \ DOMAIN req[s].payload :
            Become(s, [at |-> "file.dump", kind |-> req[s].kind,
                       payload |-> [l \in DOMAIN req[s].payload \cup {k} |->
                                        IF l = k THEN mem[k] ELSE req[s].payload[l]]])
    BY <1>5 DEF Dump
  <2>2. PICK payload : payload = [l \in DOMAIN req[s].payload \cup {k} |->
                                    IF l = k THEN mem[k] ELSE req[s].payload[l]]
    OBVIOUS
  <2>3. PICK r : r = [at |-> "file.dump", kind |-> req[s].kind, payload |-> payload]
    OBVIOUS
  <2>4. /\ req' = [req EXCEPT ![s] = r] /\ req[s].at = "file.dump" /\ UNCHANGED fileVars
    BY <1>5, <2>1, <2>2, <2>3 DEF Dump, Become, At
  <2>5. payload \in Payloads
    <3>1. req[s].payload \in Payloads
      BY <1>0, <2>4, FileHandlersAreTyped
    <3>2. payload \in [DOMAIN req[s].payload \cup {k} -> AnyRow]
      BY <1>0, <2>2, <3>1, PayloadFacts DEF FileType
    <3>3. DOMAIN req[s].payload \cup {k} \in SUBSET SavedKinds
      BY <3>1, PayloadFacts
    <3> QED BY <3>2, <3>3 DEF Payloads
  <2>6. r \in FileHandlers
    BY <1>0, <2>3, <2>4, <2>5, FileHandlersAreTyped DEF FileHandlers
  <2>7. /\ req' \in [Slots -> FileHandlers] /\ req'[s] = r
        /\ \A t \in Slots \ {s} : req'[t] = req[t]
    BY <1>0, <2>4, <2>6, FileMoves
  <2>8. \A t \in Slots : req'[t].at = req[t].at /\ (At(t, "file.save") => req'[t] = req[t])
    BY <2>3, <2>4, <2>7 DEF At
  <2>9. FileType' /\ OneSaves'
    BY <1>0, <2>4, <2>7, <2>8 DEF FileType, OneSaves, At, fileVars
  <2>10. ASSUME NEW l \in SavedKinds \ unsaved
         PROVE  Accounted(l)'
    <3>1. \A t \in Slots : DumpIsFresh(t, l) => DumpIsFresh(t, l)'
      <4>1. DumpIsFresh(s, l) => DumpIsFresh(s, l)'
        BY <2>2, <2>3, <2>4, <2>7 DEF DumpIsFresh, fileVars
      <4> QED BY <2>4, <2>7, <4>1 DEF DumpIsFresh, fileVars
    <3>2. \A t \in Slots : At(t, "file.dump") => req'[t].kind = req[t].kind
      BY <2>3, <2>7
    <3>3. disk' = disk /\ mem' = mem
      BY <2>4 DEF fileVars
    <3> QED BY <1>0, <2>8, <2>10, <3>1, <3>2, <3>3 DEF Accounted, GoesWith, At
  <2> QED BY <1>0, <2>4, <2>9, <2>10 DEF FileInv, fileVars, SlugsOf
<1> DEFINE Ends(s) ==
        /\ req' = [req EXCEPT ![s] = Idle] /\ req[s].at = "file.dump"
        /\ lock' = None /\ UNCHANGED <<mem, slugIndex>>
<1>6. ASSUME NEW s \in Slots, Ends(s)
      PROVE  /\ req' \in [Slots -> FileHandlers]
             /\ \A t \in Slots \ {s} : req'[t] = req[t]
             /\ OneSaves' /\ slugIndex' = SlugsOf(mem')
             /\ \A t \in Slots : ~At(t, "file.dump")'
             /\ \A t \in Slots : At(t, "file.dump") => t = s
  <2>1. Idle \in FileHandlers /\ Idle.at = "idle"
    BY DEF FileHandlers, Idle
  <2>2. /\ req' \in [Slots -> FileHandlers] /\ req'[s] = Idle
        /\ \A t \in Slots \ {s} : req'[t] = req[t]
    BY <1>0, <1>6, <2>1, FileMoves
  <2>3. \A t \in Slots : At(t, "file.dump") => t = s
    BY <1>0, <1>6 DEF OneSaves, At
  <2>4. \A t \in Slots : ~At(t, "file.dump")'
    BY <2>1, <2>2, <2>3 DEF At
  <2>5. OneSaves'
    BY <1>6, <2>4, FileStoreAssumption DEF OneSaves
  <2> QED BY <1>0, <1>6, <2>2, <2>3, <2>4, <2>5 DEF SlugsOf
<1>7. ASSUME NEW s \in Slots, Replace(s)
      PROVE  FileInv'
  <2>1. /\ Ends(s) /\ disk' = req[s].payload /\ DOMAIN req[s].payload = SavedKinds
        /\ unsaved' = {k \in unsaved : req[s].payload[k] # mem[k]}
    BY <1>7 DEF Replace, Return, At
  <2> HIDE DEF Ends
  <2>2. req[s].payload \in [SavedKinds -> AnyRow] /\ req[s].at = "file.dump"
    <3>1. req[s].payload \in Payloads /\ req[s].at = "file.dump"
      BY <1>0, <2>1, FileHandlersAreTyped DEF Ends
    <3> QED BY <2>1, <3>1, PayloadFacts
  <2>3. FileType'
    BY <1>0, <1>6, <2>1, <2>2 DEF FileType, Ends
  <2>4. ASSUME NEW l \in SavedKinds \ unsaved'
        PROVE  Accounted(l)'
    <3>1. CASE disk'[l] = mem'[l]
      BY <1>6, <2>1, <3>1 DEF Accounted
    <3>2. CASE disk'[l] # mem'[l]
      <4>1. ~DumpIsFresh(s, l) /\ l \notin unsaved
        BY <2>1, <2>4, <3>2 DEF DumpIsFresh, Ends
      <4>2. At(s, "file.dump")
        BY <2>2 DEF At
      <4>3. PICK t \in Slots : At(t, "file.save") /\ l \in GoesWith(req[t].kind)
        BY <1>0, <1>6, <2>1, <2>4, <4>1, <4>2 DEF Accounted
      <4>4. t # s /\ req'[t] = req[t]
        BY <1>6, <2>1, <2>2, <4>3 DEF At
      <4> QED BY <4>3, <4>4 DEF Accounted, GoesWith, At
    <3> QED BY <3>1, <3>2
  <2> QED BY <1>6, <2>1, <2>3, <2>4 DEF FileInv
<1>8. ASSUME NEW s \in Slots, SaveRaises(s)
      PROVE  FileInv'
  <2>1. /\ Ends(s) /\ disk' = disk
        /\ unsaved' = unsaved \cup (GoesWith(req[s].kind) \cap SavedKinds)
    BY <1>8 DEF SaveRaises, Return, At
  <2>2. mem' = mem /\ req[s].at = "file.dump" /\ lock' = None
    BY <2>1
  <2> HIDE DEF Ends
  <2>3. FileType'
    BY <1>0, <1>6, <2>1, <2>2 DEF FileType
  <2>4. ASSUME NEW l \in SavedKinds \ unsaved'
        PROVE  Accounted(l)'
    <3>1. l \notin GoesWith(req[s].kind) /\ Accounted(l)
      BY <1>0, <2>1, <2>4
    <3>2. CASE \E t \in Slots : At(t, "file.save") /\ l \in GoesWith(req[t].kind)
      <4>1. PICK t \in Slots : At(t, "file.save") /\ l \in GoesWith(req[t].kind)
        BY <3>2
      <4>2. t # s /\ req'[t] = req[t]
        BY <1>6, <2>1, <2>2, <4>1 DEF At
      <4> QED BY <4>1, <4>2 DEF Accounted, GoesWith, At
    <3>3. CASE disk[l] = mem[l]
      BY <1>6, <2>1, <2>2, <3>3 DEF Accounted
    <3> QED BY <1>6, <2>1, <3>1, <3>2, <3>3 DEF Accounted
  <2> QED BY <1>6, <2>1, <2>3, <2>4 DEF FileInv
<1>9. CASE Restart
  <2>1. JustLoaded'
    <3>1. disk \in [SavedKinds -> AnyRow]
      BY <1>0 DEF FileType
    <3>2. "tenant" \in SavedKinds /\ "tenant" \in Kinds
      BY FileStoreAssumption, TenantsAreSaved
    <3>3. mem' = [k \in Kinds |-> IF k \in SavedKinds THEN disk'[k] ELSE None]
      BY <1>9, <3>1 DEF Restart
    <3>4. slugIndex' = SlugsOf(mem')
      BY <1>9, <3>2, <3>3 DEF Restart, SlugsOf
    <3> QED BY <1>9, <3>1, <3>3, <3>4 DEF Restart, JustLoaded
  <2>2. JustLoaded' => FileInv'
    BY LoadsInOrder, PTL
  <2> QED BY <2>1, <2>2
<1> QED
  BY <1>1, <1>2, <1>3, <1>4, <1>5, <1>7, <1>8, <1>9 DEF FileStoreNext

(***************************************************************************)
(* Tenants                                                                 *)
(***************************************************************************)
SluggedRows == [slug : Slugs, base : SlugBases]
Thens == {"copy", "answer"}
PurgedRows == {"meta", "config", "work"} \cup Users

\* Handlers that write the META and SLUG rows of a tenant.
RenameSteps == {"tenant.put", "tenant.unslug", "tenant.meta", "tenant.slug"}

RenameHandlers ==
    [at : {"tenant.put"}, t : TenantIds, then : Thens, row : SluggedRows]
    \cup [at : {"tenant.unslug", "tenant.meta", "tenant.slug"}, t : TenantIds, then : Thens,
          row : SluggedRows, old : MetaRows \cup {None}, previous : Slugs \cup {None}]

\* Handlers that read and write the LLM configurations.
ReadingHandlers ==
    [at : {"llm.read", "llm.init"}, then : {"answer"}]
    \cup [at : {"llm.read", "llm.init"}, then : {"update"}, config : Configs]
    \cup [at : {"llm.read", "llm.init"}, then : {"copy", "own"}, t : TenantIds]

BaselineHandlers == [at : {"llm.update"}, read : Baselines, config : Configs]

ConfigHandlers ==
    [at : {"llm.put"}, t : TenantIds, read : ConfigRows \cup {None},
     base : Baselines \cup {None}, row : ConfigRows]

SetupHandlers ==
    {Idle} \cup RenameHandlers \cup ReadingHandlers \cup BaselineHandlers \cup ConfigHandlers

\* Handlers of people, their work and the purge.
PurgeHandlers ==
    {Idle}
    \cup [at : {"join.member"}, t : TenantIds, u : Users]
    \cup [at : {"work.put"}, t : TenantIds]
    \cup [at : {"purge.emails", "purge.users", "purge.query"}, t : TenantIds,
          emails : SUBSET Users, users : SUBSET Users]
    \cup [at : {"purge.rows", "purge.people", "purge.accounts"}, t : TenantIds,
          emails : SUBSET Users, users : SUBSET Users, rows : SUBSET PurgedRows]

TenantRowsType ==
    /\ metas \in [TenantIds -> MetaRows \cup {None}]
    /\ slugs \in [Slugs -> TenantIds \cup {None}]
    /\ made \in SUBSET TenantIds
    /\ baseline \in Baselines \cup {None}
    /\ configs \in [TenantIds -> ConfigRows \cup {None}]
    /\ published \in [1 .. MaxVersion -> Configs \cup {None}]

PurgeRowsType ==
    /\ members \in [TenantIds -> SUBSET Users]
    /\ profiles \in SUBSET Users /\ logins \in SUBSET Users
    /\ work \in SUBSET TenantIds /\ pending \in SUBSET TenantIds

RenamingOf(s, t) == req[s].at \in RenameSteps /\ req[s].t = t

\* A rename gives up the slug that the META row has had, unless it has missed it.
FoundOld(r) ==
    /\ r.at \in {"tenant.unslug", "tenant.meta", "tenant.slug"} =>
        "slugs" \in torn \/ r.previous = GivenUp(r.old, r.row)
    /\ r.at = "tenant.unslug" => r.previous # None /\ r.previous # r.row.slug

OldSlugs == \A s \in Slots : FoundOld(req[s])

\* A tenant that is being created has no META row before its own handler puts
\* it, and no other handler; all others have found a META row.
CreationsAreAlone ==
    /\ Known \subseteq made
    /\ \A s \in Slots : req[s].at \in RenameSteps =>
        /\ req[s].t \in made
        /\ req[s].then = "answer" \/ req[s].at = "tenant.slug" => req[s].t \in Known
        /\ req[s].then = "copy" /\ req[s].at # "tenant.slug" =>
            /\ req[s].t \notin Known
            /\ \A x \in Slots \ {s} : ~RenamingOf(x, req[s].t)
    /\ \A x \in Slugs : slugs[x] # None => slugs[x] \in Known

\* At a meta row, the slug given up leads elsewhere already.
SlugsInStep ==
    /\ \A t, u \in Known : t # u /\ metas[t].slug # None => metas[t].slug # metas[u].slug
    /\ \A t \in Known : metas[t].slug # None =>
        \/ slugs[metas[t].slug] = t
        \/ \E s \in Slots : /\ req[s].at = "tenant.slug" /\ req[s].t = t
                            /\ req[s].row = metas[t]
        \/ \E s \in Slots : /\ req[s].at = "tenant.meta" /\ req[s].t = t
                            /\ req[s].previous = metas[t].slug
                            /\ req[s].row.slug # req[s].previous
    /\ \A x \in Slugs : slugs[x] \in Known => metas[slugs[x]].slug = x
    /\ \A s \in Slots : req[s].at = "tenant.meta" /\ req[s].previous # None
                        /\ req[s].previous # req[s].row.slug =>
            slugs[req[s].previous] # req[s].t

SlugsInOrder == "slugs" \notin torn => SlugsInStep

\* A configuration that was copied from a published version of the baseline.
Published(row) ==
    /\ baseline # None
    /\ row.version <= baseline.version
    /\ row.config \in {"own", published[row.version]}

CopiesInStep ==
    /\ \A t \in TenantIds : configs[t] # None => Published(configs[t])
    /\ \A s \in Slots : req[s].at = "llm.put" => Published(req[s].row)

BaselineIsPublished == baseline # None => published[baseline.version] = baseline.config

CopiesInOrder == "baseline" \notin torn => CopiesInStep /\ BaselineIsPublished

\* An update of a tenant keeps the version of what it has found.
PutFits(r) ==
    r.at = "llm.put" => \/ r.base # None /\ r.row.version = r.base.version
                        \/ /\ r.row.config = "own" /\ r.read # None
                           /\ r.row.version = r.read.version

PutsInStep == \A s \in Slots : PutFits(req[s])

\* Nothing is stored of a tenant that is not known.
UnknownIsEmpty == \A t \in TenantIds \ (Known \cup torn) : configs[t] = None

ConfigsInOrder == CopiesInOrder /\ PutsInStep /\ UnknownIsEmpty

IsPlatform(t) == t \in Known /\ metas[t].slug = PlatformSlug

\* Who puts an older version than the baseline has then tears the tenant.
Copying(s, t) ==
    \/ req[s].at \in {"llm.read", "llm.init"} /\ req[s].then = "copy" /\ req[s].t = t
    \/ /\ req[s].at = "llm.put" /\ req[s].t = t
       /\ req[s].base # None /\ req[s].row.version = req[s].base.version

\* t has the newest configuration or is about to get it.
Current(t) ==
    \/ "baseline" \in torn \/ "platform" \in torn \/ t \in torn
    \/ configs[t] # None /\ baseline # None /\ configs[t].version = baseline.version
    \/ \E s \in Slots : Copying(s, t)

\* Who has the slug of the platform keeps it, and nobody gets it but a new
\* tenant: unless the Platform tenant was missed.
KeepsPlatform(r) ==
    /\ IsPlatform(r.t) => r.row.slug = PlatformSlug
    /\ r.row.slug = PlatformSlug =>
        IsPlatform(r.t) \/ (r.then = "copy" /\ r.at # "tenant.slug")

PlatformIsProtected ==
    /\ slugs[PlatformSlug] \in Known => IsPlatform(slugs[PlatformSlug])
    /\ \A s \in Slots : req[s].at \in RenameSteps => KeepsPlatform(req[s])

PlatformKeepsSlug ==
    /\ \A t \in Known : metas[t].slug = None => metas[t].base # PlatformBase
    /\ "platform" \notin torn => PlatformIsProtected

\* Two tenants have got the slug of the platform: whoever is late is torn.
Doubled(t) == \E u \in Known \ {t} : IsPlatform(u)

\* A handler that puts the slug of the platform once more, and copies nothing.
Reputs(r) == r.at \in RenameSteps /\ r.then = "answer" /\ r.row.slug = PlatformSlug

Awaits(r) == Reputs(r) => Current(r.t) \/ (r.at # "tenant.slug" /\ Doubled(r.t))

PlatformIsCurrent ==
    /\ slugs[PlatformSlug] \in Known => Current(slugs[PlatformSlug])
    /\ \A s \in Slots : Awaits(req[s])

\* Renames by a PATCH and updates of the baseline are not mixed.
Permitted(updates, r) ==
    IF updates THEN ~Reputs(r)
    ELSE /\ ~(r.at \in {"llm.read", "llm.init"} /\ r.then = "update")
         /\ r.at # "llm.update"

PlatformInOrder(updates) ==
    PlatformIsCurrent /\ \A s \in Slots : Permitted(updates, req[s])

SetupType == req \in [Slots -> SetupHandlers] /\ TenantRowsType

RenamesInOrder == OldSlugs /\ CreationsAreAlone /\ SlugsInOrder /\ PlatformKeepsSlug

NoPeople ==
    /\ \A t \in TenantIds : members[t] = {}
    /\ profiles = {} /\ logins = {} /\ work = {} /\ pending = {}

SetupInv(updates) ==
    SetupType /\ RenamesInOrder /\ ConfigsInOrder /\ PlatformInOrder(updates) /\ NoPeople

\* What is stored under the key of a tenant.
Stored(t) ==
    {x \in {"meta", "config", "work"} :
        \/ x = "meta" /\ t \in Known
        \/ x = "config" /\ configs[t] # None
        \/ x = "work" /\ t \in work} \cup members[t]

AccountSteps == {"purge.people", "purge.accounts"}

\* The rows that a purge has found are all there are, and when it has come to
\* the people there are none: unless the tenant is torn.
SeesAll(r) ==
    /\ r.at = "purge.rows" /\ r.t \notin torn => Stored(r.t) \subseteq r.rows
    /\ r.at \in AccountSteps /\ r.t \notin torn => Stored(r.t) = {}

PurgesSeeAll ==
    /\ \A s \in Slots : SeesAll(req[s])
    /\ \A t \in TenantIds \ (Known \cup torn) :
        \/ Stored(t) = {}
        \/ \E s \in Slots : req[s].at = "purge.rows" /\ req[s].t = t

\* What a handler is about to do to a person.
Joins(r, u) == r.at = "join.member" /\ r.u = u
Lists(r, u) == r.at \in PurgeSteps /\ u \in r.users \cup r.emails
DropsProfile(r, u) == r.at \in {"purge.rows", "purge.people"} /\ u \in r.users
DropsLogin(r, u) == r.at \in {"purge.rows"} \cup AccountSteps /\ u \in r.emails

Member(u) == \E t \in TenantIds : u \in members[t]

\* One firm.  A member has a profile and an account, and nobody else has, but
\* who joins and who is about to lose them.
OnePerson(u) ==
    /\ \A t, v \in TenantIds : u \in members[t] /\ u \in members[v] => t = v
    /\ Member(u) => u \in profiles /\ u \in logins
    /\ u \in profiles =>
        Member(u) \/ \E s \in Slots : Joins(req[s], u) \/ DropsProfile(req[s], u)
    /\ u \in logins =>
        Member(u) \/ \E s \in Slots : Joins(req[s], u) \/ DropsLogin(req[s], u)

OneJoin(u) ==
    \A s \in Slots : Joins(req[s], u) =>
        /\ u \in profiles /\ u \in logins /\ ~Member(u)
        /\ \A x \in Slots : ~Lists(req[x], u)
        /\ \A x \in Slots \ {s} : ~Joins(req[x], u)

\* A purge lists members of its tenant only; a member that it has not deleted
\* yet it has listed wherever it has looked.
Finds(r, u) ==
    r.at \in PurgeSteps =>
        /\ \A v \in TenantIds : u \in members[v] /\ u \in r.users \cup r.emails => r.t = v
        /\ u \in members[r.t] =>
            /\ r.at \notin AccountSteps /\ u \in r.emails
            /\ r.at \in {"purge.query", "purge.rows"} => u \in r.users
            /\ r.at = "purge.rows" => u \in r.rows

PersonInOrder(u) == OnePerson(u) /\ OneJoin(u) /\ \A s \in Slots : Finds(req[s], u)

PeopleInOrder == \A u \in Users \ torn : PersonInOrder(u)

\* The Platform tenant, while no read has missed it.
Protected(t) == "platform" \notin torn /\ IsPlatform(t)

\* The protected tenant is not purged and has the newest configuration.
PlatformStays ==
    /\ \A t \in Known : Protected(t) => /\ configs[t] # None /\ baseline # None
                                        /\ configs[t].version = baseline.version
    /\ \A t \in pending : ~Protected(t)
    /\ \A s \in Slots : req[s].at \in PurgeSteps => ~Protected(req[s].t)

SlugsAtRest ==
    /\ \A t \in Known : metas[t].slug # None => slugs[metas[t].slug] = t
    /\ \A x \in Slugs : slugs[x] \in Known => metas[slugs[x]].slug = x

CopiesAtRest == \A t \in TenantIds : configs[t] # None => Published(configs[t])

\* The rows of a deployment before its first request.
TenantsAtRest ==
    /\ TenantRowsType /\ PurgeRowsType /\ NoPeople /\ torn = {}
    /\ Known \subseteq made
    /\ \A t, u \in Known : t # u /\ metas[t].slug # None => metas[t].slug # metas[u].slug
    /\ \A t \in Known : metas[t].slug = None => metas[t].base # PlatformBase
    /\ SlugsAtRest /\ \A x \in Slugs : slugs[x] # None => slugs[x] \in Known
    /\ CopiesAtRest /\ BaselineIsPublished
    /\ \A t \in TenantIds \ Known : configs[t] = None
    /\ \A t \in Known : IsPlatform(t) => /\ configs[t] # None /\ baseline # None
                                         /\ configs[t].version = baseline.version

PurgeType ==
    /\ req \in [Slots -> PurgeHandlers]
    /\ TenantRowsType /\ PurgeRowsType
    /\ Known \subseteq made

RowsAtRest == SlugsAtRest /\ CopiesAtRest /\ PlatformStays

PurgeInv == PurgeType /\ RowsAtRest /\ PurgesSeeAll /\ PeopleInOrder

-----------------------------------------------------------------------------
\* A handler that goes on to another step of the set up is a handler there; the
\* other slots keep theirs.
LEMMA SetupMoves ==
    ASSUME req \in [Slots -> SetupHandlers], NEW s \in Slots, NEW r \in SetupHandlers,
           Become(s, r)
    PROVE  /\ req' \in [Slots -> SetupHandlers]
           /\ req'[s] = r
           /\ \A z \in Slots \ {s} : req'[z] = req[z]
BY DEF Become

\* Where a handler is tells what it knows.
LEMMA SetupHandlersKnow ==
    ASSUME req \in [Slots -> SetupHandlers], NEW s \in Slots
    PROVE  /\ At(s, "tenant.put") =>
                req[s] \in [at : {"tenant.put"}, t : TenantIds, then : Thens, row : SluggedRows]
           /\ req[s].at \in {"tenant.unslug", "tenant.meta", "tenant.slug"} =>
                req[s] \in [at : {"tenant.unslug", "tenant.meta", "tenant.slug"}, t : TenantIds,
                            then : Thens, row : SluggedRows, old : MetaRows \cup {None},
                            previous : Slugs \cup {None}]
           /\ req[s].at \in {"llm.read", "llm.init"} => req[s] \in ReadingHandlers
           /\ At(s, "llm.update") => req[s] \in BaselineHandlers
           /\ At(s, "llm.put") => req[s] \in ConfigHandlers
           /\ req[s].at \notin PurgeSteps \cup {"join.member", "work.put"}
BY DEF SetupHandlers, RenameHandlers, ReadingHandlers, BaselineHandlers, ConfigHandlers, Idle, At,
       PurgeSteps

\* The handlers of renames know their tenant, what it is for and the new row.
LEMMA RenamesKnow ==
    ASSUME req \in [Slots -> SetupHandlers], NEW s \in Slots, req[s].at \in RenameSteps
    PROVE  /\ req[s] \in RenameHandlers
           /\ req[s].t \in TenantIds /\ req[s].then \in Thens /\ req[s].row \in SluggedRows
<1>1. req[s].at \in {"tenant.put", "tenant.unslug", "tenant.meta", "tenant.slug"}
  BY DEF RenameSteps
<1> QED BY <1>1, SetupHandlersKnow DEF At, RenameHandlers

\* A row with a slug is a META row.
LEMMA SluggedIsMeta ==
    ASSUME NEW row \in SluggedRows
    PROVE  /\ row \in MetaRows /\ row # None
           /\ row.slug \in Slugs /\ row.slug # None /\ row.base \in SlugBases
BY TenantsAssumption DEF SluggedRows, MetaRows

\* The id that is left is enough: unique_slug finds a number that is free when
\* some tenant has no slug.
LEMMA SlugIsFree ==
    ASSUME metas \in [TenantIds -> MetaRows \cup {None}], NEW b \in SlugBases,
           NEW t \in TenantIds, t \in Known => metas[t].slug = None
    PROVE  /\ UniqueSlug(b, KnownSlugs) \in Slugs
           /\ UniqueSlug(b, KnownSlugs) \notin KnownSlugs
           /\ UniqueSlug(b, KnownSlugs)[1] = b
<1> DEFINE N == Cardinality(TenantIds)
           free == {n \in 1 .. (N + 1) : <<b, n>> \notin KnownSlugs}
           least == Min(free)
<1>1. IsFiniteSet(TenantIds) /\ N \in Nat
  BY TenantsAssumption, FS_CardinalityType
<1>2. /\ IsFiniteSet(TenantIds \ {t}) /\ Cardinality(TenantIds \ {t}) = N - 1
  BY <1>1, FS_RemoveElement
<1>3. N >= 1
  BY <1>1, <1>2, FS_CardinalityType
<1>4. \E n \in 1 .. N : <<b, n>> \notin KnownSlugs
  <2> SUFFICES ASSUME \A n \in 1 .. N : <<b, n>> \in KnownSlugs PROVE FALSE
    OBVIOUS
  <2>1. \A n \in 1 .. N : \E u \in TenantIds \ {t} : metas[u].slug = <<b, n>>
    <3> SUFFICES ASSUME NEW n \in 1 .. N
                 PROVE  \E u \in TenantIds \ {t} : metas[u].slug = <<b, n>>
      OBVIOUS
    <3>1. <<b, n>> # None
      BY TenantsAssumption DEF Slugs, SlugNumbers
    <3> QED BY <3>1 DEF KnownSlugs, Known
  <2> DEFINE f == [n \in 1 .. N |-> CHOOSE u \in TenantIds \ {t} : metas[u].slug = <<b, n>>]
  <2>2. \A n \in 1 .. N : f[n] \in TenantIds \ {t} /\ metas[f[n]].slug = <<b, n>>
    BY <2>1
  <2>3. f \in [1 .. N -> TenantIds \ {t}]
    BY <2>2
  <2> HIDE DEF f
  <2>4. IsFiniteSet(1 .. N) /\ Cardinality(1 .. N) = N
    BY <1>1, <1>3, FS_Interval
  <2>5. PICK i, j \in 1 .. N : i # j /\ f[i] = f[j]
    <3> DEFINE holes == TenantIds \ {t}
               pigeons == 1 .. N
    <3>1. /\ IsFiniteSet(pigeons) /\ IsFiniteSet(holes) /\ f \in [pigeons -> holes]
          /\ Cardinality(holes) < Cardinality(pigeons)
      BY <1>1, <1>2, <2>3, <2>4
    <3> HIDE DEF holes, pigeons
    <3>2. \E i, j \in pigeons : i # j /\ f[i] = f[j]
      BY <3>1, FS_PigeonHole
    <3> QED BY <3>2 DEF pigeons
  <2>6. <<b, i>> = <<b, j>>
    BY <2>2, <2>5
  <2> QED BY <2>5, <2>6
<1>5. free \in SUBSET Nat /\ free # {}
  BY <1>1, <1>4
<1>6. \E m \in free : \A n \in free : m <= n
  <2>1. PICK m \in free : \A n \in free : <<n, m>> \notin OpToRel(<, Nat)
    BY <1>5, NatLessThanWellFounded, WFMin
  <2>2. \A n \in free : ~(n < m)
    BY <1>5, <2>1 DEF OpToRel
  <2> QED BY <1>5, <2>2
<1>7. least \in free /\ \A n \in free : least <= n
  BY <1>6 DEF Min
<1>8. least \in 1 .. N
  <2>1. PICK n \in 1 .. N : <<b, n>> \notin KnownSlugs
    BY <1>4
  <2>2. n \in free
    BY <2>1, <1>1
  <2>3. least <= n /\ least \in 1 .. (N + 1)
    BY <1>7, <2>2
  <2> QED BY <1>1, <2>3
<1>9. UniqueSlug(b, KnownSlugs) = <<b, least>>
  BY DEF UniqueSlug
<1> HIDE DEF least
<1>10. <<b, least>> \notin KnownSlugs
  BY <1>7
<1> QED BY <1>8, <1>9, <1>10 DEF Slugs, SlugNumbers

\* The slug of the platform is one, as soon as there may be a tenant.
LEMMA PlatformSlugIsASlug == TenantIds # {} => PlatformSlug \in Slugs
<1> SUFFICES ASSUME TenantIds # {} PROVE PlatformSlug \in Slugs
  OBVIOUS
<1>1. Cardinality(TenantIds) \in Nat /\ Cardinality(TenantIds) # 0
  BY TenantsAssumption, FS_CardinalityType, FS_EmptySet
<1> QED BY <1>1, TenantsAssumption DEF PlatformSlug, Slugs, SlugNumbers

\* The slugs that handlers have taken from the rows and not yet put back.
Holds(r) ==
    \/ r.at = "tenant.slug"
    \/ r.at = "tenant.meta" /\ r.previous # None /\ r.previous # r.row.slug

\* A step of a handler that holds no slug, before or after, leaves the slugs
\* in order.
LEMMA QuietSlugStep ==
    ASSUME SetupType, SlugsInOrder, NEW s \in Slots, NEW r \in SetupHandlers, Become(s, r),
           UNCHANGED <<metas, slugs>>, torn \subseteq torn', ~Holds(req[s]), ~Holds(r)
    PROVE  SlugsInOrder'
<1> SUFFICES ASSUME "slugs" \notin torn' PROVE SlugsInStep'
  BY DEF SlugsInOrder
<1>1. SlugsInStep
  BY DEF SlugsInOrder
<1>2. req'[s] = r /\ \A z \in Slots \ {s} : req'[z] = req[z]
  BY SetupMoves DEF SetupType
<1>3. Known' = Known
  BY DEF Known
<1>4. \A t \in Known' : metas'[t].slug # None =>
        \/ slugs'[metas'[t].slug] = t
        \/ \E z \in Slots : /\ req'[z].at = "tenant.slug" /\ req'[z].t = t
                            /\ req'[z].row = metas'[t]
        \/ \E z \in Slots : /\ req'[z].at = "tenant.meta" /\ req'[z].t = t
                            /\ req'[z].previous = metas'[t].slug
                            /\ req'[z].row.slug # req'[z].previous
  <2> SUFFICES ASSUME NEW t \in Known, metas[t].slug # None, slugs[metas[t].slug] # t
               PROVE  \/ \E z \in Slots : /\ req'[z].at = "tenant.slug" /\ req'[z].t = t
                                          /\ req'[z].row = metas[t]
                      \/ \E z \in Slots : /\ req'[z].at = "tenant.meta" /\ req'[z].t = t
                                          /\ req'[z].previous = metas[t].slug
                                          /\ req'[z].row.slug # req'[z].previous
    BY <1>3
  <2>1. PICK z \in Slots :
            \/ req[z].at = "tenant.slug" /\ req[z].t = t /\ req[z].row = metas[t]
            \/ /\ req[z].at = "tenant.meta" /\ req[z].t = t
               /\ req[z].previous = metas[t].slug /\ req[z].row.slug # req[z].previous
    BY <1>1 DEF SlugsInStep
  <2>2. z # s
    BY <2>1 DEF Holds
  <2> QED BY <1>2, <2>1, <2>2
<1>5. \A z \in Slots : req'[z].at = "tenant.meta" /\ req'[z].previous # None
                       /\ req'[z].previous # req'[z].row.slug =>
            slugs'[req'[z].previous] # req'[z].t
  BY <1>1, <1>2 DEF SlugsInStep, Holds
<1> QED BY <1>1, <1>3, <1>4, <1>5 DEF SlugsInStep

\* What a handler has found of the old row it keeps in mind.
LEMMA OldSlugsKept ==
    ASSUME SetupType, OldSlugs, NEW s \in Slots, NEW r \in SetupHandlers, Become(s, r),
           torn \subseteq torn', FoundOld(r)
    PROVE  OldSlugs'
<1>1. req'[s] = r /\ \A z \in Slots \ {s} : req'[z] = req[z]
  BY SetupMoves DEF SetupType
<1> QED BY <1>1 DEF OldSlugs, FoundOld

\* A step of a handler that renames nothing, or no longer, or goes on with the
\* same tenant for the same purpose, leaves creations alone.
LEMMA CreationsKept ==
    ASSUME SetupType, CreationsAreAlone, NEW s \in Slots, NEW r \in SetupHandlers, Become(s, r),
           UNCHANGED <<metas, made>>,
           \A x \in Slugs : slugs'[x] \in {slugs[x], None} \cup Known,
           r.at \in RenameSteps =>
                /\ req[s].at \in RenameSteps /\ req[s].at # "tenant.slug" /\ r.at # "tenant.slug"
                /\ r.t = req[s].t /\ r.then = req[s].then
    PROVE  CreationsAreAlone'
<1>1. req'[s] = r /\ \A z \in Slots \ {s} : req'[z] = req[z]
  BY SetupMoves DEF SetupType
<1>2. Known' = Known
  BY DEF Known
<1>3. \A z \in Slots : req'[z].at \in RenameSteps =>
        /\ req[z].at \in RenameSteps /\ req'[z].t = req[z].t /\ req'[z].then = req[z].then
        /\ req'[z].at = "tenant.slug" <=> req[z].at = "tenant.slug"
  BY <1>1
<1>4. \A z \in Slots, t \in TenantIds : RenamingOf(z, t)' => RenamingOf(z, t)
  BY <1>3 DEF RenamingOf
<1>5. \A z \in Slots : req'[z].at \in RenameSteps =>
        /\ req'[z].t \in made'
        /\ req'[z].then = "answer" \/ req'[z].at = "tenant.slug" => req'[z].t \in Known'
        /\ req'[z].then = "copy" /\ req'[z].at # "tenant.slug" =>
            /\ req'[z].t \notin Known'
            /\ \A x \in Slots \ {z} : ~RenamingOf(x, req[z].t)'
  <2> SUFFICES ASSUME NEW z \in Slots, req'[z].at \in RenameSteps
               PROVE  /\ req'[z].t \in made'
                      /\ req'[z].then = "answer" \/ req'[z].at = "tenant.slug"
                            => req'[z].t \in Known'
                      /\ req'[z].then = "copy" /\ req'[z].at # "tenant.slug" =>
                            /\ req'[z].t \notin Known'
                            /\ \A x \in Slots \ {z} : ~RenamingOf(x, req[z].t)'
    OBVIOUS
  <2>1. /\ req[z].at \in RenameSteps /\ req'[z].t = req[z].t /\ req'[z].then = req[z].then
        /\ req'[z].at = "tenant.slug" <=> req[z].at = "tenant.slug"
    BY <1>3
  <2>2. req[z].t \in TenantIds
    BY <2>1, RenamesKnow DEF SetupType
  <2> QED BY <1>2, <1>4, <2>1, <2>2 DEF CreationsAreAlone
<1>6. \A z \in Slots : req'[z].at \in RenameSteps => req'[z].t = req[z].t
  BY <1>3
<1> QED BY <1>2, <1>5, <1>6 DEF CreationsAreAlone, RenamingOf

\* A handler that sees to it that the platform keeps its slug.
LEMMA PlatformSlugKept ==
    ASSUME SetupType, PlatformKeepsSlug, NEW s \in Slots, NEW r \in SetupHandlers, Become(s, r),
           UNCHANGED metas, torn \subseteq torn',
           PlatformSlug \in Slugs /\ "platform" \notin torn' =>
                \/ slugs'[PlatformSlug] \in {slugs[PlatformSlug], None}
                \/ IsPlatform(slugs'[PlatformSlug]),
           r.at \in RenameSteps /\ "platform" \notin torn' => KeepsPlatform(r)
    PROVE  PlatformKeepsSlug'
<1>1. req'[s] = r /\ \A z \in Slots \ {s} : req'[z] = req[z]
  BY SetupMoves DEF SetupType
<1>2. Known' = Known /\ None \notin Known
  BY TenantsAssumption DEF Known
<1>3. TenantIds # {} => PlatformSlug \in Slugs
  BY PlatformSlugIsASlug
<1>4. ASSUME "platform" \notin torn'
      PROVE  slugs'[PlatformSlug] \in Known =>
                \/ slugs[PlatformSlug] \in Known /\ slugs'[PlatformSlug] = slugs[PlatformSlug]
                \/ IsPlatform(slugs'[PlatformSlug])
  BY <1>2, <1>3, <1>4 DEF Known
<1>5. ASSUME "platform" \notin torn'
      PROVE  (slugs[PlatformSlug] \in Known => IsPlatform(slugs[PlatformSlug]))'
  BY <1>2, <1>4, <1>5 DEF PlatformKeepsSlug, PlatformIsProtected, IsPlatform
<1>6. ASSUME "platform" \notin torn', NEW z \in Slots, req'[z].at \in RenameSteps
      PROVE  KeepsPlatform(req[z])'
  <2> PICK q \in SetupHandlers : q = req'[z]
    BY SetupMoves DEF SetupType
  <2>1. KeepsPlatform(q)
    BY <1>1, <1>6 DEF PlatformKeepsSlug, PlatformIsProtected
  <2> QED BY <1>2, <2>1 DEF KeepsPlatform, IsPlatform
<1> QED BY <1>2, <1>5, <1>6 DEF PlatformKeepsSlug, PlatformIsProtected

\* Whoever renames no tenant leaves the renames of others in order.
LEMMA NoRenameStep ==
    ASSUME SetupType, RenamesInOrder, NEW s \in Slots, NEW r \in SetupHandlers, Become(s, r),
           UNCHANGED slugVars, torn \subseteq torn',
           Holds(req[s]) => "slugs" \in torn', r.at \notin RenameSteps
    PROVE  RenamesInOrder'
<1> USE DEF slugVars
<1>1. OldSlugs'
  BY OldSlugsKept DEF RenameSteps, RenamesInOrder, FoundOld
<1>2. CreationsAreAlone'
  BY CreationsKept DEF RenamesInOrder
<1>3. SlugsInOrder'
  <2>1. CASE "slugs" \in torn'
    BY <2>1 DEF SlugsInOrder
  <2>2. CASE "slugs" \notin torn'
    <3>1. ~Holds(req[s]) /\ ~Holds(r)
      BY <2>2 DEF Holds, RenameSteps
    <3> QED BY <3>1, QuietSlugStep DEF RenamesInOrder
  <2> QED BY <2>1, <2>2
<1>4. PlatformKeepsSlug'
  BY PlatformSlugKept DEF RenamesInOrder
<1> QED BY <1>1, <1>2, <1>3, <1>4 DEF RenamesInOrder

\* A tenant is created with an id that no row and no handler has.
LEMMA CreationStep ==
    ASSUME SetupType, RenamesInOrder, NEW s \in Slots, NEW t \in TenantIds \ made,
           NEW row \in SluggedRows, made' = made \cup {t}, UNCHANGED <<metas, slugs>>,
           torn \subseteq torn',
           Become(s, [at |-> "tenant.put", t |-> t, then |-> "copy", row |-> row]),
           req[s].at = "idle"
    PROVE  RenamesInOrder'
<1> DEFINE r == [at |-> "tenant.put", t |-> t, then |-> "copy", row |-> row]
<1>1. r \in SetupHandlers
  BY DEF SetupHandlers, RenameHandlers, Thens
<1> HIDE DEF r
<1>2. r.at = "tenant.put" /\ r.t = t /\ r.then = "copy" /\ r.row = row
  BY DEF r
<1>3. req'[s] = r /\ \A z \in Slots \ {s} : req'[z] = req[z]
  BY <1>1, SetupMoves DEF SetupType, r
<1>4. Become(s, r) /\ ~Holds(r) /\ ~Holds(req[s])
  BY <1>2 DEF Holds, r
<1>5. OldSlugs'
  BY <1>1, <1>2, <1>4, OldSlugsKept DEF RenamesInOrder, FoundOld
<1>6. SlugsInOrder'
  BY <1>1, <1>4, QuietSlugStep DEF RenamesInOrder
<1>7. t \notin Known
  BY DEF RenamesInOrder, CreationsAreAlone
<1>8. PlatformKeepsSlug'
  <2>1. KeepsPlatform(r)
    BY <1>2, <1>7 DEF KeepsPlatform, IsPlatform
  <2> QED BY <1>1, <1>4, <2>1, PlatformSlugKept DEF RenamesInOrder
<1>9. CreationsAreAlone'
  <2>1. Known' = Known
    BY DEF Known
  <2>2. \A z \in Slots \ {s} : req[z].at \in RenameSteps => req[z].t # t
    BY DEF RenamesInOrder, CreationsAreAlone
  <2>3. ASSUME NEW z \in Slots, req'[z].at \in RenameSteps
        PROVE  /\ req'[z].t \in made'
               /\ req'[z].then = "answer" \/ req'[z].at = "tenant.slug" => req'[z].t \in Known'
               /\ req'[z].then = "copy" /\ req'[z].at # "tenant.slug" =>
                    /\ req'[z].t \notin Known'
                    /\ \A x \in Slots \ {z} : ~(req'[x].at \in RenameSteps /\ req'[x].t = req'[z].t)
    <3>1. CASE z = s
      BY <1>2, <1>3, <1>7, <2>1, <2>2, <3>1
    <3>2. CASE z # s
      <4>1. req'[z] = req[z] /\ req[z].at \in RenameSteps /\ req[z].t # t
        BY <1>3, <2>2, <2>3, <3>2
      <4>2. \A x \in Slots \ {z} :
                req'[x].at \in RenameSteps /\ req'[x].t = req[z].t => x # s /\ req'[x] = req[x]
        BY <1>2, <1>3, <4>1
      <4> QED BY <2>1, <4>1, <4>2 DEF RenamesInOrder, CreationsAreAlone, RenamingOf
    <3> QED BY <3>1, <3>2
  <2> QED BY <2>1, <2>3 DEF RenamesInOrder, CreationsAreAlone, RenamingOf
<1> QED BY <1>5, <1>6, <1>8, <1>9 DEF RenamesInOrder

\* A rename of a tenant that has its META row: no creation is under way.
LEMMA RenamingStep ==
    ASSUME SetupType, RenamesInOrder, NEW s \in Slots, NEW r \in SetupHandlers, Become(s, r),
           UNCHANGED slugVars, torn \subseteq torn', req[s].at = "idle",
           r.at \in {"tenant.put", "tenant.meta"}, r.t \in Known, r.then = "answer",
           r.at = "tenant.meta" => r.old # None /\ r.old.slug = None /\ r.previous = None,
           "platform" \notin torn' => KeepsPlatform(r)
    PROVE  RenamesInOrder'
<1> USE DEF slugVars
<1>1. req'[s] = r /\ \A z \in Slots \ {s} : req'[z] = req[z]
  BY SetupMoves DEF SetupType
<1>2. ~Holds(r) /\ ~Holds(req[s])
  BY DEF Holds
<1>3. OldSlugs'
  BY OldSlugsKept DEF RenamesInOrder, FoundOld, GivenUp
<1>4. SlugsInOrder'
  BY <1>2, QuietSlugStep DEF RenamesInOrder
<1>5. PlatformKeepsSlug'
  BY PlatformSlugKept DEF RenamesInOrder
<1>6. CreationsAreAlone'
  <2>1. Known' = Known
    BY DEF Known
  <2>2. \A z \in Slots \ {s} : req[z].at \in RenameSteps /\ req[z].then = "copy"
                               /\ req[z].at # "tenant.slug" => req[z].t # r.t
    BY DEF RenamesInOrder, CreationsAreAlone
  <2>3. r.t \in made /\ r.at # "tenant.slug" /\ r.then # "copy"
    BY DEF RenamesInOrder, CreationsAreAlone
  <2>4. ASSUME NEW z \in Slots, req'[z].at \in RenameSteps
        PROVE  /\ req'[z].t \in made'
               /\ req'[z].then = "answer" \/ req'[z].at = "tenant.slug" => req'[z].t \in Known'
               /\ req'[z].then = "copy" /\ req'[z].at # "tenant.slug" =>
                    /\ req'[z].t \notin Known'
                    /\ \A x \in Slots \ {z} : ~(req'[x].at \in RenameSteps /\ req'[x].t = req'[z].t)
    <3>1. CASE z = s
      BY <1>1, <2>1, <2>3, <3>1
    <3>2. CASE z # s
      <4>1. req'[z] = req[z] /\ req[z].at \in RenameSteps
        BY <1>1, <2>4, <3>2
      <4>2. req[z].then = "copy" /\ req[z].at # "tenant.slug" => req[z].t # r.t
        BY <2>2, <3>2, <4>1
      <4> QED BY <1>1, <2>1, <4>1, <4>2 DEF RenamesInOrder, CreationsAreAlone, RenamingOf
    <3> QED BY <3>1, <3>2
  <2> QED BY <2>1, <2>4 DEF RenamesInOrder, CreationsAreAlone, RenamingOf
<1> QED BY <1>3, <1>4, <1>5, <1>6 DEF RenamesInOrder

\* The row, the tenant and the slugs that a handler at this step has in mind.
LEMMA MetaHandlers ==
    ASSUME SetupType, NEW s \in Slots, req[s].at \in {"tenant.unslug", "tenant.meta", "tenant.slug"}
    PROVE  /\ req[s].t \in TenantIds /\ req[s].then \in Thens /\ req[s].row \in SluggedRows
           /\ req[s].old \in MetaRows \cup {None} /\ req[s].previous \in Slugs \cup {None}
           /\ req[s].at \in RenameSteps
           /\ \A step \in {"tenant.unslug", "tenant.meta", "tenant.slug"} :
                /\ [req[s] EXCEPT !.at = step] \in SetupHandlers
                /\ [req[s] EXCEPT !.at = step].at = step
                /\ [req[s] EXCEPT !.at = step].t = req[s].t
                /\ [req[s] EXCEPT !.at = step].then = req[s].then
                /\ [req[s] EXCEPT !.at = step].row = req[s].row
                /\ [req[s] EXCEPT !.at = step].old = req[s].old
                /\ [req[s] EXCEPT !.at = step].previous = req[s].previous
<1>1. req[s] \in [at : {"tenant.unslug", "tenant.meta", "tenant.slug"}, t : TenantIds,
                  then : Thens, row : SluggedRows, old : MetaRows \cup {None},
                  previous : Slugs \cup {None}]
  BY SetupHandlersKnow DEF SetupType
<1>2. ASSUME NEW step \in {"tenant.unslug", "tenant.meta", "tenant.slug"}
      PROVE  [req[s] EXCEPT !.at = step] \in SetupHandlers
  BY <1>1 DEF SetupHandlers, RenameHandlers
<1> QED BY <1>1, <1>2 DEF RenameSteps

\* To go to a step is to become the same handler there.
LEMMA GotoMoves ==
    ASSUME SetupType, NEW s \in Slots, NEW step, Goto(s, step)
    PROVE  Become(s, [req[s] EXCEPT !.at = step])
BY DEF Goto, Become, SetupType

\* put_tenant looks for the slug that the tenant has now.
LEMMA PutTenantStep ==
    ASSUME SetupType, RenamesInOrder, NEW s \in Slots, PutTenant(s)
    PROVE  /\ \E r \in SetupHandlers :
                /\ Become(s, r) /\ r.at \in {"tenant.unslug", "tenant.meta"}
                /\ r.t = req[s].t /\ r.then = req[s].then /\ r.row = req[s].row
           /\ req[s].at = "tenant.put"
           /\ UNCHANGED <<slugVars, llmVars, purgeVars>> /\ torn \subseteq torn'
           /\ RenamesInOrder'
<1>0. /\ At(s, "tenant.put") /\ UNCHANGED <<slugVars, llmVars, purgeVars>>
      /\ torn \subseteq torn'
  BY DEF PutTenant, Tear
<1> DEFINE old == metas[req[s].t]
<1>2. req[s] \in [at : {"tenant.put"}, t : TenantIds, then : Thens, row : SluggedRows]
  BY <1>0, SetupHandlersKnow DEF SetupType
<1>a. old \in MetaRows \cup {None}
  BY <1>2 DEF SetupType, TenantRowsType
<1>b. PICK found \in {old, None} :
        LET previous == GivenUp(found, req[s].row) IN
        /\ Become(s, [at |-> IF previous = None THEN "tenant.meta" ELSE "tenant.unslug",
                      t |-> req[s].t, row |-> req[s].row, old |-> old, previous |-> previous,
                      then |-> req[s].then])
        /\ Tear({"slugs"}, previous # GivenUp(old, req[s].row))
  BY DEF PutTenant
<1> DEFINE previous == GivenUp(found, req[s].row)
           unslugs == previous # None
           r == [at |-> IF previous = None THEN "tenant.meta" ELSE "tenant.unslug", t |-> req[s].t,
                 row |-> req[s].row, old |-> old, previous |-> previous, then |-> req[s].then]
<1>1. /\ Become(s, r)
      /\ "slugs" \notin torn' => previous = GivenUp(old, req[s].row)
  BY <1>b DEF Tear
<1> HIDE DEF old
<1>3. previous \in Slugs \cup {None} /\ (previous # None => previous # req[s].row.slug)
  BY <1>a, <1>b, TenantsAssumption DEF MetaRows, GivenUp
<1>4. r \in SetupHandlers
  BY <1>2, <1>a, <1>3 DEF SetupHandlers, RenameHandlers
<1>5. /\ r.at \in {"tenant.unslug", "tenant.meta"} /\ r.t = req[s].t /\ r.then = req[s].then
      /\ r.row = req[s].row /\ r.old = old /\ r.previous = previous
      /\ r.at = "tenant.meta" => ~unslugs
      /\ r.at = "tenant.unslug" => unslugs
  OBVIOUS
<1> HIDE DEF r, previous
<1>6. PICK q \in SetupHandlers : q = r
  BY <1>4
<1>7. ~Holds(req[s]) /\ ~Holds(q) /\ req[s].at = "tenant.put"
  BY <1>0, <1>5, <1>6 DEF Holds, At
<1>8. UNCHANGED <<metas, slugs, made>> /\ torn \subseteq torn'
  BY <1>0 DEF slugVars
<1>9. (FoundOld(q))'
  BY <1>1, <1>3, <1>5, <1>6 DEF FoundOld
<1>10. OldSlugs'
  <2>1. req'[s] = q /\ \A z \in Slots \ {s} : req'[z] = req[z]
    BY <1>1, <1>6, SetupMoves DEF SetupType
  <2>2. \A z \in Slots \ {s} : FoundOld(req[z]) => (FoundOld(req[z]))'
    BY <1>8, <2>1 DEF FoundOld
  <2> QED BY <1>9, <2>1, <2>2 DEF RenamesInOrder, OldSlugs, FoundOld
<1>11. SlugsInOrder'
  BY <1>1, <1>6, <1>7, <1>8, QuietSlugStep DEF RenamesInOrder
<1>12. CreationsAreAlone'
  BY <1>1, <1>5, <1>6, <1>7, <1>8, CreationsKept DEF RenamesInOrder, RenameSteps
<1>13. "platform" \notin torn' => KeepsPlatform(req[s])
  BY <1>7, <1>8 DEF RenamesInOrder, PlatformKeepsSlug, PlatformIsProtected, RenameSteps
<1>14. "platform" \notin torn' => KeepsPlatform(q)
  BY <1>5, <1>6, <1>7, <1>13 DEF KeepsPlatform
<1>15. PlatformKeepsSlug'
  BY <1>1, <1>6, <1>8, <1>14, PlatformSlugKept DEF RenamesInOrder
<1> QED BY <1>0, <1>1, <1>5, <1>6, <1>7, <1>10, <1>11, <1>12, <1>15 DEF RenamesInOrder

\* The SLUG row of the old slug goes, or somebody else has it already and the
\* slugs are torn.
LEMMA DeleteOldSlugStep ==
    ASSUME SetupType, RenamesInOrder, NEW s \in Slots, DeleteOldSlug(s)
    PROVE  /\ \E r \in SetupHandlers :
                /\ Become(s, r) /\ r.at = "tenant.meta"
                /\ r.t = req[s].t /\ r.then = req[s].then /\ r.row = req[s].row
           /\ req[s].at = "tenant.unslug" /\ torn \subseteq torn'
           /\ slugs' \in [Slugs -> TenantIds \cup {None}]
           /\ \A x \in Slugs : slugs'[x] \in {slugs[x], None}
           /\ RenamesInOrder'
<1>1. /\ req[s].at = "tenant.unslug" /\ Goto(s, "tenant.meta")
      /\ slugs' = [slugs EXCEPT ![req[s].previous] = None] /\ UNCHANGED <<metas, made>>
      /\ torn \subseteq torn'
      /\ "slugs" \notin torn' =>
            metas[req[s].t] = req[s].old /\ slugs[req[s].previous] = req[s].t
  BY DEF DeleteOldSlug, At, Tear
<1> DEFINE r == [req[s] EXCEPT !.at = "tenant.meta"]
<1>2. /\ r \in SetupHandlers /\ r.at = "tenant.meta" /\ r.t = req[s].t /\ r.then = req[s].then
      /\ r.row = req[s].row /\ r.old = req[s].old /\ r.previous = req[s].previous
      /\ req[s].previous \in Slugs \cup {None} /\ req[s].t \in TenantIds
  BY <1>1, MetaHandlers
<1>3. Become(s, r)
  BY <1>1, GotoMoves
<1> HIDE DEF r
<1>4. PICK q \in SetupHandlers : q = r
  BY <1>2
<1>5. req'[s] = q /\ \A z \in Slots \ {s} : req'[z] = req[z]
  BY <1>3, <1>4, SetupMoves DEF SetupType
<1>6. /\ slugs' \in [Slugs -> TenantIds \cup {None}]
      /\ \A x \in Slugs : slugs'[x] = IF x = req[s].previous THEN None ELSE slugs[x]
  BY <1>1 DEF SetupType, TenantRowsType
<1>7. OldSlugs'
  BY <1>1, <1>2, <1>3, <1>4, OldSlugsKept DEF RenamesInOrder, OldSlugs, FoundOld
<1>8. CreationsAreAlone'
  BY <1>1, <1>2, <1>3, <1>4, <1>6, CreationsKept DEF RenamesInOrder, RenameSteps
<1>9. PlatformKeepsSlug'
  <2>1. "platform" \notin torn' => KeepsPlatform(req[s])
    BY <1>1 DEF RenamesInOrder, PlatformKeepsSlug, PlatformIsProtected, RenameSteps
  <2>2. "platform" \notin torn' => KeepsPlatform(q)
    BY <1>1, <1>2, <1>4, <2>1 DEF KeepsPlatform
  <2> QED BY <1>1, <1>3, <1>4, <1>6, <2>2, PlatformSlugKept DEF RenamesInOrder
<1>10. SlugsInOrder'
  <2> SUFFICES ASSUME "slugs" \notin torn' PROVE SlugsInStep'
    BY DEF SlugsInOrder
  <2>1. SlugsInStep /\ metas[req[s].t] = req[s].old /\ slugs[req[s].previous] = req[s].t
    BY <1>1 DEF RenamesInOrder, SlugsInOrder
  <2>2. Known' = Known /\ None \notin Known
    BY <1>1, TenantsAssumption DEF Known
  <2> DEFINE x == req[s].previous
  <2>3. req[s].previous # None => x = metas[req[s].t].slug /\ req[s].t \in Known
    BY <1>1, <1>2, <2>1 DEF RenamesInOrder, OldSlugs, FoundOld, GivenUp, Known
  <2>4. ASSUME NEW t \in Known, metas[t].slug # None
        PROVE  \/ slugs'[metas[t].slug] = t
               \/ \E z \in Slots : /\ req'[z].at = "tenant.slug" /\ req'[z].t = t
                                   /\ req'[z].row = metas[t]
               \/ \E z \in Slots : /\ req'[z].at = "tenant.meta" /\ req'[z].t = t
                                   /\ req'[z].previous = metas[t].slug
                                   /\ req'[z].row.slug # req'[z].previous
    <3>1. CASE metas[t].slug = req[s].previous /\ t = req[s].t /\ req[s].row.slug # req[s].previous
      BY <1>2, <1>4, <1>5, <3>1
    <3>2. CASE slugs[metas[t].slug] = t /\ metas[t].slug # req[s].previous
      <4>1. metas[t].slug \in Slugs
        BY <2>4 DEF SetupType, TenantRowsType, Known, MetaRows
      <4> QED BY <1>6, <3>2, <4>1
    <3>3. CASE slugs[metas[t].slug] # t
      <4>1. PICK z \in Slots :
                \/ req[z].at = "tenant.slug" /\ req[z].t = t /\ req[z].row = metas[t]
                \/ /\ req[z].at = "tenant.meta" /\ req[z].t = t
                   /\ req[z].previous = metas[t].slug /\ req[z].row.slug # req[z].previous
        BY <2>1, <2>4, <3>3 DEF SlugsInStep
      <4>2. z # s
        BY <1>1, <4>1
      <4> QED BY <1>5, <4>1, <4>2
    <3>4. ASSUME slugs[metas[t].slug] = t, metas[t].slug = req[s].previous
          PROVE  t = req[s].t /\ req[s].row.slug # req[s].previous
      <4>1. t = req[s].t
        BY <2>1, <3>4
      <4> QED BY <4>1, <1>1 DEF RenamesInOrder, OldSlugs, FoundOld
    <3> QED BY <3>1, <3>2, <3>3, <3>4
  <2>5. \A y \in Slugs : slugs'[y] \in Known' => metas'[slugs'[y]].slug = y
    BY <1>1, <1>6, <2>1, <2>2 DEF SlugsInStep
  <2>6. ASSUME NEW z \in Slots, req'[z].at = "tenant.meta", req'[z].previous # None,
               req'[z].previous # req'[z].row.slug
        PROVE  slugs'[req'[z].previous] # req'[z].t
    <3>1. PICK p \in SetupHandlers : p = req'[z]
      BY <1>3, <1>4, SetupMoves DEF SetupType
    <3>2. p.t \in TenantIds /\ p.previous \in Slugs \cup {None}
      <4>1. CASE z = s
        BY <1>2, <1>4, <1>5, <3>1, <4>1
      <4>2. CASE z # s
        <5>1. req[z] = p /\ req[z].at \in {"tenant.unslug", "tenant.meta", "tenant.slug"}
          BY <1>5, <2>6, <3>1, <4>2
        <5>2. req[z].t \in TenantIds /\ req[z].previous \in Slugs \cup {None}
          BY <5>1, MetaHandlers
        <5> QED BY <5>1, <5>2
      <4> QED BY <4>1, <4>2
    <3>3. p.previous \in Slugs /\ p.t # None
      BY <2>6, <3>1, <3>2, TenantsAssumption
    <3>4. CASE p.previous = req[s].previous
      BY <1>6, <3>1, <3>3, <3>4
    <3>5. CASE p.previous # req[s].previous
      <4>1. z # s
        BY <1>2, <1>4, <1>5, <3>1, <3>5
      <4> QED BY <1>5, <1>6, <2>1, <2>6, <3>1, <3>3, <3>5, <4>1 DEF SlugsInStep
    <3> QED BY <3>4, <3>5
  <2> QED BY <1>1, <2>1, <2>2, <2>4, <2>5, <2>6 DEF SlugsInStep
<1> QED BY <1>1, <1>2, <1>3, <1>4, <1>6, <1>7, <1>8, <1>9, <1>10 DEF RenamesInOrder

\* The META row is put: the tenant is known from now on, and its handler holds
\* its slug, unless the handler has found another row or the slug is taken and
\* the slugs are torn.
LEMMA PutMetaStep ==
    ASSUME SetupType, RenamesInOrder, NEW s \in Slots, PutMeta(s)
    PROVE  /\ \E r \in SetupHandlers :
                /\ Become(s, r) /\ r.at = "tenant.slug"
                /\ r.t = req[s].t /\ r.then = req[s].then /\ r.row = req[s].row
           /\ req[s].at = "tenant.meta" /\ torn \subseteq torn'
           /\ metas' \in [TenantIds -> MetaRows \cup {None}]
           /\ Known' = Known \cup {req[s].t}
           /\ RenamesInOrder'
<1> DEFINE r == [req[s] EXCEPT !.at = "tenant.slug"]
<1>1. PICK t \in TenantIds, row \in SluggedRows : t = req[s].t /\ row = req[s].row
  BY MetaHandlers DEF PutMeta, At
<1>2. /\ req[s].at = "tenant.meta" /\ Goto(s, "tenant.slug")
      /\ metas' = [metas EXCEPT ![t] = row] /\ UNCHANGED <<slugs, made>>
      /\ torn \subseteq torn'
      /\ "slugs" \notin torn' =>
            metas[t] = req[s].old /\ \A u \in Known \ {t} : metas[u].slug # row.slug
  BY <1>1 DEF PutMeta, At, Tear
<1>3. /\ r \in SetupHandlers /\ r.at = "tenant.slug" /\ r.t = t /\ r.then = req[s].then
      /\ r.row = row /\ r.old = req[s].old /\ r.previous = req[s].previous
      /\ req[s].then \in Thens
  BY <1>1, <1>2, MetaHandlers
<1>4. Become(s, r)
  BY <1>2, GotoMoves
<1> HIDE DEF r
<1>5. PICK q \in SetupHandlers : q = r
  BY <1>3
<1>6. req'[s] = q /\ \A z \in Slots \ {s} : req'[z] = req[z]
  BY <1>4, <1>5, SetupMoves DEF SetupType
<1>7. row \in MetaRows /\ row # None /\ row.slug \in Slugs /\ row.slug # None
  BY SluggedIsMeta
<1>8. /\ metas' \in [TenantIds -> MetaRows \cup {None}]
      /\ metas'[t] = row /\ \A u \in TenantIds \ {t} : metas'[u] = metas[u]
  BY <1>2, <1>7 DEF SetupType, TenantRowsType
<1>9. Known' = Known \cup {t}
  BY <1>7, <1>8 DEF Known
<1>10. OldSlugs'
  BY <1>1, <1>2, <1>3, <1>4, <1>5, OldSlugsKept DEF RenamesInOrder, OldSlugs, FoundOld
<1>11. /\ t \in made /\ Known \subseteq made /\ req[s].at \in RenameSteps
       /\ req[s].then = "answer" => t \in Known
       /\ req[s].then = "copy" => \A z \in Slots \ {s} : ~RenamingOf(z, t)
       /\ \A x \in Slugs : slugs[x] # None => slugs[x] \in Known
  BY <1>1, <1>2 DEF RenamesInOrder, CreationsAreAlone, RenameSteps
<1>12. CreationsAreAlone'
  <2>1. ASSUME NEW z \in Slots, req'[z].at \in RenameSteps
        PROVE  /\ req'[z].t \in made'
               /\ req'[z].then = "answer" \/ req'[z].at = "tenant.slug" => req'[z].t \in Known'
               /\ req'[z].then = "copy" /\ req'[z].at # "tenant.slug" =>
                    /\ req'[z].t \notin Known'
                    /\ \A x \in Slots \ {z} : ~(req'[x].at \in RenameSteps /\ req'[x].t = req'[z].t)
    <3>1. CASE z = s
      BY <1>2, <1>3, <1>5, <1>6, <1>9, <1>11, <3>1
    <3>2. CASE z # s
      <4>1. req'[z] = req[z] /\ req[z].at \in RenameSteps
        BY <1>6, <2>1, <3>2
      <4>2. /\ req[z].t \in made
            /\ req[z].then = "answer" \/ req[z].at = "tenant.slug" => req[z].t \in Known
            /\ req[z].then = "copy" /\ req[z].at # "tenant.slug" =>
                    /\ req[z].t \notin Known
                    /\ \A x \in Slots \ {z} : ~RenamingOf(x, req[z].t)
        BY <4>1 DEF RenamesInOrder, CreationsAreAlone
      <4>3. req[z].then = "copy" /\ req[z].at # "tenant.slug" => req[z].t # t
        BY <1>1, <1>11, <4>1, <4>2, <3>2 DEF RenamingOf
      <4> QED BY <1>2, <1>3, <1>5, <1>6, <1>9, <4>1, <4>2, <4>3 DEF RenamingOf
    <3> QED BY <3>1, <3>2
  <2> QED BY <1>2, <1>9, <1>11, <2>1 DEF CreationsAreAlone, RenamingOf
<1>13. SlugsInOrder'
  <2> SUFFICES ASSUME "slugs" \notin torn' PROVE SlugsInStep'
    BY DEF SlugsInOrder
  <2>1. SlugsInStep /\ metas[t] = req[s].old /\ \A u \in Known \ {t} : metas[u].slug # row.slug
    BY <1>2 DEF RenamesInOrder, SlugsInOrder
  <2>2. \A u, v \in Known' : u # v /\ metas'[u].slug # None => metas'[u].slug # metas'[v].slug
    BY <1>8, <1>9, <2>1 DEF SlugsInStep, Known
  <2>3. ASSUME NEW u \in Known', metas'[u].slug # None
        PROVE  \/ slugs'[metas'[u].slug] = u
               \/ \E z \in Slots : /\ req'[z].at = "tenant.slug" /\ req'[z].t = u
                                   /\ req'[z].row = metas'[u]
               \/ \E z \in Slots : /\ req'[z].at = "tenant.meta" /\ req'[z].t = u
                                   /\ req'[z].previous = metas'[u].slug
                                   /\ req'[z].row.slug # req'[z].previous
    <3>1. CASE u = t
      BY <1>3, <1>5, <1>6, <1>8, <3>1
    <3>2. CASE u # t /\ slugs[metas[u].slug] = u
      BY <1>2, <1>8, <1>9, <3>2 DEF Known
    <3>3. CASE u # t /\ slugs[metas[u].slug] # u
      <4>1. u \in Known /\ metas'[u] = metas[u]
        BY <1>8, <1>9, <3>3 DEF Known
      <4>2. PICK z \in Slots :
                \/ req[z].at = "tenant.slug" /\ req[z].t = u /\ req[z].row = metas[u]
                \/ /\ req[z].at = "tenant.meta" /\ req[z].t = u
                   /\ req[z].previous = metas[u].slug /\ req[z].row.slug # req[z].previous
        BY <2>1, <2>3, <3>3, <4>1 DEF SlugsInStep
      <4>3. req'[z] = req[z]
        BY <1>1, <1>6, <3>3, <4>2
      <4> QED BY <4>1, <4>2, <4>3
    <3> QED BY <3>1, <3>2, <3>3
  <2>4. ASSUME NEW x \in Slugs, slugs'[x] \in Known'
        PROVE  metas'[slugs'[x]].slug = x
    <3>1. slugs'[x] = slugs[x] /\ slugs[x] \in Known /\ metas[slugs[x]].slug = x
      BY <1>2, <1>9, <1>11, <2>1, <2>4, TenantsAssumption DEF SlugsInStep
    <3>2. CASE slugs[x] = t /\ row.slug # x
      <4>1. req[s].previous = x
        BY <1>1, <1>2, <2>1, <3>1, <3>2 DEF RenamesInOrder, OldSlugs, FoundOld, GivenUp, Known
      <4>2. slugs[req[s].previous] # req[s].t
        BY <1>1, <1>2, <2>1, <3>2, <4>1, TenantsAssumption DEF SlugsInStep
      <4> QED BY <1>1, <3>2, <4>1, <4>2
    <3>3. CASE slugs[x] # t \/ row.slug = x
      BY <1>8, <3>1, <3>3 DEF Known
    <3> QED BY <3>2, <3>3
  <2>5. ASSUME NEW z \in Slots, req'[z].at = "tenant.meta", req'[z].previous # None,
               req'[z].previous # req'[z].row.slug
        PROVE  slugs'[req'[z].previous] # req'[z].t
    BY <1>2, <1>3, <1>5, <1>6, <2>1, <2>5 DEF SlugsInStep
  <2> QED BY <2>2, <2>3, <2>4, <2>5 DEF SlugsInStep
<1>14. PlatformKeepsSlug'
  <2>6. \A u \in Known' : metas'[u].slug = None => metas'[u].base # PlatformBase
    BY <1>7, <1>8, <1>9 DEF RenamesInOrder, PlatformKeepsSlug, Known
  <2> SUFFICES ASSUME "platform" \notin torn' PROVE PlatformIsProtected'
    BY <2>6 DEF PlatformKeepsSlug
  <2>1. KeepsPlatform(req[s]) /\ PlatformIsProtected
    BY <1>2, <1>11 DEF RenamesInOrder, PlatformKeepsSlug, PlatformIsProtected
  <2>2. IsPlatform(t) => row.slug = PlatformSlug
    BY <1>1, <2>1 DEF KeepsPlatform
  <2>3. \A u : IsPlatform(u)' <=> IF u = t THEN row.slug = PlatformSlug ELSE IsPlatform(u)
    BY <1>8, <1>9 DEF IsPlatform, Known
  <2>4. slugs[PlatformSlug] \in Known' => slugs[PlatformSlug] \in Known
    <3>1. PlatformSlug \in Slugs
      BY PlatformSlugIsASlug
    <3> QED BY <1>9, <1>11, <3>1, TenantsAssumption
  <2>5. (slugs[PlatformSlug] \in Known => IsPlatform(slugs[PlatformSlug]))'
    <3> SUFFICES ASSUME slugs'[PlatformSlug] \in Known'
                 PROVE  /\ slugs'[PlatformSlug] \in Known'
                        /\ metas'[slugs'[PlatformSlug]].slug = PlatformSlug
      BY DEF IsPlatform
    <3>1. slugs'[PlatformSlug] = slugs[PlatformSlug] /\ IsPlatform(slugs[PlatformSlug])
      BY <1>2, <2>1, <2>4 DEF PlatformIsProtected
    <3> QED BY <1>8, <2>2, <3>1 DEF IsPlatform, Known
  <2>7. ASSUME NEW z \in Slots, req'[z].at \in RenameSteps
        PROVE  KeepsPlatform(req[z])'
    <3> PICK p \in SetupHandlers : p = req'[z]
      BY <1>4, <1>5, SetupMoves DEF SetupType
    <3>1. CASE z = s
      <4>1. p.t = t /\ p.row = row
        BY <1>3, <1>5, <1>6, <3>1
      <4> QED BY <2>3, <4>1 DEF KeepsPlatform
    <3>2. CASE z # s
      <4>1. req[z] = p /\ KeepsPlatform(p) /\ p.at \in RenameSteps
        BY <1>6, <2>1, <2>7, <3>2 DEF PlatformIsProtected
      <4>2. p.t # t => KeepsPlatform(p)'
        BY <2>3, <4>1 DEF KeepsPlatform
      <4>3. p.t = t => IsPlatform(t) \/ row.slug # PlatformSlug
        BY <1>1, <1>2, <1>3, <1>11, <2>1, <3>2, <4>1 DEF KeepsPlatform, RenamingOf, Thens
      <4>4. p.t = t => KeepsPlatform(p)'
        <5>1. ASSUME p.t = t, IsPlatform(t) PROVE KeepsPlatform(p)'
          BY <2>2, <2>3, <4>1, <5>1 DEF KeepsPlatform
        <5>2. ASSUME p.t = t, ~IsPlatform(t), row.slug # PlatformSlug PROVE KeepsPlatform(p)'
          BY <2>3, <4>1, <5>2 DEF KeepsPlatform
        <5> QED BY <4>3, <5>1, <5>2
      <4>5. KeepsPlatform(p)'
        BY <4>2, <4>4
      <4> QED BY <4>5 DEF KeepsPlatform
    <3> QED BY <3>1, <3>2
  <2> QED BY <2>5, <2>7 DEF PlatformIsProtected
<1> QED BY <1>1, <1>2, <1>3, <1>4, <1>8, <1>9, <1>10, <1>12, <1>13, <1>14 DEF RenamesInOrder

\* The SLUG row is put: it leads to the tenant, unless the tenant has another
\* row or gives the slug up and the slugs are torn.
LEMMA PutSlugStep ==
    ASSUME SetupType, RenamesInOrder, NEW s \in Slots, PutSlug(s)
    PROVE  /\ \E r \in SetupHandlers :
                /\ Become(s, r) /\ r.at \notin RenameSteps
                /\ IF req[s].then = "copy"
                   THEN r.at = "llm.read" /\ r.then = "copy" /\ r.t = req[s].t
                   ELSE r = Idle
           /\ req[s].at = "tenant.slug" /\ req[s].t \in Known /\ torn \subseteq torn'
           /\ slugs' \in [Slugs -> TenantIds \cup {None}]
           /\ \A x \in Slugs : slugs'[x] = IF x = req[s].row.slug THEN req[s].t ELSE slugs[x]
           /\ RenamesInOrder'
<1>1. PICK t \in TenantIds, row \in SluggedRows :
            t = req[s].t /\ row = req[s].row /\ req[s].at = "tenant.slug"
  BY MetaHandlers DEF PutSlug, At
<1>2. PICK r \in SetupHandlers :
            /\ Become(s, r) /\ r.at \notin RenameSteps
            /\ IF req[s].then = "copy"
               THEN r.at = "llm.read" /\ r.then = "copy" /\ r.t = t
               ELSE r = Idle
  <2>1. CASE req[s].then = "copy"
    <3> DEFINE r == [at |-> "llm.read", t |-> t, then |-> "copy"]
    <3>1. Become(s, r)
      BY <1>1, <2>1 DEF PutSlug
    <3>2. r \in SetupHandlers
      BY DEF SetupHandlers, ReadingHandlers
    <3> QED BY <2>1, <3>1, <3>2 DEF RenameSteps
  <2>2. CASE req[s].then # "copy"
    <3>1. Become(s, Idle)
      BY <2>2, IdleMoves DEF PutSlug
    <3>2. Idle \in SetupHandlers /\ Idle.at \notin RenameSteps
      BY DEF SetupHandlers, Idle, RenameSteps
    <3> QED BY <2>2, <3>1, <3>2
  <2> QED BY <2>1, <2>2
<1>3. /\ slugs' = [slugs EXCEPT ![row.slug] = t] /\ UNCHANGED <<metas, made>>
      /\ torn \subseteq torn'
      /\ "slugs" \notin torn' => metas[t] = row /\ ~Renaming(t, row.slug)
  BY <1>1 DEF PutSlug, Tear
<1>4. row \in MetaRows /\ row # None /\ row.slug \in Slugs /\ row.slug # None
  BY SluggedIsMeta
<1>5. /\ slugs' \in [Slugs -> TenantIds \cup {None}]
      /\ \A x \in Slugs : slugs'[x] = IF x = row.slug THEN t ELSE slugs[x]
  BY <1>3, <1>4 DEF SetupType, TenantRowsType
<1>6. req'[s] = r /\ \A z \in Slots \ {s} : req'[z] = req[z]
  BY <1>2, SetupMoves DEF SetupType
<1>7. Known' = Known
  BY <1>3 DEF Known
<1>8. t \in Known /\ (row.slug = PlatformSlug /\ "platform" \notin torn' => IsPlatform(t))
  BY <1>1, <1>3
     DEF RenamesInOrder, CreationsAreAlone, PlatformKeepsSlug, PlatformIsProtected, KeepsPlatform,
         RenameSteps
<1>9. OldSlugs'
  BY <1>2, <1>3, OldSlugsKept DEF RenamesInOrder, FoundOld, RenameSteps
<1>10. CreationsAreAlone'
  BY <1>2, <1>3, <1>5, <1>8, CreationsKept DEF RenamesInOrder
<1>11. PlatformKeepsSlug'
  <2>1. PlatformSlug \in Slugs /\ "platform" \notin torn' =>
            \/ slugs'[PlatformSlug] \in {slugs[PlatformSlug], None}
            \/ IsPlatform(slugs'[PlatformSlug])
    BY <1>5, <1>8
  <2> QED BY <1>2, <1>3, <2>1, PlatformSlugKept DEF RenamesInOrder
<1>12. SlugsInOrder'
  <2> SUFFICES ASSUME "slugs" \notin torn' PROVE SlugsInStep'
    BY DEF SlugsInOrder
  <2>1. SlugsInStep /\ metas[t] = row /\ ~Renaming(t, row.slug)
    BY <1>3 DEF RenamesInOrder, SlugsInOrder
  <2>2. ASSUME NEW u \in Known, metas[u].slug # None
        PROVE  \/ slugs'[metas[u].slug] = u
               \/ \E z \in Slots : /\ req'[z].at = "tenant.slug" /\ req'[z].t = u
                                   /\ req'[z].row = metas[u]
               \/ \E z \in Slots : /\ req'[z].at = "tenant.meta" /\ req'[z].t = u
                                   /\ req'[z].previous = metas[u].slug
                                   /\ req'[z].row.slug # req'[z].previous
    <3>1. metas[u].slug \in Slugs
      BY <2>2 DEF SetupType, TenantRowsType, Known, MetaRows
    <3>2. CASE u = t
      BY <1>4, <1>5, <2>1, <3>2
    <3>3. CASE u # t /\ slugs[metas[u].slug] = u
      BY <1>5, <1>8, <2>1, <2>2, <3>1, <3>3 DEF SlugsInStep
    <3>4. CASE u # t /\ slugs[metas[u].slug] # u
      <4>1. PICK z \in Slots :
                \/ req[z].at = "tenant.slug" /\ req[z].t = u /\ req[z].row = metas[u]
                \/ /\ req[z].at = "tenant.meta" /\ req[z].t = u
                   /\ req[z].previous = metas[u].slug /\ req[z].row.slug # req[z].previous
        BY <2>1, <2>2, <3>4 DEF SlugsInStep
      <4>2. req'[z] = req[z]
        BY <1>1, <1>6, <3>4, <4>1
      <4> QED BY <4>1, <4>2
    <3> QED BY <3>2, <3>3, <3>4
  <2>3. \A x \in Slugs : slugs'[x] \in Known => metas[slugs'[x]].slug = x
    BY <1>5, <2>1 DEF SlugsInStep
  <2>4. ASSUME NEW z \in Slots, req'[z].at = "tenant.meta", req'[z].previous # None,
               req'[z].previous # req'[z].row.slug
        PROVE  slugs'[req'[z].previous] # req'[z].t
    <3>1. req'[z] = req[z] /\ req[z].at \in {"tenant.unslug", "tenant.meta", "tenant.slug"}
      BY <1>2, <1>6, <2>4 DEF RenameSteps
    <3>2. req[z].previous \in Slugs
      <4>1. req[z].previous \in Slugs \cup {None}
        BY <3>1, MetaHandlers
      <4> QED BY <2>4, <3>1, <4>1
    <3>3. CASE req[z].previous = row.slug
      <4>1. req[z].t # t
        BY <2>1, <2>4, <3>1, <3>3 DEF Renaming
      <4> QED BY <1>5, <3>1, <3>2, <3>3, <4>1
    <3>4. CASE req[z].previous # row.slug
      BY <1>5, <2>1, <2>4, <3>1, <3>2, <3>4 DEF SlugsInStep
    <3> QED BY <3>3, <3>4
  <2> QED BY <1>3, <1>7, <2>1, <2>2, <2>3, <2>4 DEF SlugsInStep
<1> QED BY <1>1, <1>2, <1>3, <1>5, <1>8, <1>9, <1>10, <1>11, <1>12 DEF RenamesInOrder

-----------------------------------------------------------------------------
\* A configuration that is one stays one.
LEMMA PublishedTypes ==
    ASSUME SetupType
    PROVE  /\ baseline # None =>
                /\ baseline \in Baselines /\ baseline.version \in 1 .. MaxVersion
                /\ baseline.config \in Configs
           /\ \A t \in TenantIds : configs[t] # None =>
                configs[t] \in ConfigRows /\ configs[t].version \in 1 .. MaxVersion
           /\ \A z \in Slots : req[z].at = "llm.put" =>
                /\ req[z] \in ConfigHandlers /\ req[z].t \in TenantIds
                /\ req[z].row \in ConfigRows /\ req[z].row.version \in 1 .. MaxVersion
<1>1. \A z \in Slots : req[z].at = "llm.put" => req[z] \in ConfigHandlers
  BY SetupHandlersKnow DEF SetupType, At
<1> QED BY <1>1 DEF SetupType, TenantRowsType, Baselines, ConfigRows, ConfigHandlers

\* A step that writes nothing of the configurations: all that is asked of its
\* handler is that it has a published configuration in hand, if any.
LEMMA NoConfigStep ==
    ASSUME SetupType, ConfigsInOrder, NEW s \in Slots, NEW r \in SetupHandlers, Become(s, r),
           UNCHANGED llmVars, torn \subseteq torn', Known \subseteq Known', PutFits(r),
           r.at = "llm.put" /\ "baseline" \notin torn => Published(r.row)
    PROVE  ConfigsInOrder'
<1>1. req'[s] = r /\ \A z \in Slots \ {s} : req'[z] = req[z]
  BY SetupMoves DEF SetupType
<1>2. PutsInStep'
  BY <1>1 DEF ConfigsInOrder, PutsInStep
<1>3. UnknownIsEmpty'
  BY DEF ConfigsInOrder, UnknownIsEmpty, llmVars
<1>4. CopiesInOrder'
  <2> SUFFICES ASSUME "baseline" \notin torn' PROVE CopiesInStep' /\ BaselineIsPublished'
    BY DEF CopiesInOrder
  <2>1. CopiesInStep /\ BaselineIsPublished
    BY DEF ConfigsInOrder, CopiesInOrder
  <2>2. BaselineIsPublished' /\ \A t \in TenantIds : (configs[t] # None => Published(configs[t]))'
    BY <2>1 DEF CopiesInStep, BaselineIsPublished, Published, llmVars
  <2>3. ASSUME NEW z \in Slots, req'[z].at = "llm.put"
        PROVE  Published(req[z].row)'
    <3> PICK q \in SetupHandlers : q = req'[z]
      BY SetupMoves DEF SetupType
    <3>1. Published(q.row)
      BY <1>1, <2>1, <2>3 DEF CopiesInStep
    <3> QED BY <3>1 DEF Published, llmVars
  <2> QED BY <2>2, <2>3 DEF CopiesInStep
<1> QED BY <1>2, <1>3, <1>4 DEF ConfigsInOrder

\* What becomes of a handler that has got the baseline.
LEMMA WithBaselineEffect ==
    ASSUME SetupType, NEW s \in Slots, req[s].at \in {"llm.read", "llm.init"},
           NEW b \in Baselines, WithBaseline(s, b)
    PROVE  \E r \in SetupHandlers :
                /\ Become(s, r) /\ r.at \in {"idle", "llm.update", "llm.put"}
                /\ r.at = "llm.update" => req[s].then = "update"
                /\ r.at = "llm.put" =>
                    /\ r.base = b /\ r.row.version = b.version
                    /\ r.row.config \in {b.config, "own"} /\ r.row \in ConfigRows
                /\ req[s].then = "copy" => r.at = "llm.put" /\ r.t = req[s].t
<1>1. req[s] \in ReadingHandlers
  BY SetupHandlersKnow DEF SetupType
<1>2. b.version \in 1 .. MaxVersion /\ b.config \in Configs
  BY DEF Baselines
<1>3. CASE req[s].then = "answer"
  <2>1. Become(s, Idle) /\ Idle \in SetupHandlers /\ Idle.at = "idle"
    BY <1>3, IdleMoves DEF WithBaseline, SetupHandlers, Idle
  <2> QED BY <1>3, <2>1
<1>4. CASE req[s].then = "update"
  <2> DEFINE r == [at |-> "llm.update", read |-> b, config |-> req[s].config]
  <2>1. req[s].config \in Configs
    BY <1>1, <1>4 DEF ReadingHandlers
  <2>2. r \in SetupHandlers
    BY <2>1 DEF SetupHandlers, BaselineHandlers
  <2>3. Become(s, r)
    BY <1>4 DEF WithBaseline
  <2> QED BY <1>4, <2>2, <2>3
<1>5. ASSUME req[s].then \in {"copy", "own"}
      PROVE  /\ req[s].t \in TenantIds
             /\ \A c \in {b.config, "own"} :
                    [at |-> "llm.put", t |-> req[s].t, read |-> None, base |-> b,
                     row |-> [version |-> b.version, config |-> c]] \in SetupHandlers
             /\ \A c \in {b.config, "own"} : [version |-> b.version, config |-> c] \in ConfigRows
  <2>1. req[s].t \in TenantIds
    BY <1>1, <1>5 DEF ReadingHandlers
  <2>2. \A c \in {b.config, "own"} : [version |-> b.version, config |-> c] \in ConfigRows
    BY <1>2 DEF ConfigRows
  <2> QED BY <2>1, <2>2 DEF SetupHandlers, ConfigHandlers
<1>6. CASE req[s].then = "copy"
  <2> DEFINE r == [at |-> "llm.put", t |-> req[s].t, read |-> None, base |-> b,
                   row |-> [version |-> b.version, config |-> b.config]]
  <2>1. Become(s, r)
    BY <1>6 DEF WithBaseline
  <2>2. r \in SetupHandlers /\ r.row \in ConfigRows
    BY <1>5, <1>6
  <2> QED BY <1>6, <2>1, <2>2
<1>7. CASE req[s].then = "own"
  <2> DEFINE r == [at |-> "llm.put", t |-> req[s].t, read |-> None, base |-> b,
                   row |-> [version |-> b.version, config |-> "own"]]
  <2>1. Become(s, r)
    BY <1>7 DEF WithBaseline
  <2>2. r \in SetupHandlers /\ r.row \in ConfigRows
    BY <1>5, <1>7
  <2> QED BY <1>7, <2>1, <2>2
<1>8. req[s].then \in {"answer", "update", "copy", "own"}
  BY <1>1 DEF ReadingHandlers
<1> QED BY <1>3, <1>4, <1>6, <1>7, <1>8

\* The first baseline: nobody has copied one yet, or the baseline is torn.
LEMMA PutFirstBaselineConfigs ==
    ASSUME SetupType, ConfigsInOrder, NEW s \in Slots, PutFirstBaseline(s)
    PROVE  ConfigsInOrder' /\ TenantRowsType'
<1> DEFINE first == [version |-> 1, config |-> DefaultConfig]
<1>1. /\ req[s].at = "llm.init" /\ baseline' = first
      /\ published' = [published EXCEPT ![1] = DefaultConfig]
      /\ "baseline" \notin torn' => baseline = None
      /\ torn \subseteq torn' /\ WithBaseline(s, first)
      /\ UNCHANGED <<metas, slugs, made, configs>>
  BY DEF PutFirstBaseline, At, Tear, slugVars
<1>2. first \in Baselines /\ first # None /\ 1 \in 1 .. MaxVersion
  BY TenantsAssumption DEF Baselines
<1>3. PICK r \in SetupHandlers :
            /\ Become(s, r)
            /\ r.at = "llm.put" => /\ r.base = first /\ r.row.version = 1
                                   /\ r.row.config \in {DefaultConfig, "own"}
  <2>1. req[s].at \in {"llm.read", "llm.init"}
    BY <1>1
  <2> QED BY <1>1, <1>2, <2>1, WithBaselineEffect
<1>4. req'[s] = r /\ \A z \in Slots \ {s} : req'[z] = req[z]
  BY <1>3, SetupMoves DEF SetupType
<1>5. PutsInStep'
  <2>1. PutFits(r)
    BY <1>2, <1>3 DEF PutFits
  <2> QED BY <1>4, <2>1 DEF ConfigsInOrder, PutsInStep
<1>6. UnknownIsEmpty'
  BY <1>1 DEF ConfigsInOrder, UnknownIsEmpty, Known
<1>7. published' \in [1 .. MaxVersion -> Configs \cup {None}] /\ published'[1] = DefaultConfig
  BY <1>1, <1>2, TenantsAssumption DEF SetupType, TenantRowsType
<1>8. CopiesInOrder'
  <2> SUFFICES ASSUME "baseline" \notin torn' PROVE CopiesInStep' /\ BaselineIsPublished'
    BY DEF CopiesInOrder
  <2>1. CopiesInStep /\ baseline = None
    BY <1>1 DEF ConfigsInOrder, CopiesInOrder
  <2>2. \A t \in TenantIds : configs'[t] = None
    BY <1>1, <2>1 DEF CopiesInStep, Published
  <2>3. ASSUME NEW z \in Slots, req'[z].at = "llm.put"
        PROVE  Published(req[z].row)'
    <3>1. z = s
      BY <1>4, <2>1, <2>3 DEF CopiesInStep, Published
    <3> QED BY <1>1, <1>2, <1>3, <1>4, <1>7, <2>3, <3>1 DEF Published
  <2>4. BaselineIsPublished'
    BY <1>1, <1>7 DEF BaselineIsPublished
  <2> QED BY <2>2, <2>3, <2>4 DEF CopiesInStep
<1> QED BY <1>1, <1>2, <1>5, <1>6, <1>7, <1>8 DEF ConfigsInOrder, SetupType, TenantRowsType

\* An update publishes the next version, which nobody has copied yet, or the
\* baseline is torn.
LEMMA PutBaselineConfigs ==
    ASSUME SetupType, ConfigsInOrder, NEW s \in Slots, PutBaseline(s)
    PROVE  /\ ConfigsInOrder' /\ TenantRowsType'
           /\ \E r \in SetupHandlers :
                /\ Become(s, r)
                /\ \/ /\ slugs[PlatformSlug] \in Known
                      /\ r.at = "llm.read" /\ r.then = "copy" /\ r.t = slugs[PlatformSlug]
                   \/ r = Idle /\ (slugs[PlatformSlug] \in Known => slugs[PlatformSlug] \in torn')
           /\ req[s].at = "llm.update" /\ torn \subseteq torn'
<1>1. req[s] \in BaselineHandlers /\ req[s].at = "llm.update"
  BY SetupHandlersKnow DEF PutBaseline, SetupType, At
<1>2. PICK read \in Baselines, c \in Configs : read = req[s].read /\ c = req[s].config
  BY <1>1 DEF BaselineHandlers
<1> DEFINE v == read.version + 1
           next == [version |-> v, config |-> c]
<1>3. /\ baseline' = next /\ published' = [published EXCEPT ![v] = c] /\ v <= MaxVersion
      /\ "baseline" \notin torn' => baseline = read
      /\ torn \subseteq torn' /\ UNCHANGED <<metas, slugs, made, configs>>
  BY <1>2 DEF PutBaseline, At, slugVars
<1>4. read.version \in 1 .. MaxVersion /\ v \in 1 .. MaxVersion
  BY <1>3, TenantsAssumption DEF Baselines
<1>5. next \in Baselines /\ next # None /\ read # None
  BY <1>4, TenantsAssumption DEF Baselines
<1>6. PICK r \in SetupHandlers :
            /\ Become(s, r)
            /\ \/ /\ slugs[PlatformSlug] \in Known
                  /\ r.at = "llm.read" /\ r.then = "copy" /\ r.t = slugs[PlatformSlug]
               \/ r = Idle /\ (slugs[PlatformSlug] \in Known => slugs[PlatformSlug] \in torn')
  <2> DEFINE r == [at |-> "llm.read", t |-> slugs[PlatformSlug], then |-> "copy"]
  <2>1. \/ slugs[PlatformSlug] \in Known /\ Become(s, r)
        \/ Return(s) /\ (slugs[PlatformSlug] \in Known => slugs[PlatformSlug] \in torn')
    <3>1. PICK found \in {slugs[PlatformSlug], None} :
            /\ IF found \in Known
               THEN Become(s, [at |-> "llm.read", t |-> found, then |-> "copy"])
               ELSE Return(s)
            /\ torn' = torn \cup {x \in {"baseline"} : baseline # req[s].read}
                            \cup {t \in Known : t = slugs[PlatformSlug] /\ t # found}
      BY DEF PutBaseline
    <3>2. CASE found \in Known
      <4>1. found = slugs[PlatformSlug]
        BY <3>1, <3>2, TenantsAssumption DEF Known
      <4> QED BY <3>1, <3>2, <4>1
    <3>3. CASE found \notin Known
      <4>1. slugs[PlatformSlug] \in Known => slugs[PlatformSlug] # found
        BY <3>3
      <4> QED BY <3>1, <3>3, <4>1
    <3> QED BY <3>2, <3>3
  <2>2. CASE slugs[PlatformSlug] \in Known /\ Become(s, r)
    <3>1. r \in SetupHandlers
      BY <2>2 DEF SetupHandlers, ReadingHandlers, Known
    <3> QED BY <2>2, <3>1
  <2>3. CASE Return(s) /\ (slugs[PlatformSlug] \in Known => slugs[PlatformSlug] \in torn')
    <3>1. Become(s, Idle) /\ Idle \in SetupHandlers
      BY <2>3, IdleMoves DEF SetupHandlers
    <3> QED BY <2>3, <3>1
  <2> QED BY <2>1, <2>2, <2>3
<1>7. req'[s] = r /\ \A z \in Slots \ {s} : req'[z] = req[z]
  BY <1>6, SetupMoves DEF SetupType
<1>8. r.at # "llm.put"
  BY <1>6 DEF Idle
<1>9. PutsInStep'
  BY <1>7, <1>8 DEF ConfigsInOrder, PutsInStep, PutFits
<1>10. UnknownIsEmpty'
  BY <1>3 DEF ConfigsInOrder, UnknownIsEmpty, Known
<1>11. /\ published' \in [1 .. MaxVersion -> Configs \cup {None}]
       /\ \A n \in 1 .. MaxVersion : published'[n] = IF n = v THEN c ELSE published[n]
  BY <1>3, <1>4 DEF SetupType, TenantRowsType
<1>12. CopiesInOrder'
  <2> SUFFICES ASSUME "baseline" \notin torn' PROVE CopiesInStep' /\ BaselineIsPublished'
    BY DEF CopiesInOrder
  <2>1. CopiesInStep /\ baseline = read
    BY <1>3 DEF ConfigsInOrder, CopiesInOrder
  <2>2. \A row \in ConfigRows : Published(row) => Published(row)'
    <3> SUFFICES ASSUME NEW row \in ConfigRows, Published(row) PROVE Published(row)'
      OBVIOUS
    <3>1. row.version \in 1 .. MaxVersion /\ row.version <= read.version
      BY <2>1 DEF ConfigRows, Published
    <3>2. row.version # v /\ row.version <= v
      BY <1>4, <3>1
    <3> QED BY <1>3, <1>5, <1>11, <3>1, <3>2 DEF Published
  <2>3. \A t \in TenantIds : (configs[t] # None => Published(configs[t]))'
    <3> SUFFICES ASSUME NEW t \in TenantIds, configs'[t] # None PROVE Published(configs[t])'
      OBVIOUS
    <3> PICK row \in ConfigRows : row = configs'[t]
      BY <1>3, PublishedTypes
    <3>1. Published(row)'
      BY <1>3, <2>1, <2>2 DEF CopiesInStep
    <3> QED BY <3>1 DEF Published
  <2>4. ASSUME NEW z \in Slots, req'[z].at = "llm.put"
        PROVE  Published(req[z].row)'
    <3>1. z # s /\ req'[z] = req[z] /\ req[z].at = "llm.put"
      BY <1>7, <1>8, <2>4
    <3> PICK row \in ConfigRows : row = req[z].row
      BY <3>1, PublishedTypes
    <3>2. Published(row)'
      BY <2>1, <2>2, <3>1 DEF CopiesInStep
    <3> QED BY <3>1, <3>2 DEF Published
  <2>5. BaselineIsPublished'
    BY <1>3, <1>4, <1>11 DEF BaselineIsPublished
  <2> QED BY <2>3, <2>4, <2>5 DEF CopiesInStep
<1> QED BY <1>1, <1>3, <1>5, <1>6, <1>9, <1>10, <1>11, <1>12
        DEF ConfigsInOrder, SetupType, TenantRowsType

\* A configuration is put as it was in hand.
LEMMA PutConfigConfigs ==
    ASSUME SetupType, ConfigsInOrder, NEW s \in Slots, PutConfig(s)
    PROVE  /\ ConfigsInOrder' /\ TenantRowsType'
           /\ Become(s, Idle) /\ req[s].at = "llm.put" /\ torn \subseteq torn'
<1>1. /\ req[s].at = "llm.put" /\ Become(s, Idle) /\ torn \subseteq torn'
      /\ configs' = [configs EXCEPT ![req[s].t] = req[s].row]
      /\ UNCHANGED <<metas, slugs, made, baseline, published>>
      /\ req[s].t \in Known \cup torn'
  BY IdleMoves DEF PutConfig, At, Tear, slugVars
<1>2. req[s].t \in TenantIds /\ req[s].row \in ConfigRows
  BY <1>1, PublishedTypes
<1>3. Idle \in SetupHandlers /\ Idle.at = "idle"
  BY DEF SetupHandlers, Idle
<1>4. req'[s] = Idle /\ \A z \in Slots \ {s} : req'[z] = req[z]
  BY <1>1, <1>3, SetupMoves DEF SetupType
<1>5. /\ configs' \in [TenantIds -> ConfigRows \cup {None}]
      /\ \A t \in TenantIds : configs'[t] = IF t = req[s].t THEN req[s].row ELSE configs[t]
  BY <1>1, <1>2 DEF SetupType, TenantRowsType
<1>6. PutsInStep'
  BY <1>3, <1>4 DEF ConfigsInOrder, PutsInStep, PutFits
<1>7. UnknownIsEmpty'
  BY <1>1, <1>5 DEF ConfigsInOrder, UnknownIsEmpty, Known
<1>8. CopiesInOrder'
  <2> SUFFICES ASSUME "baseline" \notin torn' PROVE CopiesInStep' /\ BaselineIsPublished'
    BY DEF CopiesInOrder
  <2>1. CopiesInStep /\ BaselineIsPublished
    BY <1>1 DEF ConfigsInOrder, CopiesInOrder
  <2>2. ASSUME NEW t \in TenantIds, configs'[t] # None
        PROVE  Published(configs[t])'
    BY <1>1, <1>5, <2>1, <2>2 DEF CopiesInStep, Published
  <2>3. ASSUME NEW z \in Slots, req'[z].at = "llm.put"
        PROVE  Published(req[z].row)'
    BY <1>1, <1>3, <1>4, <2>1, <2>3 DEF CopiesInStep, Published
  <2>4. BaselineIsPublished'
    BY <1>1, <2>1 DEF BaselineIsPublished
  <2> QED BY <2>2, <2>3, <2>4 DEF CopiesInStep
<1> QED BY <1>1, <1>5, <1>6, <1>7, <1>8 DEF ConfigsInOrder, SetupType, TenantRowsType

-----------------------------------------------------------------------------
\* A tenant stays current when nothing is written of the configurations and
\* the handler that moves copies on, if it did.
LEMMA CurrentKept ==
    ASSUME SetupType, NEW s \in Slots, NEW r \in SetupHandlers, Become(s, r),
           UNCHANGED llmVars, torn \subseteq torn', NEW t, Current(t),
           Copying(s, t) => t \in torn' \/ Copying(s, t)'
    PROVE  Current(t)'
<1>1. req'[s] = r /\ \A z \in Slots \ {s} : req'[z] = req[z]
  BY SetupMoves DEF SetupType
<1>2. CASE "baseline" \in torn \/ "platform" \in torn \/ t \in torn
  BY <1>2 DEF Current
<1>3. CASE configs[t] # None /\ baseline # None /\ configs[t].version = baseline.version
  BY <1>3 DEF Current, llmVars
<1>4. ASSUME NEW z \in Slots, Copying(z, t)
      PROVE  Current(t)'
  <2>1. CASE z = s
    BY <1>4, <2>1 DEF Current
  <2>2. CASE z # s
    <3>1. Copying(z, t)'
      BY <1>1, <1>4, <2>2 DEF Copying, llmVars
    <3> QED BY <3>1 DEF Current
  <2> QED BY <2>1, <2>2
<1> QED BY <1>2, <1>3, <1>4 DEF Current

\* Whatever keeps the current tenants current and the platform on its slug
\* keeps the platform current, if its own handler waits for nothing else.
LEMMA PlatformStep ==
    ASSUME SetupType, PlatformIsCurrent, NEW s \in Slots, NEW r \in SetupHandlers, Become(s, r),
           \A t : Current(t) => Current(t)',
           "platform" \in torn' \/ \A t : IsPlatform(t) => IsPlatform(t)',
           \A t : slugs'[PlatformSlug] = t /\ t \in Known' =>
                    Current(t)' \/ (slugs[PlatformSlug] = t /\ t \in Known),
           Awaits(r)'
    PROVE  PlatformIsCurrent'
<1>1. req'[s] = r /\ \A z \in Slots \ {s} : req'[z] = req[z]
  BY SetupMoves DEF SetupType
<1>2. (slugs[PlatformSlug] \in Known => Current(slugs[PlatformSlug]))'
  <2> SUFFICES ASSUME NEW t, t = slugs'[PlatformSlug], t \in Known'
               PROVE  Current(t)'
    BY DEF Current, Copying
  <2>1. CASE Current(t)'
    BY <2>1
  <2>2. CASE slugs[PlatformSlug] = t /\ t \in Known
    <3>1. Current(t)
      BY <2>2 DEF PlatformIsCurrent
    <3> QED BY <3>1
  <2> QED BY <2>1, <2>2
<1>3. "platform" \in torn' \/ \A t : Doubled(t) => Doubled(t)'
  BY DEF Doubled, IsPlatform
<1>4. ASSUME NEW z \in Slots
      PROVE  Awaits(req[z])'
  <2> PICK q \in SetupHandlers : q = req'[z]
    BY SetupMoves DEF SetupType
  <2>1. CASE z = s
    <3>1. q = r
      BY <1>1, <2>1
    <3> QED BY <3>1 DEF Awaits, Reputs, Current, Doubled, Copying
  <2>2. CASE z # s
    <3>1. Awaits(q)
      BY <1>1, <2>2 DEF PlatformIsCurrent
    <3>2. Awaits(q)'
      <4>1. Reputs(q)' => Reputs(q)
        BY DEF Reputs
      <4>2. "platform" \in torn' => Current(q.t)'
        BY DEF Current
      <4> QED BY <1>3, <3>1, <4>1, <4>2 DEF Awaits
    <3> QED BY <3>2 DEF Awaits, Reputs, Current, Doubled, Copying
  <2> QED BY <2>1, <2>2
<1> QED BY <1>2, <1>4 DEF PlatformIsCurrent

\* What one handler may do all may do.
LEMMA PermittedKept ==
    ASSUME SetupType, NEW updates, \A z \in Slots : Permitted(updates, req[z]),
           NEW s \in Slots, NEW r \in SetupHandlers, Become(s, r), Permitted(updates, r)
    PROVE  \A z \in Slots : Permitted(updates, req'[z])
<1>1. req'[s] = r /\ \A z \in Slots \ {s} : req'[z] = req[z]
  BY SetupMoves DEF SetupType
<1> QED BY <1>1

\* A step that writes no row.
LEMMA QuietSetupStep ==
    ASSUME NEW updates, SetupInv(updates), NEW s \in Slots, NEW r \in SetupHandlers, Become(s, r),
           UNCHANGED <<metas, slugs, llmVars, purgeVars>>, made' \in SUBSET TenantIds,
           torn \subseteq torn', RenamesInOrder', PutFits(r),
           r.at = "llm.put" /\ "baseline" \notin torn => Published(r.row),
           \A t : Copying(s, t) => t \in torn' \/ Copying(s, t)',
           "platform" \in torn' \/ Awaits(r), Permitted(updates, r)
    PROVE  SetupInv(updates)'
<1>1. SetupType'
  BY SetupMoves DEF SetupInv, SetupType, TenantRowsType, llmVars
<1>2. Known' = Known /\ \A t : IsPlatform(t)' <=> IsPlatform(t)
  BY DEF Known, IsPlatform
<1>3. ConfigsInOrder'
  BY <1>2, NoConfigStep DEF SetupInv
<1>4. \A t : Current(t) => Current(t)'
  BY CurrentKept DEF SetupInv
<1>5. Awaits(r)'
  <2>1. CASE "platform" \in torn'
    BY <2>1 DEF Awaits, Current
  <2>2. CASE Awaits(r)
    BY <1>2, <1>4, <2>2 DEF Awaits, Doubled, IsPlatform
  <2> QED BY <2>1, <2>2
<1>6. PlatformIsCurrent'
  BY <1>2, <1>4, <1>5, PlatformStep DEF SetupInv, PlatformInOrder
<1>7. PlatformInOrder(updates)'
  BY <1>6, PermittedKept DEF SetupInv, PlatformInOrder
<1>8. NoPeople'
  BY DEF SetupInv, NoPeople, purgeVars
<1> QED BY <1>1, <1>3, <1>7, <1>8 DEF SetupInv

\* An idle slot copies nothing.
LEMMA IdleCopiesNothing ==
    ASSUME NEW s, req[s].at \notin {"llm.read", "llm.init", "llm.put"}
    PROVE  \A t : ~Copying(s, t)
BY DEF Copying

\* A handler that starts a rename needs no more than its place among the others.
LEMMA RenameHandlerStep ==
    ASSUME NEW updates, SetupInv(updates), NEW s \in Slots, NEW r \in SetupHandlers, Become(s, r),
           UNCHANGED <<metas, slugs, llmVars, purgeVars>>, torn \subseteq torn',
           made' \in SUBSET TenantIds, RenamesInOrder', r.at \in RenameSteps,
           req[s].at \notin {"llm.read", "llm.init", "llm.put"},
           "platform" \in torn' \/ Awaits(r), Permitted(updates, r)
    PROVE  SetupInv(updates)'
<1>1. r.at # "llm.put"
  BY DEF RenameSteps
<1>2. PutFits(r)
  BY <1>1 DEF PutFits
<1> QED BY <1>1, <1>2, IdleCopiesNothing, QuietSetupStep

\* A firm's or the platform's own row is put for a new id.
LEMMA CreateRowStep ==
    ASSUME NEW updates, SetupInv(updates), NEW s \in Slots, NEW t \in TenantIds \ made,
           NEW row \in SluggedRows, made' = made \cup {t},
           UNCHANGED <<metas, slugs, llmVars, purgeVars>>, torn \subseteq torn',
           Begin(s, [at |-> "tenant.put", t |-> t, then |-> "copy", row |-> row])
    PROVE  SetupInv(updates)'
<1> DEFINE r == [at |-> "tenant.put", t |-> t, then |-> "copy", row |-> row]
<1>1. Become(s, r) /\ req[s].at = "idle"
  BY BeginMoves
<1>2. RenamesInOrder'
  BY <1>1, CreationStep DEF SetupInv
<1>3. r \in SetupHandlers
  BY DEF SetupHandlers, RenameHandlers, Thens
<1>4. Awaits(r) /\ Permitted(updates, r)
  BY DEF Awaits, Reputs, Permitted
<1>5. r.at \in RenameSteps
  BY DEF RenameSteps
<1>6. made' \in SUBSET TenantIds
  BY DEF SetupInv, SetupType, TenantRowsType
<1> QED BY <1>1, <1>2, <1>3, <1>4, <1>5, <1>6, RenameHandlerStep

\* ensure_platform_tenant
LEMMA EnsurePlatformTenantStep ==
    ASSUME NEW updates, SetupInv(updates), NEW s \in Slots, NEW t \in TenantIds,
           EnsurePlatformTenant(s, t)
    PROVE  SetupInv(updates)'
<1>1. [slug |-> PlatformSlug, base |-> PlatformBase] \in SluggedRows
  BY TenantsAssumption, PlatformSlugIsASlug DEF SluggedRows
<1>2. torn \subseteq torn'
  BY DEF EnsurePlatformTenant, Tear
<1> QED BY <1>1, <1>2, CreateRowStep DEF EnsurePlatformTenant

\* create_tenant
LEMMA CreateTenantStep ==
    ASSUME NEW updates, SetupInv(updates), NEW s \in Slots, NEW t \in TenantIds,
           NEW b \in SlugBases, CreateTenant(s, t, b)
    PROVE  SetupInv(updates)'
<1>1. t \notin made /\ t \notin Known
  BY DEF CreateTenant, SetupInv, RenamesInOrder, CreationsAreAlone
<1>2. UniqueSlug(b, KnownSlugs) \in Slugs
  BY <1>1, SlugIsFree DEF SetupInv, SetupType, TenantRowsType
<1>3. [slug |-> UniqueSlug(b, KnownSlugs), base |-> b] \in SluggedRows
  BY <1>2 DEF SluggedRows
<1> QED BY <1>1, <1>3, CreateRowStep DEF CreateTenant

\* The slug of the platform is asked for by its own tenant only, and not given
\* up, or the platform is torn.
LEMMA UpdateTenantStep ==
    ASSUME SetupInv(FALSE), NEW s \in Slots, NEW t \in TenantIds, Serving,
           NEW slug \in Slugs \cup {None}, UpdateTenant(s, t, slug)
    PROVE  SetupInv(FALSE)'
<1> DEFINE row == [metas[t] EXCEPT !.slug = IF slug = None THEN @ ELSE slug]
           r == [at |-> "tenant.put", t |-> t, then |-> "answer", row |-> row]
<1>1. /\ t \in Known /\ metas[t].slug # None
      /\ UNCHANGED <<slugVars, llmVars, purgeVars>> /\ torn \subseteq torn'
      /\ "platform" \notin torn' /\ slug \notin {None, metas[t].slug} =>
            PlatformSlug \notin {slug, metas[t].slug}
      /\ Become(s, r) /\ req[s].at = "idle"
  BY BeginMoves DEF UpdateTenant
<1>2. metas[t] \in MetaRows /\ metas[t].slug \in Slugs
  BY <1>1 DEF SetupInv, SetupType, TenantRowsType, Known, MetaRows
<1>3. /\ row \in SluggedRows /\ row.slug = IF slug = None THEN metas[t].slug ELSE slug
  BY <1>2 DEF MetaRows, SluggedRows
<1>4. r \in SetupHandlers
  BY <1>3 DEF SetupHandlers, RenameHandlers, Thens
<1>5. "platform" \notin torn' => IsPlatform(slugs[PlatformSlug]) /\ Current(slugs[PlatformSlug])
  BY <1>1 DEF Serving, SetupInv, RenamesInOrder, PlatformKeepsSlug, PlatformIsProtected,
              PlatformInOrder, PlatformIsCurrent
<1>6. "platform" \notin torn' => (row.slug = PlatformSlug <=> IsPlatform(t))
  BY <1>1, <1>3 DEF IsPlatform
<1>7. r.at = "tenant.put" /\ r.t = t /\ r.then = "answer" /\ r.row = row
  OBVIOUS
<1> HIDE DEF row, r
<1>8. PICK q \in SetupHandlers : q = r
  BY <1>4
<1>9. "platform" \notin torn' => KeepsPlatform(q)
  BY <1>6, <1>7, <1>8 DEF KeepsPlatform
<1>10. UNCHANGED slugVars /\ UNCHANGED <<metas, slugs, llmVars, purgeVars, made>>
  BY <1>1 DEF slugVars
<1>11. RenamesInOrder'
  BY <1>1, <1>7, <1>8, <1>9, <1>10, RenamingStep DEF SetupInv
<1>12. "platform" \in torn' \/ Awaits(q)
  <2> SUFFICES ASSUME "platform" \notin torn', IsPlatform(t) PROVE Current(t) \/ Doubled(t)
    BY <1>6, <1>7, <1>8 DEF Awaits, Reputs
  <2> QED BY <1>5 DEF Doubled, IsPlatform
<1>13. Permitted(FALSE, q) /\ q.at \in RenameSteps
  BY <1>7, <1>8 DEF Permitted, RenameSteps
<1>14. made' \in SUBSET TenantIds
  BY <1>10 DEF SetupInv, SetupType, TenantRowsType
<1> QED BY <1>1, <1>8, <1>10, <1>11, <1>12, <1>13, <1>14, RenameHandlerStep

\* get_tenant and list_tenants give a slug to a row that has none, and never
\* the slug of the platform.
LEMMA BackfillSlugStep ==
    ASSUME NEW updates, SetupInv(updates), NEW s \in Slots, NEW t \in TenantIds,
           BackfillSlug(s, t)
    PROVE  SetupInv(updates)'
<1> DEFINE old == metas[t]
           row == [metas[t] EXCEPT !.slug = UniqueSlug(metas[t].base, KnownSlugs)]
           r == [at |-> "tenant.meta", t |-> t, old |-> old, previous |-> None,
                 then |-> "answer", row |-> row]
<1>1. /\ t \in Known /\ metas[t].slug = None /\ UNCHANGED tenantVars
      /\ Become(s, r) /\ req[s].at = "idle"
  BY BeginMoves DEF BackfillSlug
<1>2. old \in MetaRows /\ old.base \in SlugBases /\ old.base # PlatformBase
  BY <1>1 DEF SetupInv, SetupType, TenantRowsType, Known, MetaRows, RenamesInOrder,
              PlatformKeepsSlug
<1>3. /\ UniqueSlug(old.base, KnownSlugs) \in Slugs
      /\ UniqueSlug(old.base, KnownSlugs)[1] = old.base
  BY <1>1, <1>2, SlugIsFree DEF SetupInv, SetupType, TenantRowsType
<1>4. row \in SluggedRows /\ row.slug = UniqueSlug(old.base, KnownSlugs)
  BY <1>2, <1>3 DEF MetaRows, SluggedRows
<1>5. row.slug # PlatformSlug
  BY <1>2, <1>3, <1>4 DEF PlatformSlug
<1>6. r \in SetupHandlers
  BY <1>2, <1>4 DEF SetupHandlers, RenameHandlers, Thens
<1>7. /\ r.at = "tenant.meta" /\ r.t = t /\ r.then = "answer" /\ r.row = row
      /\ r.old = old /\ r.previous = None
  OBVIOUS
<1>8. old # None /\ old.slug = None
  BY <1>1 DEF Known
<1> HIDE DEF old, row, r
<1>9. PICK q \in SetupHandlers : q = r
  BY <1>6
<1>10. KeepsPlatform(q)
  <2>1. ~IsPlatform(t)
    BY <1>1, PlatformSlugIsASlug, TenantsAssumption DEF IsPlatform
  <2> QED BY <1>5, <1>7, <1>9, <2>1 DEF KeepsPlatform
<1>11. UNCHANGED slugVars /\ UNCHANGED <<metas, slugs, llmVars, purgeVars, torn, made>>
  BY <1>1 DEF tenantVars, slugVars
<1>12. RenamesInOrder'
  BY <1>1, <1>7, <1>8, <1>9, <1>10, <1>11, RenamingStep DEF SetupInv
<1>13. Awaits(q) /\ Permitted(updates, q) /\ q.at \in RenameSteps
  BY <1>5, <1>7, <1>9 DEF Awaits, Reputs, Permitted, RenameSteps
<1>14. made' \in SUBSET TenantIds
  BY <1>11 DEF SetupInv, SetupType, TenantRowsType
<1> QED BY <1>1, <1>9, <1>11, <1>12, <1>13, <1>14, RenameHandlerStep

\* A handler of the configurations moves on without a write.
LEMMA LlmHandlerStep ==
    ASSUME NEW updates, SetupInv(updates), NEW s \in Slots, NEW r \in SetupHandlers, Become(s, r),
           UNCHANGED tenantVars, req[s].at \notin RenameSteps, r.at \notin RenameSteps,
           PutFits(r), r.at = "llm.put" /\ "baseline" \notin torn => Published(r.row),
           \A t : Copying(s, t) => Copying(s, t)', Permitted(updates, r)
    PROVE  SetupInv(updates)'
<1>1. /\ UNCHANGED slugVars /\ UNCHANGED <<metas, slugs, llmVars, purgeVars>>
      /\ torn' = torn /\ made' = made
  BY DEF tenantVars, slugVars
<1>2. ~Holds(req[s])
  BY DEF Holds, RenameSteps
<1>3. RenamesInOrder'
  BY <1>1, <1>2, NoRenameStep DEF SetupInv
<1>4. Awaits(r)
  BY DEF Awaits, Reputs
<1>5. made' \in SUBSET TenantIds
  BY <1>1 DEF SetupInv, SetupType, TenantRowsType
<1> QED BY <1>1, <1>3, <1>4, <1>5, QuietSetupStep

\* A request that reads the baseline begins.
LEMMA ReaderBegins ==
    ASSUME NEW updates, SetupInv(updates), NEW s \in Slots, NEW r \in ReadingHandlers,
           r.at = "llm.read", Begin(s, r), UNCHANGED tenantVars, Permitted(updates, r)
    PROVE  SetupInv(updates)'
<1>1. Become(s, r) /\ req[s].at = "idle"
  BY BeginMoves
<1>2. r \in SetupHandlers
  BY DEF SetupHandlers
<1>3. PutFits(r) /\ r.at \notin RenameSteps /\ req[s].at \notin RenameSteps
  BY <1>1 DEF PutFits, RenameSteps
<1>4. \A t : ~Copying(s, t)
  BY <1>1 DEF Copying
<1> QED BY <1>1, <1>2, <1>3, <1>4, LlmHandlerStep

\* The requests of the LLM lab, in the area of the updates.
LEMMA LlmRequestStep ==
    ASSUME SetupInv(TRUE), NEW s \in Slots, NEW t \in TenantIds, LlmRequest(s, t)
    PROVE  SetupInv(TRUE)'
<1>1. ASSUME NEW config \in Configs, UpdateBaseline(s, config)
      PROVE  SetupInv(TRUE)'
  <2> DEFINE r == [at |-> "llm.read", then |-> "update", config |-> config]
  <2>1. r \in ReadingHandlers
    BY DEF ReadingHandlers
  <2>2. Permitted(TRUE, r)
    BY DEF Permitted, Reputs, RenameSteps
  <2> QED BY <1>1, <2>1, <2>2, ReaderBegins DEF UpdateBaseline
<1>2. ASSUME GetBaseline(s)
      PROVE  SetupInv(TRUE)'
  <2> DEFINE r == [at |-> "llm.read", then |-> "answer"]
  <2>1. r \in ReadingHandlers
    BY DEF ReadingHandlers
  <2>2. Permitted(TRUE, r)
    BY DEF Permitted, Reputs, RenameSteps
  <2> QED BY <1>2, <2>1, <2>2, ReaderBegins DEF GetBaseline
<1>3. ASSUME NEW then \in {"copy", "own"},
             Begin(s, [at |-> "llm.read", t |-> t, then |-> then]), UNCHANGED tenantVars
      PROVE  SetupInv(TRUE)'
  <2> DEFINE r == [at |-> "llm.read", t |-> t, then |-> then]
  <2>1. r \in ReadingHandlers
    BY DEF ReadingHandlers
  <2>2. Permitted(TRUE, r)
    BY DEF Permitted, Reputs, RenameSteps
  <2> QED BY <1>3, <2>1, <2>2, ReaderBegins
<1>4. ASSUME configs[t] # None, UNCHANGED tenantVars,
             Begin(s, [at |-> "llm.put", t |-> t, read |-> configs[t], base |-> baseline,
                       row |-> [configs[t] EXCEPT !.config = "own"]])
      PROVE  SetupInv(TRUE)'
  <2> PICK found \in ConfigRows, b \in Baselines \cup {None} : found = configs[t] /\ b = baseline
    BY <1>4 DEF SetupInv, SetupType, TenantRowsType
  <2> DEFINE row == [found EXCEPT !.config = "own"]
             r == [at |-> "llm.put", t |-> t, read |-> found, base |-> b, row |-> row]
  <2>1. row \in ConfigRows /\ row.version = found.version /\ row.config = "own"
    BY DEF ConfigRows
  <2>2. r \in SetupHandlers
    BY <2>1 DEF SetupHandlers, ConfigHandlers
  <2>3. Become(s, r) /\ req[s].at = "idle"
    BY <1>4, BeginMoves
  <2>4. PutFits(r)
    BY <1>4, <2>1 DEF PutFits
  <2>5. "baseline" \notin torn => Published(row)
    BY <1>4, <2>1 DEF SetupInv, ConfigsInOrder, CopiesInOrder, CopiesInStep, Published
  <2>6. Permitted(TRUE, r) /\ r.at \notin RenameSteps /\ req[s].at \notin RenameSteps
    BY <2>3 DEF Permitted, Reputs, RenameSteps
  <2>7. \A u : ~Copying(s, u)
    BY <2>3 DEF Copying
  <2> QED BY <1>4, <2>2, <2>3, <2>4, <2>5, <2>6, <2>7, LlmHandlerStep
<1>5. ASSUME UpdateTenantLlm(s, t)
      PROVE  SetupInv(TRUE)'
  <2> PICK found \in {configs[t], None} :
        IF found = None
        THEN Begin(s, [at |-> "llm.read", t |-> t, then |-> "own"])
        ELSE Begin(s, [at |-> "llm.put", t |-> t, read |-> found, base |-> baseline,
                       row |-> [found EXCEPT !.config = "own"]])
    BY <1>5 DEF UpdateTenantLlm
  <2>1. UNCHANGED tenantVars
    BY <1>5 DEF UpdateTenantLlm
  <2> QED BY <1>3, <1>4, <2>1
<1> QED BY <1>1, <1>2, <1>3, <1>5 DEF LlmRequest, CopyBaseline

\* ensure_llm_baseline: who has read a baseline, or the one before it, goes on
\* with it, who has not goes on to put the first.
LEMMA ReadBaselineStep ==
    ASSUME NEW updates, SetupInv(updates), NEW s \in Slots, ReadBaseline(s)
    PROVE  SetupInv(updates)'
<1>1. req[s].at = "llm.read" /\ UNCHANGED tenantVars
  BY DEF ReadBaseline, At
<1>2. req[s] \in ReadingHandlers /\ req[s].at \notin RenameSteps
  BY <1>1, SetupHandlersKnow DEF SetupInv, SetupType, RenameSteps
<1>3. Permitted(updates, req[s])
  BY DEF SetupInv, PlatformInOrder
<1> PICK found \in {baseline, None} \cup Superseded :
        IF found = None THEN Goto(s, "llm.init") ELSE WithBaseline(s, found)
  BY DEF ReadBaseline
<1>4. CASE found = None
  <2> DEFINE r == [req[s] EXCEPT !.at = "llm.init"]
  <2>1. Become(s, r)
    BY <1>4, GotoMoves DEF SetupInv
  <2>2. /\ r \in ReadingHandlers /\ r.at = "llm.init" /\ r.then = req[s].then
        /\ r.then = "copy" => r.t = req[s].t
    BY <1>2 DEF ReadingHandlers
  <2> HIDE DEF r
  <2> PICK q \in SetupHandlers : q = r
    BY <2>2 DEF SetupHandlers
  <2>3. PutFits(q) /\ q.at \notin RenameSteps
    BY <2>2 DEF PutFits, RenameSteps
  <2>4. Permitted(updates, q)
    BY <1>1, <1>3, <2>2 DEF Permitted, Reputs, RenameSteps
  <2>5. req'[s] = q
    BY <2>1, SetupMoves DEF SetupInv, SetupType
  <2>6. \A t : Copying(s, t) => Copying(s, t)'
    BY <1>1, <2>2, <2>5 DEF Copying
  <2> QED BY <1>1, <1>2, <2>1, <2>2, <2>3, <2>4, <2>6, LlmHandlerStep
<1>5. CASE found # None
  <2>0. /\ found \in Baselines /\ baseline \in Baselines
        /\ \/ found = baseline
           \/ /\ found.version <= baseline.version
              /\ found.config = published[found.version]
    <3>1. CASE found = baseline
      <4>1. baseline \in Baselines \cup {None}
        BY DEF SetupInv, SetupType, TenantRowsType
      <4> QED BY <1>5, <3>1, <4>1
    <3>2. CASE found # baseline
      <4>1. found \in Superseded
        BY <1>5, <3>2
      <4>2. PICK v \in 1 .. MaxVersion :
                /\ baseline # None /\ v = baseline.version - 1 /\ published[v] # None
                /\ found = [version |-> v, config |-> published[v]]
        BY <4>1 DEF Superseded
      <4>3. baseline \in Baselines /\ published[v] \in Configs /\ baseline.version \in Nat
        BY <4>2, TenantsAssumption DEF SetupInv, SetupType, TenantRowsType, Baselines
      <4>4. v <= baseline.version
        BY <4>2, <4>3
      <4> QED BY <4>2, <4>3, <4>4 DEF Baselines
    <3> QED BY <3>1, <3>2
  <2> PICK b \in Baselines : b = found /\ b # None
    BY <1>5, <2>0
  <2>1. WithBaseline(s, b)
    BY <1>5
  <2>2. PICK r \in SetupHandlers :
                /\ Become(s, r) /\ r.at \in {"idle", "llm.update", "llm.put"}
                /\ r.at = "llm.update" => req[s].then = "update"
                /\ r.at = "llm.put" =>
                    /\ r.base = b /\ r.row.version = b.version
                    /\ r.row.config \in {b.config, "own"} /\ r.row \in ConfigRows
                /\ req[s].then = "copy" => r.at = "llm.put" /\ r.t = req[s].t
    <3>1. SetupType /\ req[s].at \in {"llm.read", "llm.init"}
      BY <1>1 DEF SetupInv
    <3> QED BY <2>1, <3>1, WithBaselineEffect
  <2>3. PutFits(r) /\ r.at \notin RenameSteps
    BY <2>2 DEF PutFits, RenameSteps
  <2>4. Permitted(updates, r)
    BY <1>1, <1>3, <2>2 DEF Permitted, Reputs, RenameSteps
  <2>5. r.at = "llm.put" /\ "baseline" \notin torn => Published(r.row)
    <3>1. b.version \in Nat
      BY TenantsAssumption DEF Baselines
    <3>2. baseline # None
      BY <2>0, TenantsAssumption
    <3> QED BY <2>0, <2>2, <3>1, <3>2
            DEF SetupInv, ConfigsInOrder, CopiesInOrder, BaselineIsPublished, Published
  <2>6. req'[s] = r
    BY <2>2, SetupMoves DEF SetupInv, SetupType
  <2>7. \A t : Copying(s, t) => Copying(s, t)'
    BY <1>1, <2>2, <2>6 DEF Copying
  <2> QED BY <1>1, <1>2, <2>2, <2>3, <2>4, <2>5, <2>7, LlmHandlerStep
<1> QED BY <1>4, <1>5

-----------------------------------------------------------------------------
\* A step that writes a META or a SLUG row.
LEMMA TenantRowStep ==
    ASSUME NEW updates, SetupInv(updates), NEW s \in Slots, NEW r \in SetupHandlers, Become(s, r),
           UNCHANGED <<llmVars, purgeVars>>, TenantRowsType', torn \subseteq torn',
           RenamesInOrder', Known \subseteq Known',
           req[s].at \in RenameSteps, r.at # "llm.put",
           "platform" \in torn' \/ \A t : IsPlatform(t) => IsPlatform(t)',
           \A t : slugs'[PlatformSlug] = t /\ t \in Known' =>
                    Current(t)' \/ (slugs[PlatformSlug] = t /\ t \in Known),
           Awaits(r)', Permitted(updates, r)
    PROVE  SetupInv(updates)'
<1>1. SetupType'
  BY SetupMoves DEF SetupInv, SetupType
<1>2. PutFits(r)
  BY DEF PutFits
<1>3. ConfigsInOrder'
  BY <1>2, NoConfigStep DEF SetupInv
<1>4. \A t : ~Copying(s, t)
  BY DEF Copying, RenameSteps
<1>5. \A t : Current(t) => Current(t)'
  BY <1>4, CurrentKept DEF SetupInv
<1>6. PlatformIsCurrent'
  BY <1>5, PlatformStep DEF SetupInv, PlatformInOrder
<1>7. PlatformInOrder(updates)'
  BY <1>6, PermittedKept DEF SetupInv, PlatformInOrder
<1>8. NoPeople'
  BY DEF SetupInv, NoPeople, purgeVars
<1> QED BY <1>1, <1>3, <1>7, <1>8 DEF SetupInv

\* The put of a tenant looks for the old slug.
LEMMA PutTenantInOrder ==
    ASSUME NEW updates, SetupInv(updates), NEW s \in Slots, PutTenant(s)
    PROVE  SetupInv(updates)'
<1>1. /\ req[s].at = "tenant.put" /\ RenamesInOrder'
      /\ UNCHANGED <<slugVars, llmVars, purgeVars>> /\ torn \subseteq torn'
      /\ \E r \in SetupHandlers :
            /\ Become(s, r) /\ r.at \in {"tenant.unslug", "tenant.meta"}
            /\ r.t = req[s].t /\ r.then = req[s].then /\ r.row = req[s].row
  BY PutTenantStep DEF SetupInv
<1>2. PICK r \in SetupHandlers :
            /\ Become(s, r) /\ r.at \in {"tenant.unslug", "tenant.meta"}
            /\ r.t = req[s].t /\ r.then = req[s].then /\ r.row = req[s].row
  BY <1>1
<1>3. Awaits(req[s]) /\ Permitted(updates, req[s])
  BY DEF SetupInv, PlatformInOrder, PlatformIsCurrent
<1>4. Awaits(r) /\ Permitted(updates, r) /\ r.at \in RenameSteps
  BY <1>1, <1>2, <1>3 DEF Awaits, Reputs, Permitted, RenameSteps
<1>5. UNCHANGED <<metas, slugs, llmVars, purgeVars>> /\ made' \in SUBSET TenantIds
  BY <1>1 DEF slugVars, SetupInv, SetupType, TenantRowsType
<1> QED BY <1>1, <1>2, <1>4, <1>5, RenameHandlerStep

\* The old SLUG row goes.
LEMMA DeleteOldSlugInOrder ==
    ASSUME NEW updates, SetupInv(updates), NEW s \in Slots, DeleteOldSlug(s)
    PROVE  SetupInv(updates)'
<1>1. /\ req[s].at = "tenant.unslug" /\ torn \subseteq torn' /\ RenamesInOrder'
      /\ slugs' \in [Slugs -> TenantIds \cup {None}]
      /\ \A x \in Slugs : slugs'[x] \in {slugs[x], None}
      /\ \E r \in SetupHandlers :
            /\ Become(s, r) /\ r.at = "tenant.meta"
            /\ r.t = req[s].t /\ r.then = req[s].then /\ r.row = req[s].row
  BY DeleteOldSlugStep DEF SetupInv
<1>2. PICK r \in SetupHandlers :
            /\ Become(s, r) /\ r.at = "tenant.meta"
            /\ r.t = req[s].t /\ r.then = req[s].then /\ r.row = req[s].row
  BY <1>1
<1>3. UNCHANGED <<metas, made, llmVars, purgeVars>>
  BY DEF DeleteOldSlug
<1>4. TenantRowsType'
  BY <1>1, <1>3 DEF SetupInv, SetupType, TenantRowsType, llmVars
<1>5. Known' = Known /\ None \notin Known /\ \A t : IsPlatform(t)' <=> IsPlatform(t)
  BY <1>3, TenantsAssumption DEF Known, IsPlatform
<1>6. Awaits(req[s]) /\ Permitted(updates, req[s])
  BY DEF SetupInv, PlatformInOrder, PlatformIsCurrent
<1>7. Permitted(updates, r) /\ r.at # "llm.put" /\ req[s].at \in RenameSteps
  BY <1>1, <1>2, <1>6 DEF Reputs, Permitted, RenameSteps
<1>8. Awaits(r)'
  <2>1. \A t : ~Copying(s, t)
    BY <1>1 DEF Copying
  <2>2. Current(r.t) => Current(r.t)'
    BY <1>1, <1>2, <1>3, <2>1, CurrentKept DEF SetupInv
  <2>3. Reputs(r) <=> Reputs(req[s])
    BY <1>1, <1>2 DEF Reputs, RenameSteps
  <2>4. Reputs(r) => Current(r.t)' \/ Doubled(r.t)'
    BY <1>2, <1>5, <1>6, <2>2, <2>3 DEF Awaits, Doubled
  <2> QED BY <1>2, <2>4 DEF Awaits, Reputs
<1>9. \A t : slugs'[PlatformSlug] = t /\ t \in Known' => slugs[PlatformSlug] = t /\ t \in Known
  BY <1>1, <1>5, PlatformSlugIsASlug DEF Known
<1> QED BY <1>1, <1>2, <1>3, <1>4, <1>5, <1>7, <1>8, <1>9, TenantRowStep

\* The META row is put: a second tenant of the platform is torn.
LEMMA PutMetaInOrder ==
    ASSUME NEW updates, SetupInv(updates), NEW s \in Slots, PutMeta(s)
    PROVE  SetupInv(updates)'
<1>1. /\ req[s].at = "tenant.meta" /\ torn \subseteq torn' /\ RenamesInOrder'
      /\ metas' \in [TenantIds -> MetaRows \cup {None}]
      /\ Known' = Known \cup {req[s].t}
      /\ \E r \in SetupHandlers :
            /\ Become(s, r) /\ r.at = "tenant.slug"
            /\ r.t = req[s].t /\ r.then = req[s].then /\ r.row = req[s].row
  BY PutMetaStep DEF SetupInv
<1>2. PICK r \in SetupHandlers :
            /\ Become(s, r) /\ r.at = "tenant.slug"
            /\ r.t = req[s].t /\ r.then = req[s].then /\ r.row = req[s].row
  BY <1>1
<1>3. PICK t \in TenantIds, row \in SluggedRows : t = req[s].t /\ row = req[s].row
  BY <1>1, MetaHandlers DEF SetupInv
<1>4. /\ metas' = [metas EXCEPT ![t] = row] /\ UNCHANGED <<slugs, made, llmVars, purgeVars>>
      /\ (\E u \in Known \ {t} : metas[u].slug = row.slug) => t \in torn'
  BY <1>3 DEF PutMeta, Tear
<1>5. TenantRowsType'
  BY <1>1, <1>4 DEF SetupInv, SetupType, TenantRowsType, llmVars
<1>6. Awaits(req[s]) /\ Permitted(updates, req[s])
  BY DEF SetupInv, PlatformInOrder, PlatformIsCurrent
<1>7. Permitted(updates, r) /\ r.at # "llm.put" /\ req[s].at \in RenameSteps
  BY <1>1, <1>2, <1>6 DEF Reputs, Permitted, RenameSteps
<1>8. "platform" \notin torn' /\ IsPlatform(t) => row.slug = PlatformSlug
  BY <1>1, <1>3, <1>7
     DEF SetupInv, RenamesInOrder, PlatformKeepsSlug, PlatformIsProtected, KeepsPlatform
<1>9. "platform" \in torn' \/ \A u : IsPlatform(u) => IsPlatform(u)'
  <2> SUFFICES ASSUME "platform" \notin torn', NEW u, IsPlatform(u)
               PROVE  u \in Known' /\ metas'[u].slug = PlatformSlug
    BY DEF IsPlatform
  <2> QED BY <1>1, <1>4, <1>8 DEF IsPlatform, SetupInv, SetupType, TenantRowsType, Known
<1>10. Awaits(r)'
  <2>1. \A u : ~Copying(s, u)
    BY <1>1 DEF Copying
  <2>2. Current(t) => Current(t)'
    BY <1>1, <1>2, <1>4, <2>1, CurrentKept DEF SetupInv
  <2>3. Reputs(r) <=> Reputs(req[s])
    BY <1>1, <1>2 DEF Reputs, RenameSteps
  <2>4. Doubled(t) /\ row.slug = PlatformSlug => Current(t)'
    BY <1>4 DEF Doubled, IsPlatform, Current
  <2>5. Reputs(r) => Current(t)'
    BY <1>2, <1>3, <1>6, <2>2, <2>3, <2>4 DEF Awaits, Reputs
  <2>6. Reputs(r)' => Reputs(r)
    BY DEF Reputs
  <2>7. r.t = t
    BY <1>2, <1>3
  <2> QED BY <2>5, <2>6, <2>7 DEF Awaits
<1>11. \A u : slugs'[PlatformSlug] = u /\ u \in Known' => slugs[PlatformSlug] = u /\ u \in Known
  <2>1. PlatformSlug \in Slugs /\ slugs' = slugs
    BY <1>4, PlatformSlugIsASlug
  <2>2. slugs[PlatformSlug] # None => slugs[PlatformSlug] \in Known
    BY <2>1 DEF SetupInv, RenamesInOrder, CreationsAreAlone
  <2>3. None \notin Known'
    BY <1>1, <1>3, TenantsAssumption DEF Known
  <2> QED BY <2>1, <2>2, <2>3
<1>12. Known \subseteq Known' /\ UNCHANGED <<llmVars, purgeVars>>
  BY <1>1, <1>4
<1> QED BY <1>1, <1>2, <1>5, <1>7, <1>9, <1>10, <1>11, <1>12, TenantRowStep

\* The SLUG row is put: a new tenant goes on to copy the baseline.
LEMMA PutSlugInOrder ==
    ASSUME NEW updates, SetupInv(updates), NEW s \in Slots, PutSlug(s)
    PROVE  SetupInv(updates)'
<1>1. /\ req[s].at = "tenant.slug" /\ req[s].t \in Known
      /\ torn \subseteq torn' /\ RenamesInOrder'
      /\ slugs' \in [Slugs -> TenantIds \cup {None}]
      /\ \A x \in Slugs : slugs'[x] = IF x = req[s].row.slug THEN req[s].t ELSE slugs[x]
      /\ \E r \in SetupHandlers :
            /\ Become(s, r) /\ r.at \notin RenameSteps
            /\ IF req[s].then = "copy"
               THEN r.at = "llm.read" /\ r.then = "copy" /\ r.t = req[s].t
               ELSE r = Idle
  BY PutSlugStep DEF SetupInv
<1>2. PICK t, row, then : t \in Known /\ t = req[s].t /\ row = req[s].row /\ then = req[s].then
  BY <1>1
<1>3. PICK r \in SetupHandlers :
            /\ Become(s, r) /\ r.at \notin RenameSteps
            /\ IF then = "copy"
               THEN r.at = "llm.read" /\ r.then = "copy" /\ r.t = t
               ELSE r = Idle
  BY <1>1, <1>2
<1>4. UNCHANGED <<metas, made, llmVars, purgeVars>>
  BY DEF PutSlug
<1>5. TenantRowsType'
  BY <1>1, <1>4 DEF SetupInv, SetupType, TenantRowsType, llmVars
<1>6. Awaits(req[s]) /\ then \in {"copy", "answer"} /\ req[s].at \in RenameSteps
  BY <1>1, <1>2, MetaHandlers DEF SetupInv, PlatformInOrder, PlatformIsCurrent, RenameSteps, Thens
<1>7. Permitted(updates, r) /\ r.at # "llm.put" /\ Awaits(r)'
  BY <1>3 DEF Awaits, Reputs, Permitted, Idle
<1>8. req'[s] = r
  BY <1>3, SetupMoves DEF SetupInv, SetupType
<1>9. row.slug = PlatformSlug => Current(t)'
  <2>1. CASE then = "copy"
    BY <1>3, <1>8, <2>1 DEF Current, Copying
  <2>2. ASSUME then = "answer", row.slug = PlatformSlug
        PROVE  Current(t)'
    <3>1. Current(t)
      BY <1>1, <1>2, <1>6, <2>2 DEF Awaits, Reputs
    <3>2. ~Copying(s, t)
      BY <1>1 DEF Copying
    <3> QED BY <1>1, <1>3, <1>4, <3>1, <3>2, CurrentKept DEF SetupInv
  <2> QED BY <1>6, <2>1, <2>2
<1>10. Known' = Known /\ \A u : IsPlatform(u)' <=> IsPlatform(u)
  BY <1>4 DEF Known, IsPlatform
<1>11. \A u : slugs'[PlatformSlug] = u /\ u \in Known' =>
            Current(u)' \/ (slugs[PlatformSlug] = u /\ u \in Known)
  <2> SUFFICES ASSUME NEW u, slugs'[PlatformSlug] = u, u \in Known'
               PROVE  Current(u)' \/ (slugs[PlatformSlug] = u /\ u \in Known)
    OBVIOUS
  <2>1. PlatformSlug \in Slugs
    BY PlatformSlugIsASlug DEF Known
  <2>2. CASE row.slug = PlatformSlug
    <3>1. u = t
      BY <1>1, <1>2, <2>1, <2>2
    <3> QED BY <1>9, <2>2, <3>1
  <2>3. CASE row.slug # PlatformSlug
    BY <1>1, <1>2, <1>10, <2>1, <2>3
  <2> QED BY <2>2, <2>3
<1> QED BY <1>1, <1>3, <1>4, <1>5, <1>6, <1>7, <1>10, <1>11, TenantRowStep

\* A step that writes configurations or the baseline, and neither a META nor a
\* SLUG row.
LEMMA ConfigStep ==
    ASSUME NEW updates, SetupInv(updates), NEW s \in Slots, NEW r \in SetupHandlers, Become(s, r),
           UNCHANGED <<slugVars, purgeVars>>, TenantRowsType', torn \subseteq torn',
           ConfigsInOrder', req[s].at \notin RenameSteps, r.at \notin RenameSteps,
           PlatformIsCurrent', Permitted(updates, r)
    PROVE  SetupInv(updates)'
<1>1. SetupType'
  BY SetupMoves DEF SetupInv, SetupType
<1>2. ~Holds(req[s])
  BY DEF Holds, RenameSteps
<1>3. RenamesInOrder'
  BY <1>2, NoRenameStep DEF SetupInv
<1>4. PlatformInOrder(updates)'
  BY PermittedKept DEF SetupInv, PlatformInOrder
<1>5. NoPeople'
  BY DEF SetupInv, NoPeople, purgeVars
<1> QED BY <1>1, <1>3, <1>4, <1>5 DEF SetupInv

\* Such a step that keeps the current tenants current.
LEMMA CurrentStep ==
    ASSUME NEW updates, SetupInv(updates), NEW s \in Slots, NEW r \in SetupHandlers, Become(s, r),
           UNCHANGED slugVars, \A t : Current(t) => Current(t)', r.at \notin RenameSteps
    PROVE  PlatformIsCurrent'
<1>1. \A t : IsPlatform(t)' <=> IsPlatform(t)
  BY DEF IsPlatform, Known, slugVars
<1>2. \A t : slugs'[PlatformSlug] = t /\ t \in Known' => slugs[PlatformSlug] = t /\ t \in Known
  BY DEF Known, slugVars
<1>3. Awaits(r)'
  BY DEF Awaits, Reputs
<1> QED BY <1>1, <1>2, <1>3, PlatformStep DEF SetupInv, PlatformInOrder

\* The first baseline: nobody has one yet, and who copies goes on to copy it.
LEMMA PutFirstBaselineInOrder ==
    ASSUME NEW updates, SetupInv(updates), NEW s \in Slots, PutFirstBaseline(s)
    PROVE  SetupInv(updates)'
<1> DEFINE first == [version |-> 1, config |-> DefaultConfig]
<1>1. ConfigsInOrder' /\ TenantRowsType'
  BY PutFirstBaselineConfigs DEF SetupInv
<1>2. /\ req[s].at = "llm.init" /\ baseline' = first
      /\ "baseline" \notin torn' => baseline = None
      /\ torn \subseteq torn' /\ WithBaseline(s, first)
      /\ UNCHANGED <<slugVars, configs, purgeVars>>
  BY DEF PutFirstBaseline, At, Tear
<1>3. first \in Baselines /\ first # None
  BY TenantsAssumption DEF Baselines
<1> HIDE DEF first
<1>4. PICK r \in SetupHandlers :
            /\ Become(s, r) /\ r.at \in {"idle", "llm.update", "llm.put"}
            /\ r.at = "llm.update" => req[s].then = "update"
            /\ r.at = "llm.put" => r.base = first /\ r.row.version = first.version
            /\ req[s].then = "copy" => r.at = "llm.put" /\ r.t = req[s].t
  <2>1. SetupType /\ req[s].at \in {"llm.read", "llm.init"}
    BY <1>2 DEF SetupInv
  <2> QED BY <1>2, <1>3, <2>1, WithBaselineEffect
<1>5. req'[s] = r /\ \A z \in Slots \ {s} : req'[z] = req[z]
  BY <1>4, SetupMoves DEF SetupInv, SetupType
<1>6. req[s].at \notin RenameSteps /\ r.at \notin RenameSteps
  BY <1>2, <1>4 DEF RenameSteps
<1>7. Permitted(updates, r)
  <2>1. Permitted(updates, req[s])
    BY DEF SetupInv, PlatformInOrder
  <2> QED BY <1>2, <1>4, <2>1 DEF Permitted, Reputs, RenameSteps
<1>8. ASSUME NEW t, Current(t), "baseline" \notin torn'
      PROVE  Current(t)'
  <2>1. baseline = None /\ "baseline" \notin torn
    BY <1>2, <1>8
  <2>2. CASE "platform" \in torn \/ t \in torn
    BY <1>2, <2>2 DEF Current
  <2>3. ASSUME NEW z \in Slots, Copying(z, t)
        PROVE  Current(t)'
    <3>2. CASE z = s
      <4>1. req'[s].at = "llm.put" /\ req'[s].t = t /\ req'[s].base = first
            /\ req'[s].row.version = first.version
        BY <1>2, <1>4, <1>5, <2>3, <3>2 DEF Copying
      <4> QED BY <1>3, <4>1 DEF Current, Copying
    <3>3. CASE z # s
      <4>1. Copying(z, t)'
        BY <1>5, <2>3, <3>3 DEF Copying
      <4> QED BY <4>1 DEF Current
    <3> QED BY <3>2, <3>3
  <2> QED BY <1>8, <2>1, <2>2, <2>3 DEF Current
<1>9. \A t : Current(t) => Current(t)'
  BY <1>8 DEF Current
<1>10. PlatformIsCurrent'
  BY <1>2, <1>4, <1>6, <1>9, CurrentStep
<1> QED BY <1>1, <1>2, <1>4, <1>6, <1>7, <1>10, ConfigStep

\* An update goes on to copy the baseline for the tenant of the platform.  No
\* rename puts the slug of the platform once more meanwhile.
LEMMA PutBaselineInOrder ==
    ASSUME NEW updates, SetupInv(updates), NEW s \in Slots, PutBaseline(s)
    PROVE  SetupInv(updates)'
<1>1. /\ ConfigsInOrder' /\ TenantRowsType'
      /\ req[s].at = "llm.update" /\ torn \subseteq torn'
      /\ \E r \in SetupHandlers :
            /\ Become(s, r)
            /\ \/ /\ slugs[PlatformSlug] \in Known
                  /\ r.at = "llm.read" /\ r.then = "copy" /\ r.t = slugs[PlatformSlug]
               \/ r = Idle /\ (slugs[PlatformSlug] \in Known => slugs[PlatformSlug] \in torn')
  BY PutBaselineConfigs DEF SetupInv
<1>2. PICK p : p = slugs[PlatformSlug]
  OBVIOUS
<1>3. PICK r \in SetupHandlers :
            /\ Become(s, r)
            /\ \/ p \in Known /\ r.at = "llm.read" /\ r.then = "copy" /\ r.t = p
               \/ r = Idle /\ (p \in Known => p \in torn')
  BY <1>1, <1>2
<1>4. UNCHANGED <<slugVars, configs, purgeVars>>
  BY DEF PutBaseline
<1>5. req'[s] = r /\ \A z \in Slots \ {s} : req'[z] = req[z]
  BY <1>3, SetupMoves DEF SetupInv, SetupType
<1>6. updates /\ \A z \in Slots : Permitted(updates, req[z])
  BY <1>1 DEF SetupInv, PlatformInOrder, Permitted
<1>7. /\ req[s].at \notin RenameSteps /\ r.at \notin RenameSteps
      /\ Permitted(updates, r)
  BY <1>1, <1>3, <1>6 DEF RenameSteps, Permitted, Reputs, Idle
<1>8. PlatformIsCurrent'
  <2>1. Known' = Known /\ slugs' = slugs
    BY <1>4 DEF Known, slugVars
  <2>2. p \in Known => Current(p)'
    BY <1>3, <1>5 DEF Current, Copying
  <2>3. (slugs[PlatformSlug] \in Known => Current(slugs[PlatformSlug]))'
    <3> SUFFICES ASSUME NEW t, t = slugs'[PlatformSlug], t \in Known'
                 PROVE  Current(t)'
      BY DEF Current, Copying
    <3> QED BY <1>2, <2>1, <2>2
  <2>4. ASSUME NEW z \in Slots
        PROVE  Awaits(req[z])'
    <3>1. ~Reputs(req'[z])
      <4>1. CASE z = s
        BY <1>5, <1>7, <4>1 DEF Reputs
      <4>2. CASE z # s
        BY <1>5, <1>6, <4>2 DEF Permitted
      <4> QED BY <4>1, <4>2
    <3> QED BY <3>1 DEF Awaits, Reputs
  <2> QED BY <2>3, <2>4 DEF PlatformIsCurrent
<1> QED BY <1>1, <1>3, <1>4, <1>7, <1>8, ConfigStep

\* A configuration that is put over the newest one is as new, or its tenant is
\* torn.
LEMMA PutConfigInOrder ==
    ASSUME NEW updates, SetupInv(updates), NEW s \in Slots, PutConfig(s)
    PROVE  SetupInv(updates)'
<1>1. /\ ConfigsInOrder' /\ TenantRowsType' /\ Become(s, Idle)
      /\ req[s].at = "llm.put" /\ torn \subseteq torn'
  BY PutConfigConfigs DEF SetupInv
<1>2. Idle \in SetupHandlers /\ Idle.at \notin RenameSteps /\ Permitted(updates, Idle)
  BY DEF SetupHandlers, Idle, RenameSteps, Permitted, Reputs
<1>3. PICK q \in ConfigHandlers : q = req[s]
  BY <1>1, PublishedTypes DEF SetupInv
<1>4. /\ configs' = [configs EXCEPT ![q.t] = q.row]
      /\ UNCHANGED <<slugVars, baseline, published, purgeVars>>
      /\ q.t \notin torn' => /\ baseline = q.base
                             /\ q.row.config = "own" => configs[q.t] = q.read
  BY <1>3 DEF PutConfig, Tear
<1>5. q.t \in TenantIds /\ q.row \in ConfigRows /\ q.row # None /\ q.at = "llm.put"
  BY TenantsAssumption DEF ConfigHandlers
<1>6. \A t \in TenantIds : configs'[t] = IF t = q.t THEN q.row ELSE configs[t]
  BY <1>4, <1>5 DEF SetupInv, SetupType, TenantRowsType
<1>7. PutFits(q)
  BY <1>3 DEF SetupInv, ConfigsInOrder, PutsInStep
<1>8. req'[s] = Idle /\ \A z \in Slots \ {s} : req'[z] = req[z]
  BY <1>1, <1>2, SetupMoves DEF SetupInv, SetupType
<1>9. ASSUME NEW t, Current(t), "baseline" \notin torn, "platform" \notin torn, t \notin torn'
      PROVE  Current(t)'
  <2>1. CASE configs[t] # None /\ baseline # None /\ configs[t].version = baseline.version
             /\ t = q.t
    <3>1. configs'[t] = q.row
      BY <1>5, <1>6, <2>1
    <3>2. q.row.version = baseline.version
      <4>1. CASE q.base # None /\ q.row.version = q.base.version
        BY <1>4, <1>9, <2>1, <4>1
      <4>2. CASE /\ q.row.config = "own" /\ q.read # None
                 /\ q.row.version = q.read.version
        BY <1>4, <1>9, <2>1, <4>2
      <4> QED BY <1>5, <1>7, <4>1, <4>2 DEF PutFits
    <3> QED BY <1>4, <1>5, <2>1, <3>1, <3>2 DEF Current
  <2>2. CASE configs[t] # None /\ baseline # None /\ configs[t].version = baseline.version
             /\ t # q.t
    <3>1. configs'[t] = configs[t]
      BY <1>4, <2>2 DEF SetupInv, SetupType, TenantRowsType
    <3> QED BY <1>4, <2>2, <3>1 DEF Current
  <2>3. ASSUME NEW z \in Slots, Copying(z, t)
        PROVE  Current(t)'
    <3>1. CASE z = s
      <4>1. t = q.t /\ baseline # None /\ q.row.version = baseline.version
        BY <1>1, <1>3, <1>4, <1>9, <2>3, <3>1 DEF Copying
      <4>2. configs'[t] = q.row
        BY <1>5, <1>6, <4>1
      <4> QED BY <1>4, <1>5, <4>1, <4>2 DEF Current
    <3>2. CASE z # s
      <4>1. Copying(z, t)'
        BY <1>4, <1>8, <2>3, <3>2 DEF Copying
      <4> QED BY <4>1 DEF Current
    <3> QED BY <3>1, <3>2
  <2> QED BY <1>1, <1>9, <2>1, <2>2, <2>3 DEF Current
<1>10. \A t : Current(t) => Current(t)'
  BY <1>1, <1>9 DEF Current
<1>11. req[s].at \notin RenameSteps /\ UNCHANGED slugVars /\ UNCHANGED <<slugVars, purgeVars>>
  BY <1>1, <1>4 DEF RenameSteps
<1>12. PlatformIsCurrent'
  BY <1>1, <1>2, <1>10, <1>11, CurrentStep
<1> QED BY <1>1, <1>2, <1>11, <1>12, ConfigStep

\* A handler that dies tears what it had half done.
LEMMA AbortInOrder ==
    ASSUME NEW updates, SetupInv(updates), NEW s \in Slots, AbortTenantRequest(s)
    PROVE  SetupInv(updates)'
<1>1. /\ Become(s, Idle) /\ torn' = torn \cup HalfDoneAt(s)
      /\ UNCHANGED slugVars /\ UNCHANGED <<metas, slugs, made, llmVars, purgeVars>>
  BY IdleMoves DEF AbortTenantRequest, slugVars
<1>2. /\ Idle \in SetupHandlers /\ Idle.at \notin RenameSteps /\ PutFits(Idle)
      /\ Idle.at # "llm.put" /\ Permitted(updates, Idle) /\ Awaits(Idle)
  BY DEF SetupHandlers, Idle, RenameSteps, Permitted, Awaits, Reputs, PutFits
<1>3. Holds(req[s]) => "slugs" \in torn'
  <2>1. req[s].at = "tenant.slug" => HalfDoneAt(s) = {"slugs"}
    BY DEF HalfDoneAt, PurgeSteps
  <2>2. /\ req[s].at = "tenant.meta" /\ req[s].previous # None
        /\ req[s].previous # req[s].row.slug
        => HalfDoneAt(s) = {"slugs"}
    BY DEF HalfDoneAt, PurgeSteps
  <2> QED BY <1>1, <2>1, <2>2 DEF Holds
<1>4. \A t : Copying(s, t) => t \in torn'
  BY <1>1 DEF Copying, HalfDoneAt
<1>5. RenamesInOrder'
  BY <1>1, <1>2, <1>3, NoRenameStep DEF SetupInv
<1>6. made' \in SUBSET TenantIds
  BY <1>1 DEF SetupInv, SetupType, TenantRowsType
<1> QED BY <1>1, <1>2, <1>4, <1>5, <1>6, QuietSetupStep

\* No handler of the other kind is there while tenants are set up.
LEMMA SetupInvStep ==
    ASSUME NEW updates \in BOOLEAN, SetupInv(updates), NEW s \in Slots,
           \/ \E t \in TenantIds : \/ TenantRequest(s, t)
                                   \/ ~updates /\ SlugRequest(s, t)
                                   \/ updates /\ LlmRequest(s, t)
           \/ TenantStep(s)
           \/ AbortTenantRequest(s)
    PROVE  SetupInv(updates)'
<1>1. ASSUME NEW t \in TenantIds, TenantRequest(s, t)
      PROVE  SetupInv(updates)'
  BY <1>1, EnsurePlatformTenantStep, BackfillSlugStep, CreateTenantStep DEF TenantRequest
<1>2. ASSUME NEW t \in TenantIds, ~updates, SlugRequest(s, t)
      PROVE  SetupInv(updates)'
  <2>1. updates = FALSE
    BY <1>2
  <2>2. PICK slug \in (SlugBases \X {1}) \cup {None} : Serving /\ UpdateTenant(s, t, slug)
    BY <1>2 DEF SlugRequest
  <2>3. Cardinality(TenantIds) \in Nat /\ Cardinality(TenantIds) # 0
    BY TenantsAssumption, FS_CardinalityType, FS_EmptySet
  <2>4. slug \in Slugs \cup {None}
    BY <2>2, <2>3 DEF Slugs, SlugNumbers
  <2>5. SetupInv(FALSE)
    BY <2>1
  <2>6. SetupInv(FALSE)'
    BY <2>2, <2>4, <2>5, UpdateTenantStep
  <2> QED BY <2>1, <2>6
<1>3. ASSUME NEW t \in TenantIds, updates, LlmRequest(s, t)
      PROVE  SetupInv(updates)'
  <2>1. updates = TRUE
    BY <1>3
  <2>2. SetupInv(TRUE)
    BY <2>1
  <2>3. SetupInv(TRUE)'
    BY <1>3, <2>2, LlmRequestStep
  <2> QED BY <2>1, <2>3
<1>4. CASE TenantStep(s)
  <2>1. req[s].at \notin PurgeSteps \cup {"join.member", "work.put"}
    BY SetupHandlersKnow DEF SetupInv, SetupType
  <2>2. /\ ~PutMember(s) /\ ~PutWork(s) /\ ~ReadEmails(s) /\ ~ListUsers(s) /\ ~QueryTenant(s)
        /\ ~DeleteRow(s) /\ ~DeletePerson(s) /\ ~DeleteAccount(s)
    BY <2>1 DEF PutMember, PutWork, ReadEmails, ListUsers, QueryTenant, DeleteRow, DeletePerson,
                DeleteAccount, At, PurgeSteps
  <2>3. \/ PutTenant(s) \/ DeleteOldSlug(s) \/ PutMeta(s) \/ PutSlug(s)
        \/ ReadBaseline(s) \/ PutFirstBaseline(s) \/ PutBaseline(s) \/ PutConfig(s)
    BY <1>4, <2>2 DEF TenantStep
  <2> QED
    BY <2>3, PutTenantInOrder, DeleteOldSlugInOrder, PutMetaInOrder, PutSlugInOrder,
       ReadBaselineStep, PutFirstBaselineInOrder, PutBaselineInOrder, PutConfigInOrder
<1> QED BY <1>1, <1>2, <1>3, <1>4, AbortInOrder

\* A step of another part leaves the tenants in order.
LEMMA SetupInvStutter ==
    ASSUME NEW updates, SetupInv(updates), UNCHANGED <<req, tenantVars>>
    PROVE  SetupInv(updates)'
<1> USE DEF tenantVars, slugVars, llmVars, purgeVars
<1>1. SetupType' /\ NoPeople' /\ ConfigsInOrder'
  BY DEF SetupInv, SetupType, TenantRowsType, NoPeople, ConfigsInOrder, CopiesInOrder,
         CopiesInStep, BaselineIsPublished, Published, PutsInStep, UnknownIsEmpty, Known
<1>2. OldSlugs' /\ CreationsAreAlone'
  BY DEF SetupInv, RenamesInOrder, OldSlugs, FoundOld, CreationsAreAlone, Known, RenamingOf
<1>3. SlugsInOrder'
  BY DEF SetupInv, RenamesInOrder, SlugsInOrder, SlugsInStep, Known
<1>4. PlatformKeepsSlug'
  BY DEF SetupInv, RenamesInOrder, PlatformKeepsSlug, PlatformIsProtected, KeepsPlatform,
         IsPlatform, Known
<1>5. PlatformInOrder(updates)'
  BY DEF SetupInv, PlatformInOrder, PlatformIsCurrent, Awaits, Current, Copying, Doubled,
         IsPlatform, Known
<1> QED BY <1>1, <1>2, <1>3, <1>4, <1>5 DEF SetupInv, RenamesInOrder

\* A deployment starts in order, with one platform and one firm at most.
LEMMA StartsAtRest ==
    ASSUME NEW kind \in StartingKinds, TenantsInit(kind)
    PROVE  TenantsAtRest
<1> DEFINE fresh == \A t \in TenantIds : kind[t] # "platform"
           first == [version |-> 1, config |-> DefaultConfig]
<1>1. /\ kind \in [TenantIds -> TenantKinds]
      /\ \A t, u \in TenantIds :
            kind[t] = kind[u] /\ kind[t] \in {"platform", "firm"} => t = u
  BY DEF StartingKinds
<1>2. FirmBase \in SlugBases /\ FirmBase # PlatformBase /\ PlatformBase \in SlugBases
  BY TenantsAssumption DEF FirmBase
<1>3. /\ SlugOf("platform") = PlatformSlug /\ SlugOf("firm") = <<FirmBase, 1>>
      /\ SlugOf("legacy") = None /\ SlugOf("gone") = None /\ SlugOf("new") = None
  BY DEF SlugOf
<1>4. \A t \in TenantIds : PlatformSlug \in Slugs /\ <<FirmBase, 1>> \in Slugs
  <2> SUFFICES ASSUME NEW t \in TenantIds PROVE PlatformSlug \in Slugs /\ <<FirmBase, 1>> \in Slugs
    OBVIOUS
  <2>1. PlatformSlug \in Slugs
    BY PlatformSlugIsASlug
  <2> QED BY <1>2, <2>1 DEF PlatformSlug, Slugs
<1>5. \A t \in TenantIds : /\ SlugOf(kind[t]) \in Slugs \cup {None}
                           /\ SlugOf(kind[t]) # None <=> kind[t] \in {"platform", "firm"}
                           /\ SlugOf(kind[t]) = PlatformSlug <=> kind[t] = "platform"
  <2> SUFFICES ASSUME NEW t \in TenantIds
               PROVE  /\ SlugOf(kind[t]) \in Slugs \cup {None}
                      /\ SlugOf(kind[t]) # None <=> kind[t] \in {"platform", "firm"}
                      /\ SlugOf(kind[t]) = PlatformSlug <=> kind[t] = "platform"
    OBVIOUS
  <2>1. kind[t] \in {"platform", "firm", "legacy", "gone", "new"}
    BY <1>1 DEF TenantKinds
  <2>2. PlatformSlug \in Slugs /\ <<FirmBase, 1>> \in Slugs /\ None \notin Slugs
    BY <1>4, TenantsAssumption
  <2>3. <<FirmBase, 1>> # PlatformSlug
    BY <1>2 DEF PlatformSlug
  <2> QED BY <1>3, <2>1, <2>2, <2>3
<1>6. \A t, u \in TenantIds : SlugOf(kind[t]) = SlugOf(kind[u]) /\ SlugOf(kind[t]) # None => t = u
  <2> SUFFICES ASSUME NEW t \in TenantIds, NEW u \in TenantIds,
                      SlugOf(kind[t]) = SlugOf(kind[u]), SlugOf(kind[t]) # None
               PROVE  t = u
    OBVIOUS
  <2>1. kind[t] = kind[u] /\ kind[t] \in {"platform", "firm"}
    BY <1>5
  <2> QED BY <1>1, <2>1
<1>7. /\ metas = [t \in TenantIds |->
            IF kind[t] \in {"new", "gone"} THEN None
            ELSE [slug |-> SlugOf(kind[t]),
                  base |-> IF kind[t] = "platform" THEN PlatformBase ELSE FirmBase]]
      /\ slugs = [x \in Slugs |->
            IF \E t \in TenantIds : SlugOf(kind[t]) = x
            THEN CHOOSE t \in TenantIds : SlugOf(kind[t]) = x ELSE None]
      /\ baseline = (IF fresh THEN None ELSE first)
      /\ configs = [t \in TenantIds |-> IF kind[t] \in {"platform", "firm"} THEN baseline ELSE None]
      /\ made = {t \in TenantIds : kind[t] # "new"}
      /\ published = [v \in 1 .. MaxVersion |-> IF v = 1 /\ ~fresh THEN DefaultConfig ELSE None]
      /\ NoPeople /\ PurgeRowsType /\ torn = {}
  BY DEF TenantsInit, NoPeople, PurgeRowsType
<1> HIDE DEF fresh, first
<1>8. \A t \in TenantIds :
        IF kind[t] \in {"new", "gone"} THEN metas[t] = None
        ELSE /\ metas[t] \in MetaRows /\ metas[t] # None /\ metas[t].slug = SlugOf(kind[t])
             /\ metas[t].base = IF kind[t] = "platform" THEN PlatformBase ELSE FirmBase
  <2> SUFFICES ASSUME NEW t \in TenantIds, kind[t] \notin {"new", "gone"}
               PROVE  /\ metas[t] \in MetaRows /\ metas[t] # None
                      /\ metas[t].slug = SlugOf(kind[t])
                      /\ metas[t].base = IF kind[t] = "platform" THEN PlatformBase ELSE FirmBase
    BY <1>7
  <2>1. metas[t] = [slug |-> SlugOf(kind[t]),
                    base |-> IF kind[t] = "platform" THEN PlatformBase ELSE FirmBase]
    BY <1>7
  <2>2. SlugOf(kind[t]) \in Slugs \cup {None}
    BY <1>5
  <2>3. metas[t] \in MetaRows
    BY <1>2, <2>1, <2>2 DEF MetaRows
  <2> QED BY <2>1, <2>3, TenantsAssumption
<1>9. \A t \in TenantIds : t \in Known <=> kind[t] \notin {"new", "gone"}
  BY <1>8 DEF Known
<1>10. \A x \in Slugs :
        \/ slugs[x] = None /\ \A t \in TenantIds : SlugOf(kind[t]) # x
        \/ slugs[x] \in TenantIds /\ SlugOf(kind[slugs[x]]) = x
  <2> SUFFICES ASSUME NEW x \in Slugs
               PROVE  \/ slugs[x] = None /\ \A t \in TenantIds : SlugOf(kind[t]) # x
                      \/ slugs[x] \in TenantIds /\ SlugOf(kind[slugs[x]]) = x
    OBVIOUS
  <2>1. CASE \E t \in TenantIds : SlugOf(kind[t]) = x
    <3>1. slugs[x] = CHOOSE t \in TenantIds : SlugOf(kind[t]) = x
      BY <1>7, <2>1
    <3> QED BY <2>1, <3>1
  <2>2. CASE ~\E t \in TenantIds : SlugOf(kind[t]) = x
    BY <1>7, <2>2
  <2> QED BY <2>1, <2>2
<1>11. \A x \in Slugs : slugs[x] # None => slugs[x] \in Known /\ metas[slugs[x]].slug = x
  <2> SUFFICES ASSUME NEW x \in Slugs, slugs[x] # None
               PROVE  slugs[x] \in Known /\ metas[slugs[x]].slug = x
    OBVIOUS
  <2>1. slugs[x] \in TenantIds /\ SlugOf(kind[slugs[x]]) = x /\ x # None
    BY <1>10, TenantsAssumption
  <2>2. kind[slugs[x]] \in {"platform", "firm"}
    BY <1>5, <2>1
  <2> QED BY <1>8, <1>9, <2>1, <2>2
<1>12. \A t \in Known : metas[t].slug # None => slugs[metas[t].slug] = t
  <2> SUFFICES ASSUME NEW t \in Known, metas[t].slug # None PROVE slugs[metas[t].slug] = t
    OBVIOUS
  <2>1. t \in TenantIds /\ metas[t].slug = SlugOf(kind[t]) /\ metas[t].slug \in Slugs
    BY <1>5, <1>8, <1>9 DEF Known
  <2>2. slugs[metas[t].slug] \in TenantIds /\ SlugOf(kind[slugs[metas[t].slug]]) = SlugOf(kind[t])
    BY <1>10, <2>1
  <2> QED BY <1>6, <2>1, <2>2
<1>13. SlugsAtRest
  BY <1>11, <1>12, TenantsAssumption DEF SlugsAtRest, Known
<1>14. \A t, u \in Known : t # u /\ metas[t].slug # None => metas[t].slug # metas[u].slug
  BY <1>12
<1>15. \A t \in Known : metas[t].slug = None => metas[t].base # PlatformBase
  <2> SUFFICES ASSUME NEW t \in Known, metas[t].slug = None PROVE metas[t].base # PlatformBase
    OBVIOUS
  <2>1. t \in TenantIds /\ kind[t] \notin {"new", "gone"}
    BY <1>9 DEF Known
  <2>2. metas[t].slug = SlugOf(kind[t])
        /\ metas[t].base = IF kind[t] = "platform" THEN PlatformBase ELSE FirmBase
    BY <1>8, <2>1
  <2>3. kind[t] # "platform"
    BY <1>5, <2>1, <2>2
  <2> QED BY <1>2, <2>2, <2>3
<1>16. Known \subseteq made /\ made \subseteq TenantIds
  BY <1>7, <1>9 DEF Known
<1>17. /\ first \in Baselines /\ first \in ConfigRows /\ first # None
       /\ first.version = 1 /\ first.config = DefaultConfig
       /\ 1 \in 1 .. MaxVersion /\ DefaultConfig \in Configs
  BY TenantsAssumption DEF Baselines, ConfigRows, first
<1>18. TenantRowsType
  <2>1. metas \in [TenantIds -> MetaRows \cup {None}]
    BY <1>7, <1>8
  <2>2. slugs \in [Slugs -> TenantIds \cup {None}]
    BY <1>7, <1>10
  <2>3. baseline \in Baselines \cup {None} /\ baseline \in ConfigRows \cup {None}
    BY <1>7, <1>17
  <2>4. configs \in [TenantIds -> ConfigRows \cup {None}]
    BY <1>7, <2>3
  <2>5. published \in [1 .. MaxVersion -> Configs \cup {None}]
    BY <1>7, <1>17
  <2> QED BY <1>16, <2>1, <2>2, <2>3, <2>4, <2>5 DEF TenantRowsType
<1>19. baseline # None => baseline = first /\ published[1] = DefaultConfig
  BY <1>7, <1>17
<1>20. BaselineIsPublished
  BY <1>17, <1>19 DEF BaselineIsPublished
<1>21. \A t \in TenantIds : configs[t] \in {None, baseline}
                            /\ (configs[t] # None => kind[t] \in {"platform", "firm"})
  BY <1>7
<1>22. CopiesAtRest
  <2> SUFFICES ASSUME NEW t \in TenantIds, configs[t] # None PROVE Published(configs[t])
    BY DEF CopiesAtRest
  <2>1. configs[t] = baseline /\ baseline # None
    BY <1>21
  <2> QED BY <1>17, <1>19, <2>1 DEF Published
<1>23. \A t \in TenantIds \ Known : configs[t] = None
  BY <1>9, <1>21
<1>24. \A t \in Known : IsPlatform(t) => /\ configs[t] # None /\ baseline # None
                                         /\ configs[t].version = baseline.version
  <2> SUFFICES ASSUME NEW t \in Known, IsPlatform(t)
               PROVE  configs[t] # None /\ baseline # None /\ configs[t] = baseline
    OBVIOUS
  <2>1. t \in TenantIds /\ metas[t].slug = SlugOf(kind[t]) /\ metas[t].slug = PlatformSlug
    BY <1>8, <1>9 DEF Known, IsPlatform
  <2>2. kind[t] = "platform"
    BY <1>5, <2>1
  <2>3. ~fresh
    BY <2>1, <2>2 DEF fresh
  <2> QED BY <1>7, <1>17, <2>1, <2>2, <2>3
<1> QED BY <1>7, <1>11, <1>13, <1>14, <1>15, <1>16, <1>18, <1>20, <1>22, <1>23, <1>24
        DEF TenantsAtRest

\* With every slot idle that is where the handlers that set up tenants begin.
LEMMA SetupInvInit ==
    ASSUME NEW updates, RequestsInit, TenantsAtRest
    PROVE  SetupInv(updates)
<1>1. req \in [Slots -> SetupHandlers] /\ \A s \in Slots : req[s] = Idle
  BY DEF RequestsInit, SetupHandlers
<1>2. \A s \in Slots : /\ req[s].at \notin RenameSteps /\ req[s].at = "idle"
                       /\ FoundOld(req[s]) /\ PutFits(req[s]) /\ Awaits(req[s])
                       /\ Permitted(updates, req[s])
  <2> SUFFICES ASSUME NEW s \in Slots
               PROVE  /\ req[s].at \notin RenameSteps /\ req[s].at = "idle"
                      /\ FoundOld(req[s]) /\ PutFits(req[s]) /\ Awaits(req[s])
                      /\ Permitted(updates, req[s])
    OBVIOUS
  <2>1. req[s].at = "idle"
    BY <1>1 DEF Idle
  <2>2. req[s].at \notin RenameSteps
    BY <2>1 DEF RenameSteps
  <2>3. FoundOld(req[s]) /\ PutFits(req[s])
    BY <2>1 DEF FoundOld, PutFits
  <2>4. ~Reputs(req[s])
    BY <2>2 DEF Reputs
  <2>5. Awaits(req[s])
    BY <2>4 DEF Awaits
  <2>6. Permitted(updates, req[s])
    BY <2>1, <2>4 DEF Permitted
  <2> QED BY <2>1, <2>2, <2>3, <2>5, <2>6
<1>3. SetupType /\ NoPeople
  BY <1>1 DEF SetupType, TenantsAtRest
<1>4. OldSlugs /\ CreationsAreAlone
  BY <1>2 DEF OldSlugs, CreationsAreAlone, TenantsAtRest
<1>5. SlugsInOrder
  BY <1>2 DEF SlugsInOrder, SlugsInStep, TenantsAtRest, SlugsAtRest
<1>6. PlatformKeepsSlug
  <2>1. slugs[PlatformSlug] \in Known => IsPlatform(slugs[PlatformSlug])
    BY PlatformSlugIsASlug DEF TenantsAtRest, SlugsAtRest, IsPlatform, Known
  <2>2. \A s \in Slots : req[s].at \in RenameSteps => KeepsPlatform(req[s])
    BY <1>2
  <2> QED BY <2>1, <2>2 DEF PlatformKeepsSlug, PlatformIsProtected, TenantsAtRest
<1>7. ConfigsInOrder
  BY <1>2 DEF ConfigsInOrder, CopiesInOrder, CopiesInStep, PutsInStep, UnknownIsEmpty,
              TenantsAtRest, CopiesAtRest
<1>8. PlatformInOrder(updates)
  <2>1. slugs[PlatformSlug] \in Known => Current(slugs[PlatformSlug])
    BY <1>6 DEF PlatformKeepsSlug, PlatformIsProtected, TenantsAtRest, Current
  <2> QED BY <1>2, <2>1 DEF PlatformInOrder, PlatformIsCurrent
<1> QED BY <1>3, <1>4, <1>5, <1>6, <1>7, <1>8 DEF SetupInv, RenamesInOrder

-----------------------------------------------------------------------------
\* Who is known to no handler is quiet; a handler of renames knows its tenant.
LEMMA QuietIsUnnamed ==
    ASSUME SetupType, NEW t \in TenantIds, Quiet(t)
    PROVE  \A s \in Slots : req[s].at \in RenameSteps => req[s].t # t
<1> SUFFICES ASSUME NEW s \in Slots, req[s].at \in RenameSteps PROVE req[s].t # t
  OBVIOUS
<1>1. req[s] \in RenameHandlers
  BY RenamesKnow DEF SetupType
<1>2. "t" \in DOMAIN req[s]
  BY <1>1 DEF RenameHandlers
<1> QED BY <1>2 DEF Quiet

\* While tenants are set up, renamed and configured the properties hold.
LEMMA SetupKeepsPromises ==
    ASSUME NEW updates, SetupInv(updates)
    PROVE  SlugsLeadHome /\ CopiesFollowBaseline /\ PurgeIsComplete
<1>1. SlugsLeadHome
  <2> SUFFICES ASSUME "slugs" \notin torn
               PROVE  /\ \A t \in Known : Quiet(t) /\ metas[t].slug # None => slugs[metas[t].slug] = t
                      /\ \A x \in Slugs : slugs[x] \in Known /\ Quiet(slugs[x])
                            => metas[slugs[x]].slug = x
    BY DEF SlugsLeadHome
  <2>1. SlugsInStep
    BY DEF SetupInv, RenamesInOrder, SlugsInOrder
  <2>2. ASSUME NEW t \in Known, Quiet(t), metas[t].slug # None
        PROVE  slugs[metas[t].slug] = t
    <3>1. \A s \in Slots : req[s].at \in RenameSteps => req[s].t # t
      BY <2>2, QuietIsUnnamed DEF SetupInv, Known
    <3> QED BY <2>1, <2>2, <3>1 DEF SlugsInStep, RenameSteps
  <2> QED BY <2>1, <2>2 DEF SlugsInStep
<1>2. CopiesMatchTheirVersion
  BY DEF SetupInv, ConfigsInOrder, CopiesInOrder, CopiesInStep, Published,
         CopiesMatchTheirVersion
<1>3. PlatformHasNewest
  <2> SUFFICES ASSUME "baseline" \notin torn, "platform" \notin torn, NEW t \in Known \ torn,
                      metas[t].slug = PlatformSlug, slugs[PlatformSlug] = t,
                      \A s \in Slots : ~Busy(s)
               PROVE  configs[t] # None /\ configs[t].version = baseline.version
    BY DEF PlatformHasNewest
  <2>1. Current(t)
    BY DEF SetupInv, PlatformInOrder, PlatformIsCurrent
  <2>2. \A s \in Slots : ~Copying(s, t)
    BY DEF Copying, Busy, At
  <2> QED BY <2>1, <2>2 DEF Current
<1>4. PurgeIsComplete
  BY DEF SetupInv, NoPeople, ConfigsInOrder, UnknownIsEmpty, SetupType, TenantRowsType,
         PurgeIsComplete
<1> QED BY <1>1, <1>2, <1>3, <1>4 DEF CopiesFollowBaseline

\* Before the first request, or with requests of other areas under way, they
\* hold as well.
LEMMA RestKeepsPromises ==
    ASSUME TenantsAtRest
    PROVE  SlugsLeadHome /\ CopiesFollowBaseline /\ PurgeIsComplete
<1>1. SlugsLeadHome
  BY DEF TenantsAtRest, SlugsAtRest, SlugsLeadHome
<1>2. CopiesMatchTheirVersion
  BY DEF TenantsAtRest, CopiesAtRest, Published, CopiesMatchTheirVersion
<1>3. PlatformHasNewest
  BY DEF TenantsAtRest, IsPlatform, PlatformHasNewest
<1>4. PurgeIsComplete
  BY DEF TenantsAtRest, NoPeople, TenantRowsType, PurgeIsComplete
<1> QED BY <1>1, <1>2, <1>3, <1>4 DEF CopiesFollowBaseline

-----------------------------------------------------------------------------
\* A handler of people and purges that goes on is one still; the other slots
\* keep theirs.
LEMMA PurgeMoves ==
    ASSUME req \in [Slots -> PurgeHandlers], NEW s \in Slots, NEW r \in PurgeHandlers,
           Become(s, r)
    PROVE  /\ req' \in [Slots -> PurgeHandlers]
           /\ req'[s] = r
           /\ \A z \in Slots \ {s} : req'[z] = req[z]
BY DEF Become

\* Where a handler is tells what it knows.
LEMMA PurgeHandlersKnow ==
    ASSUME req \in [Slots -> PurgeHandlers], NEW s \in Slots
    PROVE  /\ req[s].at = "join.member" => req[s].t \in TenantIds /\ req[s].u \in Users
           /\ req[s].at = "work.put" => req[s].t \in TenantIds
           /\ req[s].at \in {"purge.emails", "purge.users", "purge.query"} =>
                req[s] \in [at : {"purge.emails", "purge.users", "purge.query"}, t : TenantIds,
                            emails : SUBSET Users, users : SUBSET Users]
           /\ req[s].at \in {"purge.rows", "purge.people", "purge.accounts"} =>
                req[s] \in [at : {"purge.rows", "purge.people", "purge.accounts"}, t : TenantIds,
                            emails : SUBSET Users, users : SUBSET Users, rows : SUBSET PurgedRows]
           /\ req[s].at \in PurgeSteps =>
                /\ req[s].t \in TenantIds
                /\ req[s].emails \in SUBSET Users /\ req[s].users \in SUBSET Users
           /\ req[s].at \in PurgeSteps \cup {"idle", "join.member", "work.put"}
<1>1. \/ req[s] = Idle
      \/ req[s] \in [at : {"join.member"}, t : TenantIds, u : Users]
      \/ req[s] \in [at : {"work.put"}, t : TenantIds]
      \/ req[s] \in [at : {"purge.emails", "purge.users", "purge.query"}, t : TenantIds,
                     emails : SUBSET Users, users : SUBSET Users]
      \/ req[s] \in [at : {"purge.rows", "purge.people", "purge.accounts"}, t : TenantIds,
                     emails : SUBSET Users, users : SUBSET Users, rows : SUBSET PurgedRows]
  BY DEF PurgeHandlers
<1> QED BY <1>1 DEF Idle, PurgeSteps

\* The person that a step is not about: same firm, same profile, same account,
\* and the handler goes on joining or dropping it as it did.
LEMMA PersonMoves ==
    ASSUME PurgeType, NEW s \in Slots, NEW r \in PurgeHandlers, Become(s, r),
           NEW u \in Users, PersonInOrder(u),
           \A v \in TenantIds : u \in members'[v] <=> u \in members[v],
           u \in profiles' <=> u \in profiles,
           u \in logins' <=> u \in logins,
           Joins(r, u) <=> Joins(req[s], u),
           Lists(r, u) => Lists(req[s], u) \/ Member(u),
           DropsProfile(req[s], u) => DropsProfile(r, u),
           DropsLogin(req[s], u) => DropsLogin(r, u),
           Finds(r, u), r.at \in PurgeSteps => r.t \in TenantIds
    PROVE  PersonInOrder(u)'
<1>1. req'[s] = r /\ \A z \in Slots \ {s} : req'[z] = req[z]
  BY PurgeMoves DEF PurgeType
<1>2. Member(u)' <=> Member(u)
  BY DEF Member
<1>3. \A z \in Slots : /\ Joins(req'[z], u) <=> Joins(req[z], u)
                       /\ Lists(req'[z], u) => Lists(req[z], u) \/ Member(u)
                       /\ DropsProfile(req[z], u) => DropsProfile(req'[z], u)
                       /\ DropsLogin(req[z], u) => DropsLogin(req'[z], u)
                       /\ Finds(req'[z], u)
  <2> SUFFICES ASSUME NEW z \in Slots
               PROVE  /\ Joins(req'[z], u) <=> Joins(req[z], u)
                      /\ Lists(req'[z], u) => Lists(req[z], u) \/ Member(u)
                      /\ DropsProfile(req[z], u) => DropsProfile(req'[z], u)
                      /\ DropsLogin(req[z], u) => DropsLogin(req'[z], u)
                      /\ Finds(req'[z], u)
    OBVIOUS
  <2>1. CASE z = s
    BY <1>1, <2>1
  <2>2. CASE z # s
    BY <1>1, <2>2 DEF PersonInOrder
  <2> QED BY <2>1, <2>2
<1>4. OnePerson(u)'
  <2>1. \A t, v \in TenantIds : u \in members'[t] /\ u \in members'[v] => t = v
    BY DEF PersonInOrder, OnePerson
  <2>2. Member(u)' => u \in profiles' /\ u \in logins'
    BY <1>2 DEF PersonInOrder, OnePerson
  <2>3. u \in profiles' =>
            Member(u)' \/ \E z \in Slots : Joins(req'[z], u) \/ DropsProfile(req'[z], u)
    BY <1>2, <1>3 DEF PersonInOrder, OnePerson
  <2>4. u \in logins' =>
            Member(u)' \/ \E z \in Slots : Joins(req'[z], u) \/ DropsLogin(req'[z], u)
    BY <1>2, <1>3 DEF PersonInOrder, OnePerson
  <2> QED BY <2>1, <2>2, <2>3, <2>4 DEF OnePerson, Joins, DropsProfile, DropsLogin
<1>5. OneJoin(u)'
  <2>1. \A z \in Slots : Joins(req'[z], u) =>
            /\ u \in profiles' /\ u \in logins' /\ ~Member(u)'
            /\ \A x \in Slots : ~Lists(req'[x], u)
            /\ \A x \in Slots \ {z} : ~Joins(req'[x], u)
    BY <1>2, <1>3 DEF PersonInOrder, OneJoin
  <2> QED BY <2>1 DEF OneJoin, Joins, Lists
<1>6. ASSUME NEW z \in Slots
      PROVE  Finds(req[z], u)'
  <2> PICK q \in PurgeHandlers : q = req'[z]
    BY PurgeMoves DEF PurgeType
  <2>1. Finds(q, u) /\ (q.at \in PurgeSteps => q.t \in TenantIds)
    BY <1>3, PurgeMoves, PurgeHandlersKnow DEF PurgeType
  <2>2. Finds(q, u)'
    BY <2>1 DEF Finds
  <2> QED BY <2>2 DEF Finds
<1> QED BY <1>4, <1>5, <1>6 DEF PersonInOrder

\* The rows of the tenants, when they get fewer or a tenant that is known and
\* not being purged gets more.
LEMMA RowsMove ==
    ASSUME PurgeType, PurgesSeeAll, NEW s \in Slots, NEW r \in PurgeHandlers, Become(s, r),
           torn \subseteq torn',
           \A t \in TenantIds \ torn' :
                Stored(t)' \subseteq Stored(t) \/ (t \in Known' /\ ~Purging(t)),
           \A t \in TenantIds \ torn' :
                t \in Known /\ t \notin Known' => r.at = "purge.rows" /\ r.t = t,
           \A t \in TenantIds \ torn' :
                req[s].at = "purge.rows" /\ req[s].t = t =>
                    (r.at = "purge.rows" /\ r.t = t) \/ Stored(t)' = {},
           SeesAll(r)', r.at \in PurgeSteps => r.t \in TenantIds
    PROVE  PurgesSeeAll'
<1>1. req'[s] = r /\ \A z \in Slots \ {s} : req'[z] = req[z]
  BY PurgeMoves DEF PurgeType
<1>2. ASSUME NEW z \in Slots
      PROVE  SeesAll(req[z])'
  <2> PICK q \in PurgeHandlers : q = req'[z]
    BY PurgeMoves DEF PurgeType
  <2>1. CASE z = s
    <3>1. q = r
      BY <1>1, <2>1
    <3> QED BY <3>1 DEF SeesAll, Stored
  <2>2. CASE z # s
    <3>1. q = req[z] /\ SeesAll(q)
      BY <1>1, <2>2 DEF PurgesSeeAll
    <3>2. q.at \in PurgeSteps => q.t \in TenantIds /\ Purging(q.t)
      BY <3>1, PurgeHandlersKnow DEF PurgeType, Purging
    <3>3. q.at \in {"purge.rows"} \cup AccountSteps /\ q.t \notin torn'
            => Stored(q.t)' \subseteq Stored(q.t) /\ q.t \notin torn
      BY <3>2 DEF PurgeSteps, AccountSteps
    <3>4. SeesAll(q)'
      BY <3>1, <3>3 DEF SeesAll
    <3> QED BY <3>4 DEF SeesAll, Stored
  <2> QED BY <2>1, <2>2
<1>3. ASSUME NEW t \in TenantIds \ torn', t \notin Known'
      PROVE  \/ Stored(t)' = {}
             \/ \E z \in Slots : req'[z].at = "purge.rows" /\ req'[z].t = t
  <2>1. CASE t \in Known
    BY <1>1, <1>3, <2>1
  <2>2. CASE t \notin Known /\ Stored(t) = {}
    BY <1>3, <2>2
  <2>3. CASE t \notin Known /\ Stored(t) # {}
    <3>1. PICK z \in Slots : req[z].at = "purge.rows" /\ req[z].t = t
      BY <2>3 DEF PurgesSeeAll
    <3>2. CASE z = s
      <4>1. (r.at = "purge.rows" /\ r.t = t) \/ Stored(t)' = {}
        BY <3>1, <3>2
      <4> QED BY <1>1, <4>1
    <3>3. CASE z # s
      BY <1>1, <3>1, <3>3
    <3> QED BY <3>2, <3>3
  <2> QED BY <2>1, <2>2, <2>3
<1> QED BY <1>2, <1>3 DEF PurgesSeeAll

\* META and configuration rows, when they only go, and never those of the
\* platform.
LEMMA RestKept ==
    ASSUME PurgeType, RowsAtRest, NEW s \in Slots, NEW r \in PurgeHandlers, Become(s, r),
           UNCHANGED <<slugs, made, baseline, published>>, TenantRowsType',
           torn \subseteq torn',
           \A t \in TenantIds : metas'[t] \in {metas[t], None},
           \A t \in TenantIds : configs'[t] = configs[t] \/ (configs'[t] = None /\ ~Protected(t)),
           \A t \in pending' : ~Protected(t), pending' \in SUBSET TenantIds,
           r.at \in PurgeSteps => r.t \in TenantIds /\ ~Protected(r.t)
    PROVE  RowsAtRest' /\ Known' \subseteq Known
<1>1. req'[s] = r /\ \A z \in Slots \ {s} : req'[z] = req[z]
  BY PurgeMoves DEF PurgeType
<1>2. Known' \subseteq Known /\ \A t \in Known' : metas'[t] = metas[t]
  BY DEF Known
<1>3. \A t : Protected(t)' => Protected(t)
  BY <1>2 DEF Protected, IsPlatform
<1>4. SlugsAtRest'
  BY <1>2 DEF RowsAtRest, SlugsAtRest
<1>5. CopiesAtRest'
  <2> SUFFICES ASSUME NEW t \in TenantIds, configs'[t] # None PROVE Published(configs[t])'
    BY DEF CopiesAtRest
  <2>1. configs'[t] = configs[t] /\ Published(configs[t])
    BY DEF RowsAtRest, CopiesAtRest
  <2> QED BY <2>1 DEF Published
<1>6. PlatformStays'
  <2>1. ASSUME NEW t \in Known', Protected(t)'
        PROVE  /\ configs'[t] # None /\ baseline' # None
               /\ configs'[t].version = baseline'.version
    <3>1. t \in Known /\ Protected(t) /\ t \in TenantIds
      BY <1>2, <1>3, <2>1 DEF Known
    <3> QED BY <3>1 DEF RowsAtRest, PlatformStays
  <2>2. ASSUME NEW z \in Slots, req'[z].at \in PurgeSteps
        PROVE  ~Protected(req[z].t)'
    <3> PICK q \in PurgeHandlers : q = req'[z]
      BY PurgeMoves DEF PurgeType
    <3>1. ~Protected(q.t)
      BY <1>1, <2>2 DEF RowsAtRest, PlatformStays
    <3>2. ~Protected(q.t)'
      BY <1>3, <3>1
    <3> QED BY <3>2 DEF Protected, IsPlatform
  <2> QED BY <1>3, <2>1, <2>2 DEF PlatformStays
<1> QED BY <1>2, <1>4, <1>5, <1>6 DEF RowsAtRest

\* A step of people that writes no row of a tenant.
LEMMA RowsStay ==
    ASSUME PurgeInv, NEW s \in Slots, NEW r \in PurgeHandlers, Become(s, r),
           UNCHANGED <<slugVars, llmVars, members, work>>,
           profiles' \in SUBSET Users, logins' \in SUBSET Users,
           \A t \in pending' : ~Protected(t), pending' \in SUBSET TenantIds,
           torn \subseteq torn',
           r.at \in PurgeSteps => r.t \in TenantIds /\ ~Protected(r.t),
           \A t \in TenantIds \ torn' :
                req[s].at = "purge.rows" /\ req[s].t = t =>
                    (r.at = "purge.rows" /\ r.t = t) \/ Stored(t) = {},
           SeesAll(r)'
    PROVE  PurgeType' /\ RowsAtRest' /\ PurgesSeeAll'
<1>1. UNCHANGED <<metas, slugs, made, baseline, configs, published>> /\ Known' = Known
  BY DEF slugVars, llmVars, Known
<1>2. \A t : Stored(t)' = Stored(t)
  BY <1>1 DEF Stored
<1>3. PurgeType'
  BY <1>1, PurgeMoves DEF PurgeInv, PurgeType, TenantRowsType, PurgeRowsType
<1>4. RowsAtRest'
  BY <1>1, <1>3, RestKept DEF PurgeInv, PurgeType
<1>5. PurgesSeeAll'
  BY <1>1, <1>2, RowsMove DEF PurgeInv
<1> QED BY <1>3, <1>4, <1>5

\* A step that writes nothing: a handler of people or purges goes on or stops.
LEMMA QuietPurgeStep ==
    ASSUME PurgeInv, NEW s \in Slots, NEW r \in PurgeHandlers, Become(s, r),
           UNCHANGED <<slugVars, llmVars, members, profiles, logins, work>>,
           \A t \in pending' : ~Protected(t), pending' \in SUBSET TenantIds,
           torn \subseteq torn',
           r.at \in PurgeSteps => r.t \in TenantIds /\ ~Protected(r.t),
           \A t \in TenantIds \ torn' :
                req[s].at = "purge.rows" /\ req[s].t = t =>
                    (r.at = "purge.rows" /\ r.t = t) \/ Stored(t) = {},
           SeesAll(r)',
           \A u \in Users \ torn' :
                /\ Joins(r, u) <=> Joins(req[s], u)
                /\ Lists(r, u) => Lists(req[s], u) \/ Member(u)
                /\ DropsProfile(req[s], u) => DropsProfile(r, u)
                /\ DropsLogin(req[s], u) => DropsLogin(r, u)
                /\ Finds(r, u)
    PROVE  PurgeInv'
<1>1. PurgeType' /\ RowsAtRest' /\ PurgesSeeAll'
  <2>1. profiles' \in SUBSET Users /\ logins' \in SUBSET Users
    BY DEF PurgeInv, PurgeType, PurgeRowsType
  <2> QED BY <2>1, RowsStay
<1>2. PeopleInOrder'
  <2> SUFFICES ASSUME NEW u \in Users, u \notin torn' PROVE PersonInOrder(u)'
    BY DEF PeopleInOrder
  <2>1. PersonInOrder(u)
    BY DEF PurgeInv, PeopleInOrder
  <2> QED BY <2>1, PersonMoves DEF PurgeInv
<1> QED BY <1>1, <1>2 DEF PurgeInv

\* Who does nothing to people finds and drops nobody.
LEMMA Harmless ==
    ASSUME NEW r, r.at \in {"idle", "work.put"}
    PROVE  /\ r.at \notin PurgeSteps /\ r.at # "purge.rows"
           /\ \A u : ~Joins(r, u) /\ ~Lists(r, u) /\ ~DropsProfile(r, u) /\ ~DropsLogin(r, u)
                     /\ Finds(r, u)
           /\ SeesAll(r)
BY DEF PurgeSteps, AccountSteps, Joins, Lists, DropsProfile, DropsLogin, Finds, SeesAll

\* Nobody starts with the rows or the people.
LEMMA EarlyPurge ==
    ASSUME NEW r, r.at \in {"purge.emails", "purge.users", "purge.query"}
    PROVE  /\ r.at \in PurgeSteps /\ r.at # "purge.rows" /\ r.at \notin AccountSteps
           /\ \A u : ~Joins(r, u) /\ ~DropsProfile(r, u) /\ ~DropsLogin(r, u)
           /\ SeesAll(r)
BY DEF PurgeSteps, AccountSteps, Joins, DropsProfile, DropsLogin, SeesAll

\* request_tenant_purge and the loss of a code write no row.
LEMMA CodeStep ==
    ASSUME PurgeInv, UNCHANGED <<req, slugVars, llmVars, members, profiles, logins, work>>,
           torn \subseteq torn',
           "platform" \in torn' \/ \A t \in pending' : ~Protected(t),
           pending' \in SUBSET TenantIds
    PROVE  PurgeInv'
<1>1. UNCHANGED <<metas, slugs, made, baseline, configs, published>> /\ Known' = Known
  BY DEF slugVars, llmVars, Known
<1>2. PurgeType'
  BY <1>1 DEF PurgeInv, PurgeType, TenantRowsType, PurgeRowsType
<1>3. RowsAtRest'
  <2>1. SlugsAtRest' /\ CopiesAtRest'
    BY <1>1 DEF PurgeInv, RowsAtRest, SlugsAtRest, CopiesAtRest, Published
  <2>2. \A t : Protected(t)' => Protected(t) /\ "platform" \notin torn'
    BY <1>1 DEF Protected, IsPlatform
  <2>3. PlatformStays'
    BY <1>1, <2>2 DEF PurgeInv, RowsAtRest, PlatformStays
  <2> QED BY <2>1, <2>3 DEF RowsAtRest
<1>4. PurgesSeeAll'
  <2>1. \A t : Stored(t)' = Stored(t)
    BY <1>1 DEF Stored
  <2>2. ASSUME NEW s \in Slots PROVE SeesAll(req[s])'
    BY <1>1, <2>1 DEF PurgeInv, PurgesSeeAll, SeesAll
  <2> QED BY <1>1, <2>1, <2>2 DEF PurgeInv, PurgesSeeAll
<1>5. PeopleInOrder'
  <2> SUFFICES ASSUME NEW u \in Users, u \notin torn' PROVE PersonInOrder(u)'
    BY DEF PeopleInOrder
  <2>1. PersonInOrder(u)
    BY DEF PurgeInv, PeopleInOrder
  <2>2. OnePerson(u)' /\ OneJoin(u)'
    BY <2>1 DEF PersonInOrder, OnePerson, OneJoin, Member, Joins, Lists, DropsProfile, DropsLogin
  <2>3. \A z \in Slots : Finds(req[z], u)'
    BY <2>1 DEF PersonInOrder, Finds
  <2> QED BY <2>2, <2>3 DEF PersonInOrder
<1> QED BY <1>2, <1>3, <1>4, <1>5 DEF PurgeInv

\* confirm_tenant_purge lists the members.
LEMMA ConfirmPurgeStep ==
    ASSUME PurgeInv, NEW s \in Slots, NEW t \in TenantIds, ConfirmPurge(s, t)
    PROVE  PurgeInv'
<1> DEFINE r == [at |-> "purge.emails", t |-> t, emails |-> members[t], users |-> {}]
<1>1. /\ t \in pending /\ pending' = pending \ {t}
      /\ Become(s, r) /\ req[s].at = "idle"
      /\ UNCHANGED <<slugVars, llmVars, members, profiles, logins, work, torn>>
  BY BeginMoves DEF ConfirmPurge
<1>2. members[t] \in SUBSET Users /\ pending \in SUBSET TenantIds
  BY DEF PurgeInv, PurgeType, PurgeRowsType
<1>3. r \in PurgeHandlers
  BY <1>2 DEF PurgeHandlers
<1>4. r.at = "purge.emails" /\ r.t = t /\ r.emails = members[t] /\ r.users = {}
  OBVIOUS
<1> HIDE DEF r
<1>5. PICK q \in PurgeHandlers : q = r
  BY <1>3
<1>6. \A v \in pending : ~Protected(v)
  BY DEF PurgeInv, RowsAtRest, PlatformStays
<1>7. SeesAll(q)'
  BY <1>4, <1>5 DEF SeesAll, AccountSteps
<1>8. ASSUME NEW u \in Users \ torn'
      PROVE  /\ Joins(q, u) <=> Joins(req[s], u)
             /\ Lists(q, u) => Lists(req[s], u) \/ Member(u)
             /\ DropsProfile(req[s], u) => DropsProfile(q, u)
             /\ DropsLogin(req[s], u) => DropsLogin(q, u)
             /\ Finds(q, u)
  <2>1. Joins(q, u) <=> Joins(req[s], u)
    BY <1>1, <1>4, <1>5 DEF Joins
  <2>2. Lists(q, u) => Member(u)
    BY <1>4, <1>5 DEF Lists, Member
  <2>3. ~DropsProfile(req[s], u) /\ ~DropsLogin(req[s], u)
    BY <1>1, Harmless
  <2>4. PersonInOrder(u)
    BY <1>1 DEF PurgeInv, PeopleInOrder
  <2>5. Finds(q, u)
    BY <1>4, <1>5, <2>4 DEF Finds, AccountSteps, PersonInOrder, OnePerson
  <2> QED BY <2>1, <2>2, <2>3, <2>5
<1> QED BY <1>1, <1>2, <1>4, <1>5, <1>6, <1>7, <1>8, QuietPurgeStep

\* A handler finds its tenant and goes on to file work under it.
LEMMA StartWorkStep ==
    ASSUME PurgeInv, NEW s \in Slots, NEW t \in TenantIds, StartWork(s, t)
    PROVE  PurgeInv'
<1> DEFINE r == [at |-> "work.put", t |-> t]
<1>1. Become(s, r) /\ req[s].at = "idle" /\ UNCHANGED tenantVars
  BY BeginMoves DEF StartWork
<1>2. r \in PurgeHandlers /\ r.at = "work.put"
  BY DEF PurgeHandlers
<1> HIDE DEF r
<1>3. PICK q \in PurgeHandlers : q = r
  BY <1>2
<1>4. /\ UNCHANGED <<slugVars, llmVars, members, profiles, logins, work>>
      /\ pending' = pending /\ torn' = torn
  BY <1>1 DEF tenantVars, purgeVars
<1>5. pending \in SUBSET TenantIds /\ \A v \in pending : ~Protected(v)
  BY DEF PurgeInv, PurgeType, PurgeRowsType, RowsAtRest, PlatformStays
<1>6. SeesAll(q)'
  BY <1>2, <1>3 DEF SeesAll, AccountSteps
<1> QED BY <1>1, <1>2, <1>3, <1>4, <1>5, <1>6, Harmless, QuietPurgeStep

\* A purge that reads goes on with what it has read.
LEMMA PurgeReads ==
    ASSUME PurgeInv, NEW s \in Slots, req[s].at \in {"purge.emails", "purge.users", "purge.query"},
           NEW r \in PurgeHandlers, Become(s, r), UNCHANGED <<slugVars, llmVars, purgeVars>>,
           torn \subseteq torn',
           r.at \in {"purge.users", "purge.query", "purge.rows"}, r.t = req[s].t,
           r.at = "purge.rows" => Stored(r.t) \subseteq r.rows,
           \A u \in Users \ torn' : (Lists(r, u) => Lists(req[s], u) \/ Member(u)) /\ Finds(r, u)
    PROVE  PurgeInv'
<1>1. /\ UNCHANGED <<slugVars, llmVars, members, profiles, logins, work>>
      /\ UNCHANGED <<metas, configs>> /\ pending' = pending
  BY DEF purgeVars, slugVars, llmVars
<1>2. pending \in SUBSET TenantIds /\ \A v \in pending : ~Protected(v)
  BY DEF PurgeInv, PurgeType, PurgeRowsType, RowsAtRest, PlatformStays
<1>3. req[s].at \in PurgeSteps /\ r.at \notin AccountSteps
  BY DEF PurgeSteps, AccountSteps
<1>4. r.t \in TenantIds /\ ~Protected(r.t)
  BY <1>3, PurgeHandlersKnow DEF PurgeInv, PurgeType, RowsAtRest, PlatformStays
<1>5. Stored(r.t)' = Stored(r.t)
  BY <1>1 DEF Stored, Known
<1>6. SeesAll(r)'
  BY <1>1, <1>3, <1>5 DEF SeesAll
<1>7. \A u : ~Joins(r, u) /\ ~Joins(req[s], u) /\ ~DropsProfile(req[s], u) /\ ~DropsLogin(req[s], u)
  BY EarlyPurge DEF Joins
<1> QED BY <1>1, <1>2, <1>4, <1>6, <1>7, QuietPurgeStep

\* The emails of the members are those of the profiles that are found: all but
\* those of the people that are torn.
LEMMA ReadEmailsStep ==
    ASSUME PurgeInv, NEW s \in Slots, ReadEmails(s)
    PROVE  PurgeInv'
<1>0. PICK found \in SUBSET (req[s].emails \cap profiles) :
        /\ Become(s, [req[s] EXCEPT !.at = "purge.users", !.emails = found])
        /\ torn' = torn \cup ((req[s].emails \cap profiles) \ found)
  BY Zenon DEF ReadEmails
<1> DEFINE r == [req[s] EXCEPT !.at = "purge.users", !.emails = found]
<1>1. /\ req[s].at = "purge.emails" /\ Become(s, r) /\ torn \subseteq torn'
      /\ UNCHANGED <<slugVars, llmVars, purgeVars>>
  BY <1>0 DEF ReadEmails, At
<1>2. req[s] \in [at : {"purge.emails", "purge.users", "purge.query"}, t : TenantIds,
                  emails : SUBSET Users, users : SUBSET Users]
  BY <1>1, PurgeHandlersKnow DEF PurgeInv, PurgeType
<1>3. /\ r \in [at : {"purge.emails", "purge.users", "purge.query"}, t : TenantIds,
                emails : SUBSET Users, users : SUBSET Users]
      /\ r.at = "purge.users" /\ r.t = req[s].t /\ r.users = req[s].users
      /\ r.emails = found
  BY <1>2
<1> HIDE DEF r
<1>4. PICK q \in PurgeHandlers : q = r
  BY <1>3 DEF PurgeHandlers
<1>5. ASSUME NEW u \in Users \ torn'
      PROVE  (Lists(q, u) => Lists(req[s], u)) /\ Finds(q, u)
  <2>1. PersonInOrder(u) /\ req[s].at \in PurgeSteps
    BY <1>1 DEF PurgeInv, PeopleInOrder, PurgeSteps
  <2>0. u \in found <=> u \in req[s].emails /\ u \in profiles
    BY <1>0
  <2>2. Lists(q, u) => Lists(req[s], u)
    BY <1>3, <1>4, <2>0, <2>1 DEF Lists
  <2>3. u \in members[q.t] => u \in profiles
    BY <1>2, <1>3, <1>4, <2>1 DEF PersonInOrder, OnePerson, Member
  <2>4. Finds(req[s], u)
    BY <2>1 DEF PersonInOrder
  <2>5. Finds(q, u)
    BY <1>3, <1>4, <2>0, <2>1, <2>3, <2>4 DEF Finds, AccountSteps
  <2> QED BY <2>2, <2>5
<1> QED BY <1>1, <1>3, <1>4, <1>5, PurgeReads

\* purge_tenant_data lists the members once more.
LEMMA ListUsersStep ==
    ASSUME PurgeInv, NEW s \in Slots, ListUsers(s)
    PROVE  PurgeInv'
<1> DEFINE r == [req[s] EXCEPT !.at = "purge.query", !.users = members[req[s].t]]
<1>1. req[s].at = "purge.users" /\ Become(s, r) /\ UNCHANGED tenantVars
  BY DEF ListUsers, At
<1>2. req[s] \in [at : {"purge.emails", "purge.users", "purge.query"}, t : TenantIds,
                  emails : SUBSET Users, users : SUBSET Users]
  BY <1>1, PurgeHandlersKnow DEF PurgeInv, PurgeType
<1>3. members[req[s].t] \in SUBSET Users
  BY <1>2 DEF PurgeInv, PurgeType, PurgeRowsType
<1>4. /\ r \in [at : {"purge.emails", "purge.users", "purge.query"}, t : TenantIds,
                emails : SUBSET Users, users : SUBSET Users]
      /\ r.at = "purge.query" /\ r.t = req[s].t /\ r.emails = req[s].emails
      /\ r.users = members[req[s].t]
  BY <1>2, <1>3
<1> HIDE DEF r
<1>5. PICK q \in PurgeHandlers : q = r
  BY <1>4 DEF PurgeHandlers
<1>6. ASSUME NEW u \in Users \ torn'
      PROVE  (Lists(q, u) => Lists(req[s], u) \/ Member(u)) /\ Finds(q, u)
  <2>1. PersonInOrder(u) /\ req[s].at \in PurgeSteps /\ q.t \in TenantIds
    BY <1>1, <1>2, <1>4, <1>5 DEF PurgeInv, PeopleInOrder, PurgeSteps, tenantVars
  <2>2. Lists(q, u) => Lists(req[s], u) \/ Member(u)
    BY <1>4, <1>5, <2>1 DEF Lists, Member
  <2>3. Finds(req[s], u) /\ \A v, w \in TenantIds : u \in members[v] /\ u \in members[w] => v = w
    BY <2>1 DEF PersonInOrder, OnePerson
  <2>4. Finds(q, u)
    BY <1>4, <1>5, <2>1, <2>3 DEF Finds, AccountSteps
  <2> QED BY <2>2, <2>4
<1>7. UNCHANGED <<slugVars, llmVars, purgeVars>> /\ torn \subseteq torn'
  BY <1>1 DEF tenantVars
<1> QED BY <1>1, <1>4, <1>5, <1>6, <1>7, PurgeReads

\* The query finds all that is stored.
LEMMA QueryTenantStep ==
    ASSUME PurgeInv, NEW s \in Slots, QueryTenant(s)
    PROVE  PurgeInv'
<1> DEFINE r == [at |-> "purge.rows", t |-> req[s].t, emails |-> req[s].emails,
                 users |-> req[s].users, rows |-> Stored(req[s].t)]
<1>1. req[s].at = "purge.query" /\ UNCHANGED tenantVars
  BY DEF QueryTenant, At
<1>2. Become(s, r)
  <2>1. Stored(req[s].t) =
            {x \in {"meta", "config", "work"} :
                    CASE x = "meta" -> req[s].t \in Known
                      [] x = "config" -> configs[req[s].t] # None
                      [] x = "work" -> req[s].t \in work} \cup members[req[s].t]
    BY DEF Stored
  <2> QED BY <2>1 DEF QueryTenant
<1>3. req[s] \in [at : {"purge.emails", "purge.users", "purge.query"}, t : TenantIds,
                  emails : SUBSET Users, users : SUBSET Users]
  BY <1>1, PurgeHandlersKnow DEF PurgeInv, PurgeType
<1>4. Stored(req[s].t) \in SUBSET PurgedRows /\ members[req[s].t] \subseteq Stored(req[s].t)
  BY <1>3 DEF Stored, PurgedRows, PurgeInv, PurgeType, PurgeRowsType
<1>5. /\ r \in [at : {"purge.rows", "purge.people", "purge.accounts"}, t : TenantIds,
                emails : SUBSET Users, users : SUBSET Users, rows : SUBSET PurgedRows]
      /\ r.at = "purge.rows" /\ r.t = req[s].t /\ r.emails = req[s].emails
      /\ r.users = req[s].users /\ r.rows = Stored(req[s].t)
  BY <1>3, <1>4
<1> HIDE DEF r
<1>6. PICK q \in PurgeHandlers : q = r
  BY <1>5 DEF PurgeHandlers
<1>7. ASSUME NEW u \in Users \ torn'
      PROVE  (Lists(q, u) => Lists(req[s], u)) /\ Finds(q, u)
  <2>1. Finds(req[s], u) /\ req[s].at \in PurgeSteps
    BY <1>1 DEF PurgeInv, PeopleInOrder, PersonInOrder, PurgeSteps, tenantVars
  <2>2. Lists(q, u) => Lists(req[s], u)
    BY <1>5, <1>6, <2>1 DEF Lists
  <2>3. Finds(q, u)
    BY <1>1, <1>4, <1>5, <1>6, <2>1 DEF Finds, AccountSteps
  <2> QED BY <2>2, <2>3
<1>8. q.at = "purge.rows" => Stored(q.t) \subseteq q.rows
  BY <1>5, <1>6
<1>9. UNCHANGED <<slugVars, llmVars, purgeVars>> /\ torn \subseteq torn'
  BY <1>1 DEF tenantVars
<1> QED BY <1>1, <1>2, <1>5, <1>6, <1>7, <1>8, <1>9, PurgeReads

\* A handler that dies tears its tenant and the people that it was about.
LEMMA PurgeAbortStep ==
    ASSUME PurgeInv, NEW s \in Slots, AbortTenantRequest(s)
    PROVE  PurgeInv'
<1>1. /\ Become(s, Idle) /\ torn' = torn \cup HalfDoneAt(s)
      /\ UNCHANGED <<slugVars, llmVars, members, profiles, logins, work>> /\ pending' = pending
  BY IdleMoves DEF AbortTenantRequest, purgeVars
<1>2. Idle \in PurgeHandlers /\ Idle.at = "idle"
  BY DEF PurgeHandlers, Idle
<1>3. pending \in SUBSET TenantIds /\ \A v \in pending : ~Protected(v)
  BY DEF PurgeInv, PurgeType, PurgeRowsType, RowsAtRest, PlatformStays
<1>4. /\ req[s].at \in PurgeSteps => HalfDoneAt(s) = {req[s].t} \cup Users
      /\ req[s].at = "join.member" => HalfDoneAt(s) = {req[s].u}
  BY DEF HalfDoneAt, PurgeSteps
<1>5. SeesAll(Idle)'
  BY <1>2 DEF SeesAll, AccountSteps
<1>6. ASSUME NEW u \in Users \ torn'
      PROVE  /\ ~Joins(req[s], u) /\ ~DropsProfile(req[s], u) /\ ~DropsLogin(req[s], u)
             /\ ~Joins(Idle, u) /\ ~Lists(Idle, u) /\ Finds(Idle, u)
  <2>1. ~Joins(Idle, u) /\ ~Lists(Idle, u) /\ Finds(Idle, u)
    BY <1>2, Harmless
  <2>2. req[s].at \notin PurgeSteps /\ ~Joins(req[s], u)
    BY <1>1, <1>4, <1>6 DEF Joins
  <2>3. ~DropsProfile(req[s], u) /\ ~DropsLogin(req[s], u)
    BY <2>2 DEF DropsProfile, DropsLogin, PurgeSteps, AccountSteps
  <2> QED BY <2>1, <2>2, <2>3
<1>7. \A t \in TenantIds \ torn' : ~(req[s].at = "purge.rows" /\ req[s].t = t)
  BY <1>1, <1>4 DEF PurgeSteps
<1>8. Idle.at \notin PurgeSteps
  BY <1>2 DEF PurgeSteps
<1> QED BY <1>1, <1>2, <1>3, <1>5, <1>6, <1>7, <1>8, QuietPurgeStep

\* request_tenant_purge refuses the Platform tenant, or has missed it.
LEMMA PurgeCodeStep ==
    ASSUME PurgeInv, NEW t \in TenantIds, RequestPurge(t) \/ ForgetPurge(t)
    PROVE  PurgeInv'
<1>1. /\ UNCHANGED <<req, slugVars, llmVars, members, profiles, logins, work>>
      /\ torn \subseteq torn'
  BY DEF RequestPurge, ForgetPurge, Tear
<1>2. pending \in SUBSET TenantIds /\ \A v \in pending : ~Protected(v)
  BY DEF PurgeInv, PurgeType, PurgeRowsType, RowsAtRest, PlatformStays
<1>3. /\ pending' \in SUBSET TenantIds
      /\ "platform" \in torn' \/ \A v \in pending' : ~Protected(v)
  <2>1. CASE RequestPurge(t)
    BY <1>2, <2>1 DEF RequestPurge, Tear, Protected, IsPlatform
  <2>2. CASE ForgetPurge(t)
    BY <1>2, <2>2 DEF ForgetPurge
  <2> QED BY <2>1, <2>2
<1> QED BY <1>1, <1>3, CodeStep

\* Who joins gets a profile and an account and is no member yet.
LEMMA JoinTenantStep ==
    ASSUME PurgeInv, NEW s \in Slots, NEW t \in TenantIds, NEW p \in Users, JoinTenant(s, t, p)
    PROVE  PurgeInv'
<1> DEFINE r == [at |-> "join.member", t |-> t, u |-> p]
<1>1. /\ Become(s, r) /\ req[s].at = "idle"
      /\ UNCHANGED <<metas, slugs, made, baseline, configs, published, members, work, pending>>
      /\ profiles' = profiles \cup {p} /\ logins' = logins \cup {p}
      /\ \A v \in TenantIds : p \notin members[v]
      /\ torn \subseteq torn'
      /\ p \notin torn' => ~Leaving(p) /\ \A x \in Slots : ~Joins(req[x], p)
  BY BeginMoves DEF JoinTenant, slugVars, llmVars, Tear, Joins, At
<1>2. r \in PurgeHandlers /\ r.at = "join.member" /\ r.u = p
  BY DEF PurgeHandlers
<1> HIDE DEF r
<1>3. PICK q \in PurgeHandlers : q = r
  BY <1>2
<1>4. req'[s] = q /\ \A z \in Slots \ {s} : req'[z] = req[z]
  BY <1>1, <1>3, PurgeMoves DEF PurgeInv, PurgeType
<1>5. /\ q.at \notin PurgeSteps /\ q.at # "purge.rows" /\ SeesAll(q)'
      /\ \A u : ~Lists(q, u) /\ Finds(q, u) /\ (Joins(q, u) <=> u = p)
  BY <1>2, <1>3 DEF PurgeSteps, AccountSteps, SeesAll, Lists, Finds, Joins
<1>6. PurgeType' /\ Known' = Known
  BY <1>1, <1>3, PurgeMoves DEF PurgeInv, PurgeType, TenantRowsType, PurgeRowsType, Known
<1>7. RowsAtRest'
  <2>1. pending' \in SUBSET TenantIds /\ \A v \in pending' : ~Protected(v)
    BY <1>1 DEF PurgeInv, PurgeType, PurgeRowsType, RowsAtRest, PlatformStays
  <2> QED BY <1>1, <1>3, <1>5, <1>6, <2>1, RestKept DEF PurgeInv, PurgeType
<1>8. PurgesSeeAll'
  <2>1. \A v : Stored(v)' = Stored(v)
    BY <1>1 DEF Stored, Known
  <2> QED BY <1>1, <1>3, <1>5, <1>6, <2>1, RowsMove DEF PurgeInv
<1>9. ASSUME NEW u \in Users, u \notin torn', u # p
      PROVE  PersonInOrder(u)'
  <2>1. PersonInOrder(u)
    BY <1>1, <1>9 DEF PurgeInv, PeopleInOrder
  <2>2. /\ Joins(q, u) <=> Joins(req[s], u)
        /\ ~DropsProfile(req[s], u) /\ ~DropsLogin(req[s], u)
    BY <1>1, <1>5, <1>9, Harmless
  <2> QED BY <1>1, <1>3, <1>5, <1>9, <2>1, <2>2, PersonMoves DEF PurgeInv
<1>10. ASSUME p \notin torn'
       PROVE  PersonInOrder(p)'
  <2>1. /\ PersonInOrder(p) /\ ~Member(p)' /\ p \in profiles' /\ p \in logins'
        /\ \A z \in Slots : Joins(req'[z], p) <=> z = s
        /\ \A z \in Slots : ~Lists(req'[z], p)
    <3>1. PersonInOrder(p) /\ ~Member(p)' /\ p \in profiles' /\ p \in logins'
      BY <1>1, <1>10 DEF PurgeInv, PeopleInOrder, Member
    <3>2. \A z \in Slots : Joins(req'[z], p) <=> z = s
      BY <1>1, <1>4, <1>5, <1>10
    <3>3. \A z \in Slots : ~Lists(req[z], p)
      BY <1>1, <1>10 DEF Leaving, Lists
    <3>4. \A z \in Slots : ~Lists(req'[z], p)
      BY <1>4, <1>5, <3>3
    <3> QED BY <3>1, <3>2, <3>4
  <2>2. OnePerson(p)'
    BY <1>1, <2>1 DEF OnePerson, Member, Joins
  <2>3. OneJoin(p)'
    BY <2>1 DEF OneJoin, Joins, Lists, Member
  <2>4. ASSUME NEW z \in Slots
        PROVE  Finds(req[z], p)'
    <3> PICK h \in PurgeHandlers : h = req'[z]
      BY <1>6 DEF PurgeType
    <3>1. Finds(h, p) /\ (h.at \in PurgeSteps => h.t \in TenantIds)
      BY <1>4, <1>5, <2>1, PurgeHandlersKnow DEF PersonInOrder, PurgeInv, PurgeType
    <3>2. Finds(h, p)'
      BY <1>1, <3>1 DEF Finds
    <3> QED BY <3>2 DEF Finds
  <2> QED BY <2>2, <2>3, <2>4 DEF PersonInOrder
<1>11. PeopleInOrder'
  BY <1>9, <1>10 DEF PeopleInOrder
<1> QED BY <1>6, <1>7, <1>8, <1>11 DEF PurgeInv

\* A row is filed under a tenant that is known and not being purged, or the
\* tenant is torn.
LEMMA FileRow ==
    ASSUME PurgeInv, NEW s \in Slots, req[s].at \in {"join.member", "work.put"}, Return(s),
           NEW t \in TenantIds, UNCHANGED <<slugVars, llmVars, pending>>,
           \A v \in TenantIds \ {t} : Stored(v)' = Stored(v),
           t \notin torn' => t \in Known /\ ~Purging(t),
           torn \subseteq torn', PurgeRowsType'
    PROVE  PurgeType' /\ RowsAtRest' /\ PurgesSeeAll'
<1>1. UNCHANGED <<metas, slugs, made, baseline, configs, published>> /\ Known' = Known
  BY DEF slugVars, llmVars, Known
<1>2. Become(s, Idle) /\ Idle \in PurgeHandlers /\ Idle.at = "idle"
  BY IdleMoves DEF PurgeHandlers, Idle
<1>3. PurgeType'
  BY <1>1, <1>2, PurgeMoves DEF PurgeInv, PurgeType, TenantRowsType
<1>4. Idle.at \notin PurgeSteps /\ SeesAll(Idle)'
  BY <1>2 DEF PurgeSteps, AccountSteps, SeesAll
<1>5. RowsAtRest'
  <2>1. pending' \in SUBSET TenantIds /\ \A v \in pending' : ~Protected(v)
    BY DEF PurgeInv, PurgeType, PurgeRowsType, RowsAtRest, PlatformStays
  <2> QED BY <1>1, <1>2, <1>3, <1>4, <2>1, RestKept DEF PurgeInv, PurgeType
<1>6. PurgesSeeAll'
  BY <1>1, <1>2, <1>4, RowsMove DEF PurgeInv
<1> QED BY <1>3, <1>5, <1>6

\* The put of work is in the rows of a tenant, and of no person.
LEMMA PutWorkStep ==
    ASSUME PurgeInv, NEW s \in Slots, PutWork(s)
    PROVE  PurgeInv'
<1>1. req[s].at = "work.put" /\ req[s].t \in TenantIds
  BY PurgeHandlersKnow DEF PutWork, At, PurgeInv, PurgeType
<1>2. PICK t \in TenantIds : t = req[s].t
  BY <1>1
<1>3. /\ work' = work \cup {t} /\ Return(s)
      /\ UNCHANGED <<slugVars, llmVars, members, profiles, logins, pending>>
      /\ UNCHANGED <<metas, configs>>
      /\ torn \subseteq torn'
      /\ t \notin torn' => t \in Known /\ ~Purging(t)
  BY <1>2 DEF PutWork, Tear, slugVars, llmVars
<1>4. \A v \in TenantIds \ {t} : Stored(v)' = Stored(v)
  BY <1>3 DEF Stored, Known
<1>5. PurgeRowsType'
  BY <1>3 DEF PurgeInv, PurgeType, PurgeRowsType
<1>6. PurgeType' /\ RowsAtRest' /\ PurgesSeeAll'
  BY <1>1, <1>3, <1>4, <1>5, FileRow
<1>7. Become(s, Idle) /\ Idle \in PurgeHandlers /\ Idle.at = "idle" /\ Idle.at \notin PurgeSteps
  BY <1>3, IdleMoves DEF PurgeHandlers, Idle, PurgeSteps
<1>8. ASSUME NEW u \in Users, u \notin torn'
      PROVE  PersonInOrder(u)'
  <2>1. PersonInOrder(u)
    BY <1>3, <1>8 DEF PurgeInv, PeopleInOrder
  <2>2. /\ ~Joins(req[s], u) /\ ~DropsProfile(req[s], u) /\ ~DropsLogin(req[s], u)
        /\ ~Joins(Idle, u) /\ ~Lists(Idle, u) /\ Finds(Idle, u)
    BY <1>1, <1>7, Harmless
  <2> QED BY <1>3, <1>7, <2>1, <2>2, PersonMoves DEF PurgeInv
<1> QED BY <1>6, <1>8 DEF PurgeInv, PeopleInOrder

\* Who has joined is a member of one firm, with the profile and the account
\* that no purge is about to take.
LEMMA PutMemberStep ==
    ASSUME PurgeInv, NEW s \in Slots, PutMember(s)
    PROVE  PurgeInv'
<1>1. req[s].at = "join.member" /\ req[s].t \in TenantIds /\ req[s].u \in Users
  BY PurgeHandlersKnow DEF PutMember, At, PurgeInv, PurgeType
<1>2. PICK t \in TenantIds, p \in Users : t = req[s].t /\ p = req[s].u
  BY <1>1
<1>3. /\ members' = [members EXCEPT ![t] = @ \cup {p}] /\ Return(s)
      /\ UNCHANGED <<slugVars, llmVars, profiles, logins, work, pending>>
      /\ UNCHANGED <<metas, configs>>
      /\ torn \subseteq torn'
      /\ t \notin torn' \/ p \notin torn' =>
            /\ t \in Known /\ ~Purging(t) /\ ~Leaving(p)
            /\ \A v \in TenantIds \ {t} : p \notin members[v]
  BY <1>2 DEF PutMember, Tear, slugVars, llmVars
<1>4. members \in [TenantIds -> SUBSET Users]
  BY DEF PurgeInv, PurgeType, PurgeRowsType
<1>5. /\ members'[t] = members[t] \cup {p}
      /\ \A v \in TenantIds \ {t} : members'[v] = members[v]
  BY <1>3, <1>4
<1>6. \A v \in TenantIds \ {t} : Stored(v)' = Stored(v)
  BY <1>3, <1>5 DEF Stored, Known
<1>7. PurgeRowsType'
  BY <1>3, <1>4 DEF PurgeInv, PurgeType, PurgeRowsType
<1>8. PurgeType' /\ RowsAtRest' /\ PurgesSeeAll'
  BY <1>1, <1>3, <1>6, <1>7, FileRow
<1>9. Become(s, Idle) /\ Idle \in PurgeHandlers /\ Idle.at = "idle" /\ Idle.at \notin PurgeSteps
  BY <1>3, IdleMoves DEF PurgeHandlers, Idle, PurgeSteps
<1>10. ASSUME NEW u \in Users, u \notin torn', u # p
       PROVE  PersonInOrder(u)'
  <2>1. PersonInOrder(u)
    BY <1>3, <1>10 DEF PurgeInv, PeopleInOrder
  <2>2. ~Joins(Idle, u) /\ ~Lists(Idle, u) /\ Finds(Idle, u)
    BY <1>9, Harmless
  <2>3. ~Joins(req[s], u) /\ ~DropsProfile(req[s], u) /\ ~DropsLogin(req[s], u)
    BY <1>1, <1>2, <1>10 DEF Joins, DropsProfile, DropsLogin, AccountSteps
  <2>4. \A v \in TenantIds : u \in members'[v] <=> u \in members[v]
    BY <1>5, <1>10
  <2> QED BY <1>3, <1>9, <2>1, <2>2, <2>3, <2>4, PersonMoves DEF PurgeInv
<1>11. ASSUME p \notin torn'
       PROVE  PersonInOrder(p)'
  <2>1. /\ p \in profiles /\ p \in logins /\ ~Member(p)
        /\ \A x \in Slots : ~Lists(req[x], p) /\ Finds(req[x], p)
        /\ \A x \in Slots \ {s} : ~Joins(req[x], p)
    BY <1>1, <1>2, <1>3, <1>11
       DEF PurgeInv, PeopleInOrder, PersonInOrder, OneJoin, Joins
  <2>2. req'[s] = Idle /\ \A z \in Slots \ {s} : req'[z] = req[z]
    BY <1>9, PurgeMoves DEF PurgeInv, PurgeType
  <2>3. \A z \in Slots : ~Joins(req'[z], p)
    BY <1>9, <2>1, <2>2, Harmless
  <2>4. \A v \in TenantIds : p \in members'[v] <=> v = t
    BY <1>5, <2>1 DEF Member
  <2>5. OnePerson(p)'
    BY <1>3, <2>1, <2>4 DEF OnePerson, Member
  <2>6. OneJoin(p)'
    BY <2>3 DEF OneJoin, Joins
  <2>7. ASSUME NEW z \in Slots
        PROVE  Finds(req[z], p)'
    <3> PICK h \in PurgeHandlers : h = req'[z]
      BY <1>8 DEF PurgeType
    <3>1. CASE z = s
      BY <1>9, <2>2, <3>1 DEF Finds
    <3>2. CASE z # s
      <4>1. h = req[z] /\ (h.at \in PurgeSteps => h.t # t /\ ~Lists(h, p))
        BY <1>3, <1>11, <2>1, <2>2, <3>2 DEF Purging
      <4>2. h.at \in PurgeSteps => p \notin members'[h.t] /\ p \notin h.users \cup h.emails
        <5>1. h.at \in PurgeSteps => h.t \in TenantIds
          BY <4>1, PurgeHandlersKnow DEF PurgeInv, PurgeType
        <5> QED BY <2>4, <4>1, <5>1 DEF Lists
      <4>3. Finds(h, p)'
        BY <4>2 DEF Finds
      <4> QED BY <4>3 DEF Finds
    <3> QED BY <3>1, <3>2
  <2> QED BY <2>5, <2>6, <2>7 DEF PersonInOrder
<1> QED BY <1>8, <1>10, <1>11 DEF PurgeInv, PeopleInOrder

\* A person that a purge has listed, when its profile or its account goes: it
\* is no member, and nobody joins it.
LEMMA PersonDropped ==
    ASSUME PurgeType, NEW s \in Slots, NEW r \in PurgeHandlers, Become(s, r),
           NEW u \in Users, PersonInOrder(u), Lists(req[s], u), ~Joins(r, u),
           UNCHANGED members,
           Member(u) => u \in profiles' /\ u \in logins',
           u \in profiles' =>
                Member(u) \/ (u \in profiles /\ (DropsProfile(req[s], u) => DropsProfile(r, u))),
           u \in logins' =>
                Member(u) \/ (u \in logins /\ (DropsLogin(req[s], u) => DropsLogin(r, u))),
           Finds(r, u), r.at \in PurgeSteps => r.t \in TenantIds
    PROVE  PersonInOrder(u)'
<1>1. req'[s] = r /\ \A z \in Slots \ {s} : req'[z] = req[z]
  BY PurgeMoves DEF PurgeType
<1>2. \A z \in Slots : ~Joins(req[z], u)
  BY DEF PersonInOrder, OneJoin
<1>3. \A z \in Slots : ~Joins(req'[z], u)
  BY <1>1, <1>2
<1>4. Member(u)' <=> Member(u)
  BY DEF Member
<1>5. OnePerson(u)'
  <2>1. \A t, v \in TenantIds : u \in members'[t] /\ u \in members'[v] => t = v
    BY DEF PersonInOrder, OnePerson
  <2>2. u \in profiles' => Member(u)' \/ \E z \in Slots : DropsProfile(req'[z], u)
    <3>1. CASE Member(u)
      BY <1>4, <3>1
    <3>2. CASE u \in profiles' /\ ~Member(u)
      <4>1. PICK z \in Slots : DropsProfile(req[z], u)
        BY <1>2, <3>2 DEF PersonInOrder, OnePerson
      <4>2. DropsProfile(req'[z], u)
        BY <1>1, <3>2, <4>1
      <4> QED BY <4>2
    <3> QED BY <3>1, <3>2
  <2>3. u \in logins' => Member(u)' \/ \E z \in Slots : DropsLogin(req'[z], u)
    <3>1. CASE Member(u)
      BY <1>4, <3>1
    <3>2. CASE u \in logins' /\ ~Member(u)
      <4>1. PICK z \in Slots : DropsLogin(req[z], u)
        BY <1>2, <3>2 DEF PersonInOrder, OnePerson
      <4>2. DropsLogin(req'[z], u)
        BY <1>1, <3>2, <4>1
      <4> QED BY <4>2
    <3> QED BY <3>1, <3>2
  <2> QED BY <1>4, <2>1, <2>2, <2>3 DEF OnePerson, Joins, DropsProfile, DropsLogin
<1>6. OneJoin(u)'
  BY <1>3 DEF OneJoin, Joins
<1>7. ASSUME NEW z \in Slots
      PROVE  Finds(req[z], u)'
  <2> PICK q \in PurgeHandlers : q = req'[z]
    BY PurgeMoves DEF PurgeType
  <2>1. Finds(q, u)
    BY <1>1 DEF PersonInOrder
  <2>2. Finds(q, u)'
    BY <2>1 DEF Finds
  <2> QED BY <2>2 DEF Finds
<1> QED BY <1>5, <1>6, <1>7 DEF PersonInOrder

\* A purge that has found no rows, or deleted them all, turns to the people.
LEMMA RowsDoneStep ==
    ASSUME PurgeInv, NEW s \in Slots, DeleteRow(s), req[s].rows = {}
    PROVE  PurgeInv'
<1> DEFINE r == [req[s] EXCEPT !.at = "purge.people"]
<1>1. /\ req[s].at = "purge.rows" /\ Become(s, r) /\ torn' = torn /\ pending' = pending
      /\ UNCHANGED <<slugVars, llmVars, members, profiles, logins, work>>
  BY DEF DeleteRow, At, Goto, Become, slugVars, llmVars
<1>2. req[s] \in [at : {"purge.rows", "purge.people", "purge.accounts"}, t : TenantIds,
                  emails : SUBSET Users, users : SUBSET Users, rows : SUBSET PurgedRows]
  BY <1>1, PurgeHandlersKnow DEF PurgeInv, PurgeType
<1>3. /\ r \in [at : {"purge.rows", "purge.people", "purge.accounts"}, t : TenantIds,
                emails : SUBSET Users, users : SUBSET Users, rows : SUBSET PurgedRows]
      /\ r.at = "purge.people" /\ r.t = req[s].t /\ r.users = req[s].users
      /\ r.emails = req[s].emails
  BY <1>2
<1> HIDE DEF r
<1>4. PICK q \in PurgeHandlers : q = r
  BY <1>3 DEF PurgeHandlers
<1>5. q.at \in PurgeSteps /\ q.at \in AccountSteps /\ q.at # "purge.rows" /\ req[s].at \in PurgeSteps
  BY <1>1, <1>3, <1>4 DEF PurgeSteps, AccountSteps
<1>6. q.t \notin torn => Stored(q.t) = {}
  BY <1>1, <1>3, <1>4 DEF PurgeInv, PurgesSeeAll, SeesAll
<1>7. Stored(q.t)' = Stored(q.t)
  BY <1>1 DEF Stored, Known, slugVars, llmVars
<1>8. SeesAll(q)'
  BY <1>1, <1>5, <1>6, <1>7 DEF SeesAll
<1>9. pending \in SUBSET TenantIds /\ (\A v \in pending : ~Protected(v)) /\ ~Protected(q.t)
  BY <1>3, <1>4, <1>5 DEF PurgeInv, PurgeType, PurgeRowsType, RowsAtRest, PlatformStays
<1>10. ASSUME NEW u \in Users \ torn'
       PROVE  /\ Joins(q, u) <=> Joins(req[s], u)
              /\ Lists(q, u) => Lists(req[s], u)
              /\ DropsProfile(req[s], u) => DropsProfile(q, u)
              /\ DropsLogin(req[s], u) => DropsLogin(q, u)
              /\ Finds(q, u)
  <2>1. Finds(req[s], u)
    BY <1>1 DEF PurgeInv, PeopleInOrder, PersonInOrder
  <2>2. Finds(q, u)
    BY <1>1, <1>3, <1>4, <1>5, <2>1 DEF Finds
  <2>3. Joins(q, u) <=> Joins(req[s], u)
    BY <1>1, <1>3, <1>4 DEF Joins
  <2> QED BY <1>1, <1>3, <1>4, <1>5, <2>2, <2>3 DEF Lists, DropsProfile, DropsLogin
<1> QED BY <1>1, <1>3, <1>4, <1>6, <1>8, <1>9, <1>10, QuietPurgeStep

\* A purge has dropped all profiles of those it has listed.
LEMMA PeopleDoneStep ==
    ASSUME PurgeInv, NEW s \in Slots, DeletePerson(s), req[s].users = {}
    PROVE  PurgeInv'
<1> DEFINE r == [req[s] EXCEPT !.at = "purge.accounts"]
<1>1. /\ req[s].at = "purge.people" /\ Become(s, r) /\ torn' = torn /\ pending' = pending
      /\ UNCHANGED <<slugVars, llmVars, members, profiles, logins, work>>
  BY DEF DeletePerson, At, Goto, Become
<1>2. req[s] \in [at : {"purge.rows", "purge.people", "purge.accounts"}, t : TenantIds,
                  emails : SUBSET Users, users : SUBSET Users, rows : SUBSET PurgedRows]
  BY <1>1, PurgeHandlersKnow DEF PurgeInv, PurgeType
<1>3. /\ r \in [at : {"purge.rows", "purge.people", "purge.accounts"}, t : TenantIds,
                emails : SUBSET Users, users : SUBSET Users, rows : SUBSET PurgedRows]
      /\ r.at = "purge.accounts" /\ r.t = req[s].t /\ r.users = req[s].users
      /\ r.emails = req[s].emails
  BY <1>2
<1> HIDE DEF r
<1>4. PICK q \in PurgeHandlers : q = r
  BY <1>3 DEF PurgeHandlers
<1>5. /\ q.at \in PurgeSteps /\ q.at \in AccountSteps /\ q.at # "purge.rows"
      /\ req[s].at \in PurgeSteps /\ req[s].at \in AccountSteps
  BY <1>1, <1>3, <1>4 DEF PurgeSteps, AccountSteps
<1>6. q.t \notin torn => Stored(q.t) = {}
  BY <1>3, <1>4, <1>5 DEF PurgeInv, PurgesSeeAll, SeesAll
<1>7. Stored(q.t)' = Stored(q.t)
  BY <1>1 DEF Stored, Known, slugVars, llmVars
<1>8. SeesAll(q)'
  BY <1>1, <1>5, <1>6, <1>7 DEF SeesAll
<1>9. pending \in SUBSET TenantIds /\ (\A v \in pending : ~Protected(v)) /\ ~Protected(q.t)
  BY <1>3, <1>4, <1>5 DEF PurgeInv, PurgeType, PurgeRowsType, RowsAtRest, PlatformStays
<1>10. ASSUME NEW u \in Users \ torn'
       PROVE  /\ Joins(q, u) <=> Joins(req[s], u)
              /\ Lists(q, u) => Lists(req[s], u)
              /\ DropsProfile(req[s], u) => DropsProfile(q, u)
              /\ DropsLogin(req[s], u) => DropsLogin(q, u)
              /\ Finds(q, u)
  <2>1. Finds(req[s], u)
    BY <1>1 DEF PurgeInv, PeopleInOrder, PersonInOrder
  <2>2. Finds(q, u)
    BY <1>1, <1>3, <1>4, <1>5, <2>1 DEF Finds
  <2>3. Joins(q, u) <=> Joins(req[s], u)
    BY <1>1, <1>3, <1>4 DEF Joins
  <2> QED BY <1>1, <1>3, <1>4, <1>5, <2>2, <2>3 DEF Lists, DropsProfile, DropsLogin
<1> QED BY <1>1, <1>3, <1>4, <1>8, <1>9, <1>10, QuietPurgeStep

\* A purge has deleted the accounts of all members it has listed first.
LEMMA AccountsDoneStep ==
    ASSUME PurgeInv, NEW s \in Slots, DeleteAccount(s), req[s].emails = {}
    PROVE  PurgeInv'
<1>1. /\ req[s].at = "purge.accounts" /\ Return(s) /\ torn' = torn /\ pending' = pending
      /\ UNCHANGED <<slugVars, llmVars, members, profiles, logins, work>>
  BY DEF DeleteAccount, At
<1>2. Become(s, Idle) /\ Idle \in PurgeHandlers /\ Idle.at = "idle" /\ Idle.at \notin PurgeSteps
  BY <1>1, IdleMoves DEF PurgeHandlers, Idle, PurgeSteps
<1>3. SeesAll(Idle)'
  BY <1>2 DEF SeesAll, AccountSteps
<1>4. pending \in SUBSET TenantIds /\ \A v \in pending : ~Protected(v)
  BY DEF PurgeInv, PurgeType, PurgeRowsType, RowsAtRest, PlatformStays
<1>5. ASSUME NEW u \in Users \ torn'
      PROVE  /\ ~Joins(Idle, u) /\ ~Joins(req[s], u) /\ ~Lists(Idle, u) /\ Finds(Idle, u)
             /\ ~DropsProfile(req[s], u) /\ ~DropsLogin(req[s], u)
  BY <1>1, <1>2, Harmless DEF Joins, DropsProfile, DropsLogin
<1> QED BY <1>1, <1>2, <1>3, <1>4, <1>5, QuietPurgeStep

\* The profile of one who was a member of the purged tenant goes: nobody joins
\* it, and a member elsewhere keeps it.
LEMMA DeletePersonStep ==
    ASSUME PurgeInv, NEW s \in Slots, DeletePerson(s), req[s].users # {}
    PROVE  PurgeInv'
<1>1. req[s].at = "purge.people"
  BY DEF DeletePerson, At
<1>2. req[s] \in [at : {"purge.rows", "purge.people", "purge.accounts"}, t : TenantIds,
                  emails : SUBSET Users, users : SUBSET Users, rows : SUBSET PurgedRows]
  BY <1>1, PurgeHandlersKnow DEF PurgeInv, PurgeType
<1>3. PICK p \in req[s].users, lags \in BOOLEAN :
        /\ profiles' = IF (\A v \in TenantIds : p \notin members[v]) /\ ~lags
                       THEN profiles \ {p} ELSE profiles
        /\ Tear({p}, (\A v \in TenantIds : p \notin members[v]) /\ lags)
        /\ Become(s, [req[s] EXCEPT !.users = @ \ {p}])
  BY DEF DeletePerson
<1>4. /\ UNCHANGED <<slugVars, llmVars, members, work, logins>>
      /\ torn \subseteq torn' /\ pending' = pending
      /\ p \notin torn' /\ (\A v \in TenantIds : p \notin members[v]) => ~lags
  BY <1>3 DEF DeletePerson, Tear
<1> DEFINE r == [req[s] EXCEPT !.users = @ \ {p}]
<1>5. /\ r \in [at : {"purge.rows", "purge.people", "purge.accounts"}, t : TenantIds,
                emails : SUBSET Users, users : SUBSET Users, rows : SUBSET PurgedRows]
      /\ r.at = "purge.people" /\ r.t = req[s].t /\ r.users = req[s].users \ {p}
      /\ r.emails = req[s].emails /\ Become(s, r)
  BY <1>1, <1>2, <1>3
<1> HIDE DEF r
<1>6. PICK q \in PurgeHandlers : q = r
  BY <1>5 DEF PurgeHandlers
<1>7. /\ q.at = "purge.people" /\ q.t = req[s].t /\ q.users = req[s].users \ {p}
      /\ q.emails = req[s].emails /\ Become(s, q) /\ q.t \in TenantIds
      /\ q.at \in PurgeSteps /\ q.at \in AccountSteps
  BY <1>2, <1>5, <1>6 DEF PurgeSteps, AccountSteps
<1>8. PurgeType' /\ RowsAtRest' /\ PurgesSeeAll'
  <2>1. q.t \notin torn => Stored(q.t) = {}
    BY <1>1, <1>7 DEF PurgeInv, PurgesSeeAll, SeesAll
  <2>2. Stored(q.t)' = Stored(q.t)
    BY <1>4 DEF Stored, Known, slugVars, llmVars
  <2>3. SeesAll(q)'
    BY <1>4, <1>7, <2>1, <2>2 DEF SeesAll
  <2>4. /\ pending \in SUBSET TenantIds /\ (\A v \in pending : ~Protected(v))
        /\ ~Protected(q.t)
    BY <1>1, <1>7 DEF PurgeInv, PurgeType, PurgeRowsType, RowsAtRest, PlatformStays
  <2>5. profiles' \in SUBSET Users /\ logins' \in SUBSET Users
    BY <1>3, <1>4 DEF PurgeInv, PurgeType, PurgeRowsType
  <2> QED BY <1>1, <1>4, <1>7, <2>3, <2>4, <2>5, RowsStay
<1>9. ASSUME NEW u \in Users, u \notin torn'
      PROVE  PersonInOrder(u)'
  <2>1. PersonInOrder(u)
    BY <1>4, <1>9 DEF PurgeInv, PeopleInOrder
  <2>2. Finds(q, u) /\ ~Joins(q, u) /\ ~Joins(req[s], u)
    BY <1>1, <1>7, <2>1 DEF PersonInOrder, Finds, Joins
  <2>3. CASE u = p
    <3>1. Lists(req[s], u)
      BY <1>3, <1>1, <1>7, <2>3 DEF Lists
    <3>2. /\ Member(u) => u \in profiles' /\ u \in logins'
          /\ u \in profiles' => Member(u)
      <4>1. CASE Member(u)
        BY <1>3, <1>4, <2>1, <2>3, <4>1 DEF PersonInOrder, OnePerson, Member
      <4>2. CASE \A v \in TenantIds : p \notin members[v]
        <5>1. profiles' = profiles \ {p}
          BY <1>3, <1>4, <1>9, <2>3, <4>2
        <5> QED BY <2>3, <4>2, <5>1 DEF Member
      <4> QED BY <2>3, <4>1, <4>2 DEF Member
    <3>3. u \in logins' => u \in logins
      BY <1>4
    <3>4. DropsLogin(req[s], u) => DropsLogin(q, u)
      BY <1>1, <1>7 DEF DropsLogin
    <3> QED BY <1>4, <1>7, <2>1, <2>2, <3>1, <3>2, <3>3, <3>4, PersonDropped DEF PurgeInv
  <2>4. CASE u # p
    <3>1. u \in profiles' <=> u \in profiles
      BY <1>3, <2>4
    <3>2. /\ Lists(q, u) => Lists(req[s], u)
          /\ DropsProfile(req[s], u) => DropsProfile(q, u)
          /\ DropsLogin(req[s], u) => DropsLogin(q, u)
      BY <1>1, <1>7, <2>4 DEF Lists, DropsProfile, DropsLogin
    <3> QED BY <1>4, <1>7, <2>1, <2>2, <3>1, <3>2, PersonMoves DEF PurgeInv
  <2> QED BY <2>3, <2>4
<1> QED BY <1>8, <1>9 DEF PurgeInv, PeopleInOrder

\* The account of one who was listed first goes: it is nobody's member.
LEMMA DeleteAccountStep ==
    ASSUME PurgeInv, NEW s \in Slots, DeleteAccount(s), req[s].emails # {}
    PROVE  PurgeInv'
<1>1. req[s].at = "purge.accounts"
  BY DEF DeleteAccount, At
<1>2. req[s] \in [at : {"purge.rows", "purge.people", "purge.accounts"}, t : TenantIds,
                  emails : SUBSET Users, users : SUBSET Users, rows : SUBSET PurgedRows]
  BY <1>1, PurgeHandlersKnow DEF PurgeInv, PurgeType
<1>3. PICK p \in req[s].emails :
        logins' = logins \ {p} /\ Become(s, [req[s] EXCEPT !.emails = @ \ {p}])
  BY DEF DeleteAccount
<1>4. /\ UNCHANGED <<slugVars, llmVars, members, work, profiles>>
      /\ torn' = torn /\ pending' = pending
  BY DEF DeleteAccount
<1> DEFINE r == [req[s] EXCEPT !.emails = @ \ {p}]
<1>5. /\ r \in [at : {"purge.rows", "purge.people", "purge.accounts"}, t : TenantIds,
                emails : SUBSET Users, users : SUBSET Users, rows : SUBSET PurgedRows]
      /\ r.at = "purge.accounts" /\ r.t = req[s].t /\ r.users = req[s].users
      /\ r.emails = req[s].emails \ {p} /\ Become(s, r)
  BY <1>1, <1>2, <1>3
<1> HIDE DEF r
<1>6. PICK q \in PurgeHandlers : q = r
  BY <1>5 DEF PurgeHandlers
<1>7. /\ q.at = "purge.accounts" /\ q.t = req[s].t /\ q.users = req[s].users
      /\ q.emails = req[s].emails \ {p} /\ Become(s, q) /\ q.t \in TenantIds
      /\ q.at \in PurgeSteps /\ q.at \in AccountSteps
      /\ req[s].at \in PurgeSteps /\ req[s].at \in AccountSteps
  BY <1>1, <1>2, <1>5, <1>6 DEF PurgeSteps, AccountSteps
<1>8. PurgeType' /\ RowsAtRest' /\ PurgesSeeAll'
  <2>1. q.t \notin torn => Stored(q.t) = {}
    BY <1>7 DEF PurgeInv, PurgesSeeAll, SeesAll
  <2>2. Stored(q.t)' = Stored(q.t)
    BY <1>4 DEF Stored, Known, slugVars, llmVars
  <2>3. SeesAll(q)'
    BY <1>4, <1>7, <2>1, <2>2 DEF SeesAll
  <2>4. /\ pending \in SUBSET TenantIds /\ (\A v \in pending : ~Protected(v))
        /\ ~Protected(q.t)
    BY <1>7 DEF PurgeInv, PurgeType, PurgeRowsType, RowsAtRest, PlatformStays
  <2>5. profiles' \in SUBSET Users /\ logins' \in SUBSET Users
    BY <1>3, <1>4 DEF PurgeInv, PurgeType, PurgeRowsType
  <2> QED BY <1>1, <1>4, <1>7, <2>3, <2>4, <2>5, RowsStay
<1>9. ASSUME NEW u \in Users, u \notin torn'
      PROVE  PersonInOrder(u)'
  <2>1. PersonInOrder(u)
    BY <1>4, <1>9 DEF PurgeInv, PeopleInOrder
  <2>2. Finds(q, u) /\ ~Joins(q, u) /\ ~Joins(req[s], u) /\ ~DropsProfile(req[s], u)
    BY <1>1, <1>7, <2>1 DEF PersonInOrder, Finds, Joins, DropsProfile
  <2>3. CASE u = p
    <3>1. Lists(req[s], u) /\ u \notin logins'
      BY <1>3, <1>7, <2>3 DEF Lists
    <3>2. ~Member(u)
      BY <1>2, <1>3, <1>7, <2>1, <2>3 DEF PersonInOrder, Finds, Member
    <3>3. u \in profiles' => u \in profiles
      BY <1>4
    <3> QED BY <1>4, <1>7, <2>1, <2>2, <3>1, <3>2, <3>3, PersonDropped DEF PurgeInv
  <2>4. CASE u # p
    <3>1. u \in logins' <=> u \in logins
      BY <1>3, <2>4
    <3>2. /\ Lists(q, u) => Lists(req[s], u)
          /\ DropsLogin(req[s], u) => DropsLogin(q, u)
      BY <1>1, <1>7, <2>4 DEF Lists, DropsLogin
    <3> QED BY <1>4, <1>7, <2>1, <2>2, <3>1, <3>2, PersonMoves DEF PurgeInv
  <2> QED BY <2>3, <2>4
<1> QED BY <1>8, <1>9 DEF PurgeInv, PeopleInOrder

\* A row goes: whoever was a member by it is about to lose its profile and its
\* account, and all other rows stay on the list.
LEMMA DeleteRowStep ==
    ASSUME PurgeInv, NEW s \in Slots, DeleteRow(s), req[s].rows # {}
    PROVE  PurgeInv'
<1>1. req[s].at = "purge.rows"
  BY DEF DeleteRow, At
<1>2. req[s] \in [at : {"purge.rows", "purge.people", "purge.accounts"}, t : TenantIds,
                  emails : SUBSET Users, users : SUBSET Users, rows : SUBSET PurgedRows]
  BY <1>1, PurgeHandlersKnow DEF PurgeInv, PurgeType
<1>3. PICK t \in TenantIds : t = req[s].t
  BY <1>2
<1>4. PICK x \in req[s].rows :
        /\ metas' = IF x = "meta" THEN [metas EXCEPT ![t] = None] ELSE metas
        /\ configs' = IF x = "config" THEN [configs EXCEPT ![t] = None] ELSE configs
        /\ work' = IF x = "work" THEN work \ {t} ELSE work
        /\ members' = [members EXCEPT ![t] = @ \ {x}]
        /\ Become(s, [req[s] EXCEPT !.rows = @ \ {x}])
  BY <1>3 DEF DeleteRow
<1>5. UNCHANGED <<slugs, made, baseline, published, profiles, logins, pending, torn>>
  BY DEF DeleteRow
<1> DEFINE r == [req[s] EXCEPT !.rows = @ \ {x}]
<1>6. /\ r \in [at : {"purge.rows", "purge.people", "purge.accounts"}, t : TenantIds,
                emails : SUBSET Users, users : SUBSET Users, rows : SUBSET PurgedRows]
      /\ r.at = "purge.rows" /\ r.t = t /\ r.users = req[s].users
      /\ r.emails = req[s].emails /\ r.rows = req[s].rows \ {x} /\ Become(s, r)
  BY <1>1, <1>2, <1>3, <1>4
<1> HIDE DEF r
<1>7. PICK q \in PurgeHandlers : q = r
  BY <1>6 DEF PurgeHandlers
<1>8. /\ q.at = "purge.rows" /\ q.t = t /\ q.users = req[s].users
      /\ q.emails = req[s].emails /\ q.rows = req[s].rows \ {x} /\ Become(s, q)
      /\ q.at \in PurgeSteps /\ q.at \notin AccountSteps /\ req[s].at \in PurgeSteps
  BY <1>1, <1>6, <1>7 DEF PurgeSteps, AccountSteps
<1>9. PurgeType /\ RowsAtRest /\ TenantRowsType /\ PurgeRowsType
  BY DEF PurgeInv, PurgeType
<1>10. /\ \A v \in TenantIds : metas'[v] = metas[v] \/ (v = t /\ x = "meta" /\ metas'[v] = None)
       /\ \A v \in TenantIds : configs'[v] = configs[v] \/ (v = t /\ configs'[v] = None)
       /\ \A v \in TenantIds : v \in work' <=> v \in work /\ ~(v = t /\ x = "work")
       /\ \A v \in TenantIds : members'[v] = IF v = t THEN members[v] \ {x} ELSE members[v]
       /\ x = "meta" => metas'[t] = None
       /\ x = "config" => configs'[t] = None
  BY <1>4, <1>9 DEF TenantRowsType, PurgeRowsType
<1>11. TenantRowsType' /\ PurgeRowsType'
  <2>1. metas' \in [TenantIds -> MetaRows \cup {None}]
    BY <1>4, <1>9 DEF TenantRowsType
  <2>2. configs' \in [TenantIds -> ConfigRows \cup {None}]
    BY <1>4, <1>9 DEF TenantRowsType
  <2>3. members' \in [TenantIds -> SUBSET Users] /\ work' \in SUBSET TenantIds
    BY <1>4, <1>9 DEF PurgeRowsType
  <2> QED BY <1>5, <1>9, <2>1, <2>2, <2>3 DEF TenantRowsType, PurgeRowsType
<1>12. ~Protected(t)
  BY <1>3, <1>8, <1>9 DEF RowsAtRest, PlatformStays
<1>13. RowsAtRest' /\ Known' \subseteq Known
  <2>1. pending' \in SUBSET TenantIds /\ \A v \in pending' : ~Protected(v)
    BY <1>5, <1>9 DEF PurgeRowsType, RowsAtRest, PlatformStays
  <2>2. /\ \A v \in TenantIds : metas'[v] \in {metas[v], None}
        /\ \A v \in TenantIds : configs'[v] = configs[v] \/ (configs'[v] = None /\ ~Protected(v))
    BY <1>10, <1>12
  <2> QED BY <1>5, <1>8, <1>9, <1>11, <1>12, <2>1, <2>2, RestKept
<1>14. PurgeType'
  BY <1>5, <1>8, <1>9, <1>11, <1>13, PurgeMoves DEF PurgeType
<1>15. /\ \A v \in TenantIds \ {t} : Stored(v)' = Stored(v)
       /\ Stored(t)' \subseteq Stored(t) \ {x}
  <2>1. \A v \in TenantIds : v \in Known' <=> v \in Known /\ ~(v = t /\ x = "meta")
    BY <1>10 DEF Known
  <2>2. ASSUME NEW v \in TenantIds \ {t}
        PROVE  Stored(v)' = Stored(v)
    <3>1. /\ v \in Known' <=> v \in Known
          /\ configs'[v] = configs[v]
          /\ v \in work' <=> v \in work
          /\ members'[v] = members[v]
      BY <1>10, <2>1
    <3> QED BY <3>1 DEF Stored
  <2>3. Stored(t)' \subseteq Stored(t) \ {x}
    <3>1. /\ t \in Known' => t \in Known /\ x # "meta"
          /\ configs'[t] # None => configs[t] # None /\ x # "config"
          /\ t \in work' => t \in work /\ x # "work"
          /\ members'[t] = members[t] \ {x}
      BY <1>10, <2>1
    <3>2. SUFFICES ASSUME NEW y \in Stored(t)' PROVE y \in Stored(t) /\ y # x
      OBVIOUS
    <3>3. CASE y \in members'[t]
      BY <3>1, <3>3 DEF Stored
    <3>4. CASE y = "meta" /\ t \in Known'
      BY <3>1, <3>4 DEF Stored
    <3>5. CASE y = "config" /\ configs'[t] # None
      BY <3>1, <3>5 DEF Stored
    <3>6. CASE y = "work" /\ t \in work'
      BY <3>1, <3>6 DEF Stored
    <3> QED BY <3>2, <3>3, <3>4, <3>5, <3>6 DEF Stored
  <2> QED BY <2>2, <2>3
<1>16. PurgesSeeAll'
  <2>1. t \notin torn => Stored(t) \subseteq req[s].rows
    BY <1>1, <1>3 DEF PurgeInv, PurgesSeeAll, SeesAll
  <2>2. t \notin torn' => Stored(t)' \subseteq q.rows
    BY <1>5, <1>8, <1>15, <2>1
  <2>3. SeesAll(q)'
    BY <1>8, <2>2 DEF SeesAll
  <2>4. \A v \in TenantIds : Stored(v)' \subseteq Stored(v)
    BY <1>15
  <2>5. \A v \in TenantIds : v \in Known /\ v \notin Known' => v = t
    BY <1>10 DEF Known
  <2> QED BY <1>3, <1>5, <1>8, <1>9, <2>3, <2>4, <2>5, RowsMove DEF PurgeInv
<1>17. ASSUME NEW u \in Users, u \notin torn', u \notin members[t] \/ u # x
       PROVE  PersonInOrder(u)'
  <2>1. PersonInOrder(u)
    BY <1>5, <1>17 DEF PurgeInv, PeopleInOrder
  <2>2. \A v \in TenantIds : u \in members'[v] <=> u \in members[v]
    BY <1>10, <1>17
  <2>3. Finds(q, u)
    BY <1>1, <1>3, <1>8, <1>17, <2>1 DEF PersonInOrder, Finds
  <2>4. /\ Joins(q, u) <=> Joins(req[s], u)
        /\ Lists(q, u) => Lists(req[s], u)
        /\ DropsProfile(req[s], u) => DropsProfile(q, u)
        /\ DropsLogin(req[s], u) => DropsLogin(q, u)
    BY <1>1, <1>8 DEF Joins, Lists, DropsProfile, DropsLogin
  <2> QED BY <1>5, <1>8, <1>9, <2>1, <2>2, <2>3, <2>4, PersonMoves
<1>18. ASSUME NEW u \in Users, u \notin torn', u \in members[t], u = x
       PROVE  PersonInOrder(u)'
  <2>1. PersonInOrder(u) /\ Member(u)
    BY <1>5, <1>18 DEF PurgeInv, PeopleInOrder, Member
  <2>2. req'[s] = q /\ \A z \in Slots \ {s} : req'[z] = req[z]
    BY <1>8, <1>9, PurgeMoves DEF PurgeType
  <2>3. \A v \in TenantIds : u \notin members'[v]
    BY <1>10, <1>18, <2>1 DEF PersonInOrder, OnePerson
  <2>4. \A z \in Slots : ~Joins(req'[z], u)
    BY <1>8, <2>1, <2>2 DEF PersonInOrder, OneJoin, Joins
  <2>5. DropsProfile(req'[s], u) /\ DropsLogin(req'[s], u)
    BY <1>1, <1>3, <1>8, <1>18, <2>1, <2>2
       DEF PersonInOrder, Finds, DropsProfile, DropsLogin
  <2>6. OnePerson(u)'
    BY <2>3, <2>5 DEF OnePerson, Member, DropsProfile, DropsLogin
  <2>7. OneJoin(u)'
    BY <2>4 DEF OneJoin, Joins
  <2>8. ASSUME NEW z \in Slots
        PROVE  Finds(req[z], u)'
    <3> PICK h \in PurgeHandlers : h = req'[z]
      BY <1>14 DEF PurgeType
    <3>1. h.at \in PurgeSteps => h.t \in TenantIds
      BY <1>9, <1>8, <2>2, PurgeHandlersKnow DEF PurgeType
    <3>2. Finds(h, u)'
      BY <2>3, <3>1 DEF Finds
    <3> QED BY <3>2 DEF Finds
  <2> QED BY <2>6, <2>7, <2>8 DEF PersonInOrder
<1>19. PeopleInOrder'
  BY <1>17, <1>18 DEF PeopleInOrder
<1> QED BY <1>13, <1>14, <1>16, <1>19 DEF PurgeInv

\* Before the first request nobody is purged.
LEMMA PurgeInvInit ==
    ASSUME RequestsInit, TenantsAtRest
    PROVE  PurgeInv
<1>1. Idle \in PurgeHandlers /\ Idle.at = "idle"
  BY DEF PurgeHandlers, Idle
<1>2. \A s \in Slots : req[s].at = "idle" /\ req[s].at \notin PurgeSteps
  BY <1>1 DEF RequestsInit, PurgeSteps
<1>3. PurgeType
  <2>1. req \in [Slots -> PurgeHandlers]
    BY <1>1 DEF RequestsInit
  <2> QED BY <2>1 DEF PurgeType, TenantsAtRest
<1>4. RowsAtRest
  BY <1>2 DEF RowsAtRest, TenantsAtRest, PlatformStays, Protected, NoPeople
<1>5. PurgesSeeAll
  <2>1. ASSUME NEW s \in Slots PROVE SeesAll(req[s])
    BY <1>2, Harmless
  <2>2. \A t \in TenantIds \ Known : Stored(t) = {}
    BY DEF TenantsAtRest, NoPeople, Stored
  <2> QED BY <2>1, <2>2 DEF PurgesSeeAll
<1>6. PeopleInOrder
  <2> SUFFICES ASSUME NEW u \in Users PROVE PersonInOrder(u)
    BY DEF PeopleInOrder
  <2>1. OnePerson(u)
    BY DEF TenantsAtRest, NoPeople, OnePerson, Member
  <2>2. OneJoin(u) /\ \A s \in Slots : Finds(req[s], u)
    BY <1>2, Harmless DEF OneJoin
  <2> QED BY <2>1, <2>2 DEF PersonInOrder
<1> QED BY <1>3, <1>4, <1>5, <1>6 DEF PurgeInv

\* No tenant is set up while people join and purges run.
LEMMA PurgeInvStep ==
    ASSUME PurgeInv, NEW s \in Slots,
           \/ \E t \in TenantIds : PurgeRequest(s, t)
           \/ TenantStep(s)
           \/ AbortTenantRequest(s)
    PROVE  PurgeInv'
<1>1. ASSUME NEW t \in TenantIds, PurgeRequest(s, t)
      PROVE  PurgeInv'
  BY <1>1, JoinTenantStep, PurgeCodeStep, ConfirmPurgeStep, StartWorkStep DEF PurgeRequest
<1>2. CASE TenantStep(s)
  <2>1. req[s].at \in PurgeSteps \cup {"idle", "join.member", "work.put"}
    BY PurgeHandlersKnow DEF PurgeInv, PurgeType
  <2>2. /\ ~PutTenant(s) /\ ~DeleteOldSlug(s) /\ ~PutMeta(s) /\ ~PutSlug(s)
        /\ ~ReadBaseline(s) /\ ~PutFirstBaseline(s) /\ ~PutBaseline(s) /\ ~PutConfig(s)
    BY <2>1 DEF PutTenant, DeleteOldSlug, PutMeta, PutSlug, ReadBaseline, PutFirstBaseline,
                PutBaseline, PutConfig, At, PurgeSteps
  <2>3. \/ PutMember(s) \/ PutWork(s) \/ ReadEmails(s) \/ ListUsers(s) \/ QueryTenant(s)
        \/ DeleteRow(s) \/ DeletePerson(s) \/ DeleteAccount(s)
    BY <1>2, <2>2 DEF TenantStep
  <2>4. CASE DeleteRow(s)
    BY <2>4, RowsDoneStep, DeleteRowStep
  <2>5. CASE DeletePerson(s)
    BY <2>5, PeopleDoneStep, DeletePersonStep
  <2>6. CASE DeleteAccount(s)
    BY <2>6, AccountsDoneStep, DeleteAccountStep
  <2> QED
    BY <2>3, <2>4, <2>5, <2>6, PutMemberStep, PutWorkStep, ReadEmailsStep, ListUsersStep,
       QueryTenantStep
<1> QED BY <1>1, <1>2, PurgeAbortStep

\* A step of another part leaves the people and the purges in order.
LEMMA PurgeInvStutter ==
    ASSUME PurgeInv, UNCHANGED <<req, tenantVars>>
    PROVE  PurgeInv'
<1>1. /\ UNCHANGED <<req, slugVars, llmVars, members, profiles, logins, work>>
      /\ pending' = pending /\ torn \subseteq torn'
  BY DEF tenantVars, purgeVars
<1>2. pending \in SUBSET TenantIds /\ \A t \in pending : ~Protected(t)
  BY DEF PurgeInv, PurgeType, PurgeRowsType, RowsAtRest, PlatformStays
<1> QED BY <1>1, <1>2, CodeStep

\* While people join and purges run, the properties hold.
LEMMA PurgeKeepsPromises ==
    ASSUME PurgeInv
    PROVE  SlugsLeadHome /\ CopiesFollowBaseline /\ PurgeIsComplete
<1>1. SlugsLeadHome
  BY DEF PurgeInv, RowsAtRest, SlugsAtRest, SlugsLeadHome
<1>2. CopiesMatchTheirVersion
  BY DEF PurgeInv, RowsAtRest, CopiesAtRest, Published, CopiesMatchTheirVersion
<1>3. PlatformHasNewest
  BY DEF PurgeInv, RowsAtRest, PlatformStays, Protected, IsPlatform, PlatformHasNewest
<1>4. ASSUME NEW t \in made \ (Known \cup torn), Quiet(t)
      PROVE  configs[t] = None /\ members[t] = {} /\ t \notin work
  <2>1. t \in TenantIds
    BY DEF PurgeInv, PurgeType, TenantRowsType
  <2>2. ASSUME NEW s \in Slots, req[s].at = "purge.rows"
        PROVE  req[s].t # t
    <3>1. req[s] \in [at : {"purge.rows", "purge.people", "purge.accounts"}, t : TenantIds,
                      emails : SUBSET Users, users : SUBSET Users, rows : SUBSET PurgedRows]
      BY <2>2, PurgeHandlersKnow DEF PurgeInv, PurgeType
    <3>2. "t" \in DOMAIN req[s]
      BY <3>1
    <3> QED BY <1>4, <3>2 DEF Quiet
  <2>3. Stored(t) = {}
    BY <2>1, <2>2 DEF PurgeInv, PurgesSeeAll
  <2> QED BY <2>3 DEF Stored
<1>5. ASSUME NEW u \in Users \ torn, \A s \in Slots : ~Busy(s)
      PROVE  (u \in profiles <=> Member(u)) /\ (u \in logins <=> Member(u))
  <2>1. \A s \in Slots : req[s].at = "idle"
    BY <1>5 DEF Busy, At
  <2>2. ASSUME NEW s \in Slots
        PROVE  ~Joins(req[s], u) /\ ~DropsProfile(req[s], u) /\ ~DropsLogin(req[s], u)
    BY <2>1, Harmless
  <2> QED BY <2>2 DEF PurgeInv, PeopleInOrder, PersonInOrder, OnePerson
<1>6. PurgeIsComplete
  BY <1>4, <1>5 DEF PurgeIsComplete, Member
<1> QED BY <1>1, <1>2, <1>3, <1>6 DEF CopiesFollowBaseline

\* Steps of other parts leave the tenants at rest.
LEMMA TenantsStayAtRest ==
    ASSUME TenantsAtRest, UNCHANGED tenantVars
    PROVE  TenantsAtRest'
<1> USE DEF tenantVars, slugVars, llmVars, purgeVars
<1>1. Known' = Known /\ \A t : IsPlatform(t)' <=> IsPlatform(t)
  BY DEF Known, IsPlatform
<1>2. TenantRowsType' /\ PurgeRowsType' /\ NoPeople' /\ torn' = {} /\ Known' \subseteq made'
  BY <1>1 DEF TenantsAtRest, TenantRowsType, PurgeRowsType, NoPeople
<1>3. /\ \A t, u \in Known' : t # u /\ metas'[t].slug # None => metas'[t].slug # metas'[u].slug
      /\ \A t \in Known' : metas'[t].slug = None => metas'[t].base # PlatformBase
  BY <1>1 DEF TenantsAtRest
<1>4. SlugsAtRest' /\ \A x \in Slugs : slugs'[x] # None => slugs'[x] \in Known'
  BY <1>1 DEF TenantsAtRest, SlugsAtRest
<1>5. CopiesAtRest' /\ BaselineIsPublished'
  BY DEF TenantsAtRest, CopiesAtRest, Published, BaselineIsPublished
<1>6. /\ \A t \in TenantIds \ Known' : configs'[t] = None
      /\ \A t \in Known' : IsPlatform(t)' => /\ configs'[t] # None /\ baseline' # None
                                             /\ configs'[t].version = baseline'.version
  BY <1>1 DEF TenantsAtRest
<1> QED BY <1>2, <1>3, <1>4, <1>5, <1>6 DEF TenantsAtRest
=============================================================================
