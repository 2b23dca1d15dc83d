---------------------------- MODULE GuardRails ----------------------------
(***************************************************************************)
(* services/guardrails.py: the guard rail scopes and their version.        *)
(*                                                                         *)
(* A scope row holds the field and topic rules of the whole platform, of a *)
(* state, a county or a jurisdiction; one VERSION row holds a hash of all  *)
(* scopes.  Every write of a scope is followed by refresh_guardrails_      *)
(* version_meta, which lists the scopes and puts the hash of the list.     *)
(* The list is an eventually consistent query: it may show a scope as it   *)
(* was before the handler wrote it.                                        *)
(*                                                                         *)
(* Data: the content of a scope is a model value and a hash is the content *)
(* that it is the hash of.  What the rules mean is in GuardRailRules.      *)
(***************************************************************************)
EXTENDS Requests, Naturals, Sequences

CONSTANTS
    ScopeKeys,   \* "_default", "state:TX", "county:48453", ...
    Rails,       \* contents of a scope
    SeedScopes   \* the seed files of the repository in their order: [key, rails]

VARIABLES
    scopes,      \* scope rows
    versionMeta, \* the VERSION row: the hash of all scopes
    outdated,    \* history: handlers whose list of the scopes is old
    behind       \* history: a writer died, or the last refresh put an old list

railVars == <<scopes, versionMeta, outdated, behind>>

ASSUME GuardRailsAssumption ==
    /\ None \notin Rails
    /\ SeedScopes \in Seq([key : ScopeKeys, rails : Rails]) \ {<<>>}

NoScopes == [k \in ScopeKeys |-> None]

\* The scopes are seeded by a script after the deployment: none at first.
GuardRailsInit ==
    /\ scopes = NoScopes
    /\ versionMeta = NoScopes
    /\ outdated = {}
    /\ behind = FALSE

\* Handlers that have listed the scopes and are about to put the hash.
Listed == {s \in Slots : At(s, "rails.meta")}

WriteScope(k, content) ==
    /\ scopes' = [scopes EXCEPT ![k] = content]
    /\ outdated' = IF scopes[k] = content THEN outdated ELSE outdated \cup Listed
    /\ UNCHANGED <<versionMeta, behind>>

\* The rows that a handler has replaced, with the one of key k now.
Replaced(rows, k) == [x \in DOMAIN rows \cup {k} |-> IF x = k THEN scopes[k] ELSE rows[x]]

-----------------------------------------------------------------------------
(* refresh_guardrails_version_meta *)

\* Of the rows that the handler has written, those in late are shown as they
\* were before.
ShownTo(s, late) == [k \in ScopeKeys |-> IF k \in late THEN req[s].replaced[k] ELSE scopes[k]]

ListScopes(s) ==
    /\ At(s, "rails.list")
    /\ \E late \in SUBSET DOMAIN req[s].replaced :
        /\ Become(s, [at |-> "rails.meta", listed |-> ShownTo(s, late)])
        /\ outdated' = IF ShownTo(s, late) = scopes THEN outdated ELSE outdated \cup {s}
    /\ UNCHANGED <<scopes, versionMeta, behind>>

PutVersionMeta(s) ==
    /\ At(s, "rails.meta")
    /\ versionMeta' = req[s].listed
    /\ behind' = (s \in outdated)
    /\ outdated' = outdated \ {s}
    /\ Return(s)
    /\ UNCHANGED scopes

-----------------------------------------------------------------------------
(* PUT and DELETE /v1/admin/guardrails/zoning/scopes/{scope_key} *)

UpsertScope(s, k) == \E rails \in Rails :
    /\ Begin(s, [at |-> "rails.put", key |-> k, rails |-> rails])
    /\ UNCHANGED railVars

PutScope(s) ==
    /\ At(s, "rails.put")
    /\ WriteScope(req[s].key, req[s].rails)
    /\ Become(s, [at |-> "rails.list", replaced |-> Replaced(<<>>, req[s].key)])

DeleteScope(s, k) ==
    /\ scopes[k] # None
    /\ Begin(s, [at |-> "rails.delete", key |-> k])
    /\ UNCHANGED railVars

\* Broken: the version is refreshed after a write only.
DropRowOnly(s) ==
    /\ At(s, "rails.delete")
    /\ WriteScope(req[s].key, None)
    /\ Return(s)

DropRow(s) ==
    /\ At(s, "rails.delete")
    /\ WriteScope(req[s].key, None)
    /\ Become(s, [at |-> "rails.list", replaced |-> Replaced(<<>>, req[s].key)])

-----------------------------------------------------------------------------
(* seed_zoning_guardrails_from_yaml, run by an operator *)

SeedGuardRails(s, refresh) ==
    /\ Begin(s, [at |-> "seed.get", paths |-> SeedScopes, refresh |-> refresh, written |-> 0,
                 replaced |-> <<>>])
    /\ UNCHANGED railVars

\* After the last file the version is refreshed if that was asked for or if
\* anything was written.
SeedNext(s, r) ==
    LET rest == Tail(r.paths) IN
    IF rest # <<>>
    THEN Become(s, [r EXCEPT !.at = "seed.get", !.paths = rest])
    ELSE IF r.refresh \/ r.written > 0
         THEN Become(s, [at |-> "rails.list", replaced |-> r.replaced])
         ELSE Return(s)

\* A scope that the read misses is seeded again.
GetSeedScope(s) ==
    LET r == req[s] IN
    /\ At(s, "seed.get")
    /\ \E found \in {scopes[Head(r.paths).key], None} :
        IF found # None /\ ~r.refresh THEN SeedNext(s, r) ELSE Goto(s, "seed.put")
    /\ UNCHANGED railVars

PutSeedScope(s) ==
    LET r == req[s]  key == Head(r.paths).key IN
    /\ At(s, "seed.put")
    /\ WriteScope(key, Head(r.paths).rails)
    /\ SeedNext(s, [r EXCEPT !.written = @ + 1, !.replaced = Replaced(@, key)])

-----------------------------------------------------------------------------
\* Owes a refresh: has written a scope, or is about to put a version.
OwesRefresh(s) ==
    \/ At(s, "rails.list") \/ At(s, "rails.meta")
    \/ req[s].at \in {"seed.get", "seed.put"} /\ req[s].written > 0

AbortRailRequest(s) ==
    /\ req[s].at \in {"rails.put", "rails.delete", "rails.list", "rails.meta", "seed.get", "seed.put"}
    /\ Return(s)
    /\ outdated' = outdated \ {s}
    /\ behind' = (behind \/ OwesRefresh(s))
    /\ UNCHANGED <<scopes, versionMeta>>

RailRequest(s, k) == UpsertScope(s, k) \/ DeleteScope(s, k)

SeedRequest(s) == \E refresh \in BOOLEAN : SeedGuardRails(s, refresh)

RailStep(s) ==
    \/ ListScopes(s)
    \/ PutVersionMeta(s)
    \/ PutScope(s)
    \/ DropRow(s)
    \/ GetSeedScope(s)
    \/ PutSeedScope(s)

GuardRailsNext == \E s \in Slots :
    \/ \E k \in ScopeKeys : RailRequest(s, k)
    \/ SeedRequest(s)
    \/ RailStep(s)
    \/ AbortRailRequest(s)

\* The version row is the hash of the scopes as they are whenever no writer
\* still owes a refresh, unless a writer died before its refresh or the last
\* refresh put a list that a write overtook or that did not show its own write
\* yet.  One refresh that no write overlaps and whose list is up to date makes up
\* for all that went wrong before: refresh_guardrails_version_meta hashes
\* everything there is (guardrails.py:79).
VersionMatchesScopes ==
    (~behind /\ \A s \in Slots : ~OwesRefresh(s)) => versionMeta = scopes
=============================================================================
