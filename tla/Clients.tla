----------------------------- MODULE Clients -----------------------------
(***************************************************************************)
(* services/client.py and api/routes/clients.py: the client companies of a *)
(* firm.  A company is its normalised name and address (_company_key).     *)
(* Creating a client whose company is on file merges the new contacts and  *)
(* notes into the row that is there; the merge is made from a listing and  *)
(* written by update_client, which reads the row once more but takes the   *)
(* contacts and notes from the listing.                                    *)
(*                                                                         *)
(* Data: contacts with an email only (a merge drops the others), one of    *)
(* them per email; notes as a set.  Location, dates and the audit events   *)
(* are left out, and the copies of a client that projects keep are in      *)
(* Projects.                                                               *)
(***************************************************************************)
EXTENDS Requests, FiniteSets

CONSTANTS
    ClientIds,       \* ids that new_id may return
    Companies,       \* company keys
    ContactEmails,   \* normalised emails of contacts
    Persons,         \* what a contact says besides its email
    Remarks,         \* client notes
    ClientBodies,    \* bodies of POST /clients, but for the company
    ClientPatches    \* bodies of PATCH /clients/{id}: partial functions on rows

VARIABLES
    clients,         \* CLIENT rows
    issued,          \* client ids handed out
    muddled,         \* history: companies on which requests collided
    filed            \* history: what requests have put on file for the others

clientVars == <<clients, issued, muddled, filed>>

ContactBooks == [ContactEmails -> Persons \cup {None}]
NoContacts == [m \in ContactEmails |-> None]

\* What a client is asked to say of a company, and a row.
ClientFiles == [contacts : ContactBooks, notes : SUBSET Remarks]
ClientRows == [company : Companies, contacts : ContactBooks, notes : SUBSET Remarks]

\* A PATCH is of fields of the row and has been validated.
ASSUME ClientsAssumption ==
    /\ ClientBodies \subseteq ClientFiles
    /\ \A patch \in ClientPatches :
        /\ "company" \in DOMAIN patch => patch.company \in Companies
        /\ "contacts" \in DOMAIN patch => patch.contacts \in ContactBooks
        /\ "notes" \in DOMAIN patch => patch.notes \in SUBSET Remarks
    /\ None \notin Persons \cup Companies \cup ClientFiles \cup ClientRows

ClientsInit ==
    /\ clients = [i \in ClientIds |-> None]
    /\ issued = {}
    /\ filed = [c \in Companies |-> None]
    /\ muddled = {}

RowsOf(c) == {i \in ClientIds : clients[i] # None /\ clients[i].company = c}

\* Broken: a request that finds its company on file replaces the contacts.
MergeIncomingOnly(old, new) == new

\* _merge_contacts: an incoming contact replaces the one with its email.
MergeContacts(old, new) ==
    [m \in ContactEmails |-> IF new[m] # None THEN new[m] ELSE old[m]]

\* A write that no longer fits what the handler has read.
Muddle(cs, collided) == muddled' = IF collided THEN muddled \cup cs ELSE muddled

\* What was on file for the companies cs is now what is said of c.
File(cs, c, what) ==
    filed' = [d \in Companies |->
                CASE d \in muddled' -> None
                  [] d \notin muddled' /\ d = c -> what
                  [] d \notin muddled' /\ d # c /\ d \in cs -> None
                  [] OTHER -> filed[d]]

CompaniesAt(i) == IF clients[i] = None THEN {} ELSE {clients[i].company}

-----------------------------------------------------------------------------
(* create_client *)

\* Reads the listing; with several rows of the company any of them is first.
CreateClient(s, c, body) ==
    /\ IF RowsOf(c) = {}
       THEN Begin(s, [at |-> "client.new", company |-> c, contacts |-> body.contacts,
                      notes |-> body.notes])
       ELSE \E i \in RowsOf(c) :
            Begin(s, [at |-> "client.merge", i |-> i, listed |-> clients[i],
                      company |-> c, contacts |-> body.contacts, notes |-> body.notes])
    /\ UNCHANGED clientVars

PutNewClient(s, i) ==
    LET r == req[s]
        row == [company |-> r.company, contacts |-> r.contacts, notes |-> r.notes]
    IN  /\ At(s, "client.new") /\ i \notin issued
        /\ clients' = [clients EXCEPT ![i] = row]
        /\ issued' = issued \cup {i}
        /\ Muddle({r.company}, RowsOf(r.company) # {})
        /\ File({r.company}, r.company, [contacts |-> r.contacts, notes |-> r.notes])
        /\ Return(s)

\* update_client reads the row again and lays the merge over it; a row that is
\* gone by now is an error.
MergeReadClient(s) ==
    LET r == req[s]  row == clients[r.i] IN
    /\ At(s, "client.merge")
    /\ IF row = None
       THEN Return(s) /\ UNCHANGED <<muddled, filed>>
       ELSE /\ Become(s, [at |-> "client.put", i |-> r.i, read |-> row,
                 row |-> [company |-> r.company,
                          contacts |-> MergeContacts(r.listed.contacts, r.contacts),
                          notes |-> r.listed.notes \cup r.notes],
                 adds |-> [contacts |-> r.contacts, notes |-> r.notes]])
            /\ Muddle({r.company, row.company}, row # r.listed)
            /\ File({}, None, None)
    /\ UNCHANGED <<clients, issued>>

-----------------------------------------------------------------------------
(* update_client and delete_client *)

\* A PATCH sets some of the fields; it may name a company that is on file.
UpdateClient(s, i, patch) ==
    LET row == clients[i]
        new == [f \in DOMAIN row |-> IF f \in DOMAIN patch THEN patch[f] ELSE row[f]]
    IN  /\ row # None
        /\ Begin(s, [at |-> "client.put", i |-> i, read |-> row, row |-> new, adds |-> None])
        /\ UNCHANGED clientVars

\* A merge adds to what is on file, a contact in the place of the one with its
\* email; a PATCH is what is on file from now on.
Refiled(r) ==
    LET old == filed[r.row.company]
        kept == {m \in ContactEmails : r.adds.contacts[m] = None}
    IN
    IF r.adds # None /\ old # None
    THEN [contacts |-> [m \in ContactEmails |-> IF m \in kept THEN old.contacts[m]
                                                ELSE r.adds.contacts[m]],
          notes |-> old.notes \cup r.adds.notes]
    ELSE [contacts |-> r.row.contacts, notes |-> r.row.notes]

PutClient(s) ==
    LET r == req[s] IN
    /\ At(s, "client.put")
    /\ clients' = [clients EXCEPT ![r.i] = r.row]
    /\ Muddle({r.read.company, r.row.company} \cup CompaniesAt(r.i),
              clients[r.i] # r.read \/ RowsOf(r.row.company) \ {r.i} # {})
    /\ File({r.read.company}, r.row.company, Refiled(r))
    /\ Return(s)
    /\ UNCHANGED issued

DeleteClient(s, i) ==
    /\ clients[i] # None
    /\ Begin(s, [at |-> "client.delete", i |-> i, read |-> clients[i]])
    /\ UNCHANGED clientVars

RemoveClient(s) ==
    LET r == req[s] IN
    /\ At(s, "client.delete")
    /\ clients' = [clients EXCEPT ![r.i] = None]
    /\ Muddle({r.read.company} \cup CompaniesAt(r.i), clients[r.i] # r.read)
    /\ File({r.read.company}, None, None)
    /\ Return(s)
    /\ UNCHANGED issued

-----------------------------------------------------------------------------
ClientSteps == {"client.new", "client.merge", "client.put", "client.delete"}

\* The handler dies; each operation writes one row, so nothing is half done.
AbortClientRequest(s) ==
    /\ req[s].at \in ClientSteps
    /\ Return(s)
    /\ UNCHANGED clientVars

ClientsNext ==
    \E s \in Slots :
        \/ \E c \in Companies, body \in ClientBodies : CreateClient(s, c, body)
        \/ \E i \in ClientIds : \/ \E patch \in ClientPatches : UpdateClient(s, i, patch)
                                \/ PutNewClient(s, i)
                                \/ DeleteClient(s, i)
        \/ MergeReadClient(s) \/ PutClient(s) \/ RemoveClient(s)
        \/ AbortClientRequest(s)

-----------------------------------------------------------------------------
(* Properties *)

\* create_client merges "existing" and new: whatever was put on file for a
\* company, by however many requests, is in its one row, unless requests on
\* the company collided or a PATCH renamed a client into a company on file.
CompaniesKeepTheirFiles ==
    \A c \in Companies \ muddled :
        IF filed[c] = None
        THEN RowsOf(c) = {}
        ELSE \E i \in ClientIds :
                /\ RowsOf(c) = {i}
                /\ clients[i].contacts = filed[c].contacts
                /\ clients[i].notes = filed[c].notes
=============================================================================
