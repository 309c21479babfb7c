-------------------------------- MODULE Parties --------------------------------
(***************************************************************************)
(* The parties of the CRM (crm/services.py, crm/serializers.py and         *)
(* crm/views.py): clients, suppliers and people with their roles, contact  *)
(* methods, addresses, sources and affiliations; their status, archiving,  *)
(* deletion, and the merge of a duplicate into the party that survives it. *)
(*                                                                         *)
(* The services lock the rows of the parties they change, so a status      *)
(* change is one step.  A merge locks both parties and reads their child   *)
(* rows, then rewrites them: two steps, because requests that edit a child *)
(* row take no lock on its party.  The ordinary PATCH requests read a row  *)
(* (get_object) and later save every column of what they read.             *)
(*                                                                         *)
(* Profiles, notes and interactions move with a merge like the rest and    *)
(* nothing here depends on them; they are left out, and with them the      *)
(* text of every field.                                                    *)
(***************************************************************************)
EXTENDS Integers, FiniteSets

CONSTANTS
    PartyIds,      \* Party rows; some of them may be created later
    Kind,          \* entity_kind of each: it is fixed once the profile exists
    Name,          \* normalized_name of each
    Roles,         \* PartyRole.Role
    Statuses,      \* Party.Status without MERGED, "ACTIVE" among them
    ContactIds,    \* ContactMethod rows of one method_type
    Values,        \* their normalized_value
    PlaceIds,      \* Address rows of one address_type and PartySource rows
    AffiliationIds, \* PartyAffiliation rows
    Clerks,        \* requests in progress at a time
    MaxRequests,   \* bound on the requests of a behaviour
    Given,         \* the databases a behaviour may start from
    NoRow          \* no row with this key

Organisations == {p \in PartyIds : Kind[p] # "INDIVIDUAL"}
People == PartyIds \ Organisations
Places == {"ADDRESS", "SOURCE"}

VARIABLES
    parties,      \* Party
    roles,        \* PartyRole
    contacts,     \* ContactMethod
    places,       \* Address and PartySource
    affiliations, \* PartyAffiliation with its primary contact flag
    merges,       \* PartyMergeRecord
    changed,      \* the parties with PartyStatusHistory rows
    business,     \* the parties named by rows of procurement or the ledger
    request,      \* what each request in progress has read
    served,       \* how many requests have been made
    revived       \* whether a stale save has ever changed a merged party back

children == <<roles, contacts, places, affiliations>>
vars == <<parties, children, merges, changed, business, request, served, revived>>

PartyRow == [status : Statuses \cup {"MERGED"}, archived : BOOLEAN,
             into : PartyIds \cup {NoRow}]
ContactRow == [party : PartyIds, value : Values, primary : BOOLEAN,
               verified : BOOLEAN, active : BOOLEAN]
PlaceRow == [party : PartyIds, table : Places, primary : BOOLEAN, active : BOOLEAN]
RoleStates == {"NONE", "ACTIVE", "INACTIVE"}
MergeRecord == [source : PartyIds, target : PartyIds]
AffiliationRow == [person : People, organisation : Organisations,
                   current : BOOLEAN, primary_contact : BOOLEAN]

\* The tables of the database, where a row may be missing.
PartyTables == [PartyIds -> PartyRow \cup {NoRow}]
RoleTables == [PartyIds -> [Roles -> RoleStates]]
ContactTables == [ContactIds -> ContactRow \cup {NoRow}]
PlaceTables == [PlaceIds -> PlaceRow \cup {NoRow}]
AffiliationTables == [AffiliationIds -> AffiliationRow \cup {NoRow}]

\* A behaviour starts from tables without merged parties, where every contact
\* belongs to a party.
ASSUME PartiesAssumption ==
    /\ \A p \in PartyIds : Kind[p] \in {"ORGANISATION", "TRADING_NAME", "INDIVIDUAL"}
    /\ "ACTIVE" \in Statuses /\ "MERGED" \notin Statuses
    /\ NoRow \notin PartyIds
    /\ NoRow \notin PartyRow \cup ContactRow \cup PlaceRow \cup AffiliationRow
    /\ MaxRequests \in Nat
    /\ DOMAIN Kind = PartyIds /\ DOMAIN Name = PartyIds
    /\ \A d \in Given :
           /\ d.parties \in PartyTables /\ d.roles \in RoleTables
           /\ d.contacts \in ContactTables /\ d.places \in PlaceTables
           /\ d.affiliations \in AffiliationTables
           /\ \A p \in PartyIds : d.parties[p] # NoRow => d.parties[p].status # "MERGED"
           /\ \A i \in ContactIds :
                  d.contacts[i] # NoRow => d.parties[d.contacts[i].party] # NoRow

Present == {p \in PartyIds : parties[p] # NoRow}
IsMerged(p) == parties[p].status = "MERGED"
Idle == [op |-> "NONE"]

\* The rows of a table that belong to party p.
Of(table, p) == {i \in DOMAIN table : table[i] # NoRow /\ table[i].party = p}

-----------------------------------------------------------------------------
(* What the database refuses: the unique constraints of the child tables.  *)

ActivePrimary(table, p) == {i \in Of(table, p) : table[i].primary /\ table[i].active}

\* Every two rows of a table satisfy Distinct(_, _).
Pairwise(table, Distinct(_, _)) ==
    LET rows == {i \in DOMAIN table : table[i] # NoRow}
    IN  \A i, j \in rows : i # j => Distinct(table[i], table[j])

OnePrimary(a, b) == ~(a.primary /\ a.active /\ b.primary /\ b.active)

ContactsFit(table) ==
    Pairwise(table, LAMBDA a, b : a.party = b.party => a.value # b.value /\ OnePrimary(a, b))

PlacesFit(table) ==
    Pairwise(table, LAMBDA a, b :
        a.party = b.party /\ a.table = b.table => OnePrimary(a, b))

AffiliationsFit(table) ==
    Pairwise(table, LAMBDA a, b :
        a.current /\ b.current => <<a.person, a.organisation>> # <<b.person, b.organisation>>)

-----------------------------------------------------------------------------
(* Requests.  A row read by get_object is read without a lock.             *)

\* Row locks on a party: only a merge holds one across two steps.
Unlocked(p) ==
    \A c \in Clerks : request[c].op = "MERGING" => p \notin {request[c].source, request[c].target}

Serve == served < MaxRequests /\ served' = served + 1

Read(c, r) ==
    /\ request[c] = Idle
    /\ Serve
    /\ request' = [request EXCEPT ![c] = r]
    /\ UNCHANGED <<parties, children, merges, changed, business, revived>>

Done(c) == request' = [request EXCEPT ![c] = Idle]

\* The history keeps a party from being deleted.
PartyStatusHistory(p) == changed' = changed \cup {p}

\* Rows of procurement or the ledger name the party.
get_external_party_references(p) == p \in business

\* The request fails and its transaction is rolled back.
Refused(c) ==
    /\ Done(c)
    /\ UNCHANGED <<parties, children, merges, changed, business, served, revived>>

-----------------------------------------------------------------------------
(* The services that lock one party.                                       *)

change_party_status(p, s) ==
    /\ p \in Present /\ Unlocked(p)
    /\ ~IsMerged(p) /\ parties[p].status # s
    /\ Serve
    /\ parties' = [parties EXCEPT ![p].status = s]
    /\ PartyStatusHistory(p)
    /\ UNCHANGED <<children, merges, business, request, revived>>

set_party_archive_state(p, archived) ==
    /\ p \in Present /\ Unlocked(p)
    /\ ~IsMerged(p) /\ parties[p].archived # archived
    /\ Serve
    /\ parties' = [parties EXCEPT ![p].archived = archived]
    /\ UNCHANGED <<children, merges, changed, business, request, revived>>

\* The rows that cascade go with the party; those under PROTECT keep it.
delete_unused_party(p) ==
    /\ p \in Present /\ Unlocked(p)
    /\ p \notin changed /\ ~get_external_party_references(p)
    /\ \A m \in merges : p \notin {m.source, m.target}
    /\ \A q \in Present : parties[q].into # p
    /\ \A i \in AffiliationIds : affiliations[i] # NoRow =>
           p \notin {affiliations[i].person, affiliations[i].organisation}
    /\ Serve
    /\ parties' = [parties EXCEPT ![p] = NoRow]
    /\ roles' = [roles EXCEPT ![p] = [r \in Roles |-> "NONE"]]
    /\ contacts' = [i \in ContactIds |-> IF i \in Of(contacts, p) THEN NoRow ELSE contacts[i]]
    /\ places' = [i \in PlaceIds |-> IF i \in Of(places, p) THEN NoRow ELSE places[i]]
    /\ UNCHANGED <<affiliations, merges, changed, business, request, revived>>

-----------------------------------------------------------------------------
(* Creation of a party, after a search for exact duplicates.               *)

\* The duplicates create refuses: the same name and an active contact in common.
find_party_duplicates(p, v) ==
    {q \in Present : /\ ~IsMerged(q) /\ Name[q] = Name[p]
                     /\ \E i \in Of(contacts, q) : contacts[i].value = v /\ contacts[i].active}

check_new_party(c, p, v) ==
    /\ parties[p] = NoRow
    /\ \A d \in Clerks : request[d].op = "CREATE" => request[d].party # p
    /\ find_party_duplicates(p, v) = {}
    /\ Read(c, [op |-> "CREATE", party |-> p, value |-> v])

create_party(c) ==
    LET p == request[c].party IN
    /\ request[c].op = "CREATE"
    /\ parties[p] = NoRow
    /\ \E i \in ContactIds, r \in Roles :
           /\ contacts[i] = NoRow
           /\ contacts' = [contacts EXCEPT ![i] =
                  [party |-> p, value |-> request[c].value, primary |-> TRUE,
                   verified |-> FALSE, active |-> TRUE]]
           /\ roles' = [roles EXCEPT ![p][r] = "ACTIVE"]
    /\ parties' = [parties EXCEPT ![p] =
           [status |-> "ACTIVE", archived |-> FALSE, into |-> NoRow]]
    /\ Done(c)
    /\ UNCHANGED <<places, affiliations, merges, changed, business, served, revived>>

-----------------------------------------------------------------------------
(* PATCH of a party: every column of the row that was read is saved, the   *)
(* status, the archive flag and the survivor among them.                   *)

get_party(c, p) ==
    /\ p \in Present
    /\ Read(c, [op |-> "PARTY", party |-> p, row |-> parties[p], roles |-> roles[p]])

\* The roles of the party are those that were prefetched with it.
Switched(c, wanted) ==
    {r \in Roles : LET was == request[c].roles[r] IN
                   \/ was = "ACTIVE" /\ r \notin wanted
                   \/ was = "INACTIVE" /\ r \in wanted}

update_party(c) ==
    LET p == request[c].party IN
    /\ request[c].op = "PARTY"
    /\ Unlocked(p)
    /\ parties' = [parties EXCEPT ![p] = request[c].row]
    /\ revived' = (revived \/ (/\ parties[p] # NoRow /\ IsMerged(p)
                               /\ request[c].row.status # "MERGED"))
    /\ Done(c)
    /\ UNCHANGED <<contacts, places, affiliations, merges, changed, business, served>>

PatchParty(c) == update_party(c) /\ UNCHANGED roles

\* The same with the list of roles: a prefetched row that is gone fails the request.
PatchRoles(c, wanted) ==
    LET p == request[c].party IN
    /\ update_party(c)
    /\ \A r \in Switched(c, wanted) : roles[p][r] # "NONE"
    /\ roles' = [roles EXCEPT ![p] = [r \in Roles |->
           CASE r \in Switched(c, wanted) -> IF r \in wanted THEN "ACTIVE" ELSE "INACTIVE"
             [] r \in wanted /\ roles[p][r] = "NONE" -> "ACTIVE"
             [] OTHER -> roles[p][r]]]

PatchRefused(c, wanted) ==
    /\ request[c].op = "PARTY"
    /\ Unlocked(request[c].party)
    /\ \E r \in Switched(c, wanted) : roles[request[c].party][r] = "NONE"
    /\ Refused(c)

-----------------------------------------------------------------------------
(* Contact methods and affiliations: the ordinary create, update, destroy. *)

\* An INSERT waits for the lock of the party it names, whatever its status.
create_contact(p, v, primary) ==
    \E i \in ContactIds :
        /\ p \in Present /\ Unlocked(p)
        /\ contacts[i] = NoRow
        /\ Serve
        /\ contacts' = [contacts EXCEPT ![i] =
               [party |-> p, value |-> v, primary |-> primary,
                verified |-> FALSE, active |-> TRUE]]
        /\ ContactsFit(contacts')
        /\ UNCHANGED <<parties, roles, places, affiliations, merges, changed, business,
                       request, revived>>

get_contact(c, i) ==
    /\ contacts[i] # NoRow
    /\ Read(c, [op |-> "CONTACT", id |-> i, row |-> contacts[i]])

\* Saving a row waits for the locks of parties its foreign keys newly name, and
\* needs those parties.  A row deleted meanwhile is inserted again.
Waits(ends) == \E p \in ends : ~Unlocked(p)

Saved(c, ends, fits) == ends \subseteq Present /\ fits /\ Done(c)

\* A primary contact is saved active.
save_contact(c, change) ==
    LET i == request[c].id
        row == request[c].row
        primary == IF change = "PRIMARY" THEN ~row.primary ELSE row.primary
        active == IF change = "ACTIVE" THEN ~row.active ELSE row.active
        saved == [party |-> row.party, value |-> row.value, primary |-> primary,
                  verified |-> row.verified \/ change = "VERIFIED",
                  active |-> active \/ primary]
        table == [contacts EXCEPT ![i] = saved]
        ends == IF contacts[i] # NoRow /\ contacts[i].party = row.party THEN {} ELSE {row.party}
    IN  /\ request[c].op = "CONTACT"
        /\ ~Waits(ends)
        /\ \/ /\ Saved(c, ends, ContactsFit(table))
              /\ contacts' = table
              /\ UNCHANGED <<parties, roles, places, affiliations, merges, changed, business,
                             served, revived>>
           \/ ~(ends \subseteq Present /\ ContactsFit(table)) /\ Refused(c)

delete_contact(i) ==
    /\ contacts[i] # NoRow
    /\ Serve
    /\ contacts' = [contacts EXCEPT ![i] = NoRow]
    /\ UNCHANGED <<parties, roles, places, affiliations, merges, changed, business,
                   request, revived>>

get_affiliation(c, i) ==
    /\ affiliations[i] # NoRow
    /\ Read(c, [op |-> "AFFILIATION", id |-> i, row |-> affiliations[i]])

\* The person becomes the primary contact, or leaves.
save_affiliation(c, change) ==
    LET i == request[c].id
        row == request[c].row
        saved == [person |-> row.person, organisation |-> row.organisation,
                  current |-> row.current /\ change # "END",
                  primary_contact |-> row.primary_contact \/ change = "PRIMARY"]
        table == [affiliations EXCEPT ![i] = saved]
        ends == {row.person, row.organisation} \
                    (IF affiliations[i] = NoRow THEN {}
                     ELSE {affiliations[i].person, affiliations[i].organisation})
    IN  /\ request[c].op = "AFFILIATION"
        /\ ~Waits(ends)
        /\ \/ /\ Saved(c, ends, AffiliationsFit(table))
              /\ affiliations' = table
              /\ UNCHANGED <<parties, roles, contacts, places, merges, changed, business,
                             served, revived>>
           \/ ~(ends \subseteq Present /\ AffiliationsFit(table)) /\ Refused(c)

delete_affiliation(i) ==
    /\ affiliations[i] # NoRow
    /\ Serve
    /\ affiliations' = [affiliations EXCEPT ![i] = NoRow]
    /\ UNCHANGED <<parties, roles, contacts, places, merges, changed, business,
                   request, revived>>

-----------------------------------------------------------------------------
(* Business records of procurement and the ledger: the party is validated  *)
(* as it was read, and named by a new row later.                           *)

validate_party_for_new_business(c, p, role) ==
    /\ p \in Present \ business /\ ~IsMerged(p)
    /\ ~parties[p].archived
    /\ parties[p].status = "ACTIVE"
    /\ roles[p][role] = "ACTIVE"
    /\ Read(c, [op |-> "BUSINESS", party |-> p])

start_business(c) ==
    LET p == request[c].party IN
    /\ request[c].op = "BUSINESS"
    /\ ~Waits({p})
    /\ \/ /\ Saved(c, {p}, TRUE)
          /\ business' = business \cup {p}
          /\ UNCHANGED <<parties, children, merges, changed, served, revived>>
       \/ p \notin Present /\ Refused(c)

-----------------------------------------------------------------------------
(* Merging.                                                                *)

\* The merge view: the target is looked up among the parties not merged.
merge(c, s, t) ==
    /\ {s, t} \subseteq Present /\ ~IsMerged(t)
    /\ Read(c, [op |-> "MERGE", source |-> s, target |-> t])

\* A mutation of _validate_merge_parties: the check of the view is trusted.
MergeableAsSeen(s, t) ==
    /\ s # t
    /\ {s, t} \subseteq Present
    /\ s \in Organisations <=> t \in Organisations

_validate_merge_parties(s, t) ==
    /\ s # t
    /\ {s, t} \subseteq Present
    /\ ~IsMerged(s) /\ ~IsMerged(t)
    /\ ~parties[t].archived
    /\ s \in Organisations <=> t \in Organisations

ReadRows(table, rows) == [i \in rows |-> table[i]]
AffiliationsOf(p) ==
    {i \in AffiliationIds : /\ affiliations[i] # NoRow
                            /\ p \in {affiliations[i].person, affiliations[i].organisation}}

\* The request once both parties are locked and their child rows are read.
Merging(s, t) ==
    [op |-> "MERGING", source |-> s, target |-> t,
     contacts |-> ReadRows(contacts, Of(contacts, s)),
     places |-> ReadRows(places, Of(places, s)),
     affiliations |-> ReadRows(affiliations, AffiliationsOf(s))]

lock_parties(c) ==
    LET s == request[c].source
        t == request[c].target
    IN  /\ request[c].op = "MERGE"
        /\ Unlocked(s) /\ Unlocked(t)
        /\ \/ /\ _validate_merge_parties(s, t)
              /\ request' = [request EXCEPT ![c] = Merging(s, t)]
              /\ UNCHANGED <<parties, children, merges, changed, business, served, revived>>
           \/ ~_validate_merge_parties(s, t) /\ Refused(c)

\* The roles of either, active if one of the two is.
_merge_role_records(m) ==
    LET either(r) == {roles[m.source][r], roles[m.target][r]} IN
    [roles EXCEPT
        ![m.target] = [r \in Roles |-> CASE "ACTIVE" \in either(r) -> "ACTIVE"
                                         [] either(r) = {"NONE"} -> "NONE"
                                         [] OTHER -> "INACTIVE"],
        ![m.source] = [r \in Roles |-> "NONE"]]

\* The contact of the target with the same value as row i of the source.
Twin(m, i) == {j \in Of(contacts, m.target) : contacts[j].value = m.contacts[i].value}

\* A mutation of _merge_contact_methods: a contact in common keeps its own state.
ContactsDropped(m) ==
    [j \in ContactIds |->
        IF j \in DOMAIN m.contacts
        THEN IF Twin(m, j) # {} THEN NoRow
             ELSE [contacts[j] EXCEPT
                      !.party = m.target,
                      !.primary = @ /\ ActivePrimary(contacts, m.target) = {}]
        ELSE contacts[j]]

\* A contact the target has is combined with the source's; any other is moved,
\* and stays primary if the target has no primary contact.
_merge_contact_methods(m) ==
    LET moved(i) == [contacts[i] EXCEPT
            !.party = m.target,
            !.primary = m.contacts[i].primary /\ ActivePrimary(contacts, m.target) = {}]
        primary(i, j) == \/ contacts[j].primary
                         \/ /\ m.contacts[i].primary
                            /\ ActivePrimary(contacts, m.target) \subseteq {j}
        combined(i, j) == [contacts[j] EXCEPT
            !.verified = @ \/ m.contacts[i].verified,
            !.active = @ \/ m.contacts[i].active \/ primary(i, j),
            !.primary = primary(i, j)]
        into(j) == {i \in DOMAIN m.contacts : j \in Twin(m, i)}
    IN  [j \in ContactIds |->
            IF j \in DOMAIN m.contacts
            THEN IF Twin(m, j) = {} THEN moved(j) ELSE NoRow
            ELSE IF into(j) = {} THEN contacts[j]
            ELSE combined(CHOOSE i \in into(j) : TRUE, j)]

\* Addresses and sources are moved; one primary of each table survives.
_merge_addresses_and_sources(m) ==
    LET taken(i) == \E j \in ActivePrimary(places, m.target) : places[j].table = places[i].table
    IN  [i \in PlaceIds |->
            IF i \notin DOMAIN m.places THEN places[i]
            ELSE [places[i] EXCEPT !.party = m.target, !.primary = @ /\ ~taken(i)]]

\* The source is one end of its affiliations; the other end stays.
Near(m, row) == IF m.source \in People THEN row.person ELSE row.organisation
Far(m, row) == IF m.source \in People THEN row.organisation ELSE row.person

\* The current affiliation of the target with the same other end.
Existing(m, i) ==
    {j \in AffiliationsOf(m.target) :
        /\ m.affiliations[i].current /\ affiliations[j].current
        /\ Far(m, affiliations[j]) = Far(m, m.affiliations[i])}

\* A mutation of _merge_affiliations: every affiliation is moved.
AffiliationsMoved(m) ==
    [j \in AffiliationIds |->
        IF j \notin DOMAIN m.affiliations THEN affiliations[j]
        ELSE IF m.source \in People THEN [affiliations[j] EXCEPT !.person = m.target]
        ELSE [affiliations[j] EXCEPT !.organisation = m.target]]

_merge_affiliations(m) ==
    LET moved(row) == IF m.source \in People THEN [row EXCEPT !.person = m.target]
                      ELSE [row EXCEPT !.organisation = m.target]
        into(j) == {i \in DOMAIN m.affiliations : j \in Existing(m, i)}
    IN  [j \in AffiliationIds |->
            IF j \in DOMAIN m.affiliations
            THEN IF Existing(m, j) = {} THEN moved(affiliations[j]) ELSE NoRow
            ELSE IF into(j) = {} THEN affiliations[j]
            ELSE [affiliations[j] EXCEPT !.primary_contact =
                     @ \/ \E i \in into(j) : m.affiliations[i].primary_contact]]

\* A row to be moved that has been deleted since it was read.
Vanished(m) ==
    \/ \E i \in DOMAIN m.contacts : Twin(m, i) = {} /\ contacts[i] = NoRow
    \/ \E i \in DOMAIN m.affiliations : Existing(m, i) = {} /\ affiliations[i] = NoRow

RowsFit(m) ==
    /\ ~Vanished(m)
    /\ ContactsFit(_merge_contact_methods(m))
    /\ PlacesFit(_merge_addresses_and_sources(m))
    /\ AffiliationsFit(_merge_affiliations(m))

\* One merge record per source.
merge_parties(c) ==
    LET m == request[c]
        recorded == \E r \in merges : r.source = m.source
    IN  /\ m.op = "MERGING"
        /\ \/ /\ RowsFit(m) /\ ~recorded
              /\ roles' = _merge_role_records(m)
              /\ contacts' = _merge_contact_methods(m)
              /\ places' = _merge_addresses_and_sources(m)
              /\ affiliations' = _merge_affiliations(m)
              /\ parties' = [parties EXCEPT ![m.source] =
                     [status |-> "MERGED", archived |-> TRUE, into |-> m.target]]
              /\ PartyStatusHistory(m.source)
              /\ merges' = merges \cup {[source |-> m.source, target |-> m.target]}
              /\ Done(c)
              /\ UNCHANGED <<business, served, revived>>
           \/ (~RowsFit(m) \/ recorded) /\ Refused(c)

-----------------------------------------------------------------------------

Init ==
    /\ \E d \in Given :
           /\ parties = d.parties /\ roles = d.roles /\ contacts = d.contacts
           /\ places = d.places /\ affiliations = d.affiliations
    /\ ContactsFit(contacts) /\ PlacesFit(places) /\ AffiliationsFit(affiliations)
    /\ merges = {} /\ changed = {} /\ business = {}
    /\ request = [c \in Clerks |-> Idle]
    /\ served = 0 /\ revived = FALSE

PartyStep ==
    \E p \in PartyIds :
        \/ \E s \in Statuses : change_party_status(p, s)
        \/ \E archived \in BOOLEAN : set_party_archive_state(p, archived)
        \/ delete_unused_party(p)

PatchStep(c) ==
    \/ \E p \in PartyIds : get_party(c, p)
    \/ PatchParty(c)
    \/ \E wanted \in SUBSET Roles : PatchRoles(c, wanted) \/ PatchRefused(c, wanted)

CreateStep(c) ==
    \/ \E p \in PartyIds, v \in Values : check_new_party(c, p, v)
    \/ create_party(c)

ContactStep(c) ==
    \/ \E i \in ContactIds : get_contact(c, i)
    \/ \E change \in {"PRIMARY", "ACTIVE", "VERIFIED"} : save_contact(c, change)

RowStep ==
    \/ \E p \in PartyIds, v \in Values, primary \in BOOLEAN : create_contact(p, v, primary)
    \/ \E i \in ContactIds : delete_contact(i)
    \/ \E i \in AffiliationIds : delete_affiliation(i)

AffiliationStep(c) ==
    \/ \E i \in AffiliationIds : get_affiliation(c, i)
    \/ \E change \in {"PRIMARY", "END"} : save_affiliation(c, change)

BusinessStep(c) ==
    \/ \E p \in PartyIds, r \in Roles : validate_party_for_new_business(c, p, r)
    \/ start_business(c)

MergeStep(c) ==
    \/ \E s, t \in PartyIds : merge(c, s, t)
    \/ lock_parties(c)
    \/ merge_parties(c)

Next ==
    \/ PartyStep
    \/ RowStep
    \/ \E c \in Clerks : \/ PatchStep(c) \/ CreateStep(c) \/ ContactStep(c)
                         \/ AffiliationStep(c) \/ BusinessStep(c) \/ MergeStep(c)

Spec == Init /\ [][Next]_vars

-----------------------------------------------------------------------------
(* Properties.                                                             *)

\* What a request has read.
RequestOK(r) ==
    /\ r.op = "CREATE" => r.party \in PartyIds /\ r.value \in Values
    /\ r.op = "PARTY" =>
           r.party \in PartyIds /\ r.row \in PartyRow /\ r.roles \in [Roles -> RoleStates]
    /\ r.op = "CONTACT" => r.id \in ContactIds /\ r.row \in ContactRow
    /\ r.op = "AFFILIATION" => r.id \in AffiliationIds /\ r.row \in AffiliationRow
    /\ r.op = "BUSINESS" => r.party \in PartyIds
    /\ r.op \in {"MERGE", "MERGING"} => r.source \in PartyIds /\ r.target \in PartyIds
    /\ r.op = "MERGING" =>
           /\ DOMAIN r.contacts \subseteq ContactIds
           /\ DOMAIN r.places \subseteq PlaceIds
           /\ DOMAIN r.affiliations \subseteq AffiliationIds
           /\ \A i \in DOMAIN r.contacts : r.contacts[i] \in ContactRow
           /\ \A i \in DOMAIN r.affiliations : r.affiliations[i] \in AffiliationRow

\* Every row is well formed.
TypeOK ==
    /\ parties \in PartyTables /\ roles \in RoleTables /\ contacts \in ContactTables
    /\ places \in PlaceTables /\ affiliations \in AffiliationTables
    /\ merges \subseteq MergeRecord
    /\ changed \subseteq PartyIds /\ business \subseteq PartyIds
    /\ DOMAIN request = Clerks /\ \A c \in Clerks : RequestOK(request[c])
    /\ served \in 0 .. MaxRequests /\ revived \in BOOLEAN

\* Every save of a contact makes a primary one active (ContactMethod.save).  A merge
\* saves its own reading of is_primary but not is_active, and may leave a primary
\* contact inactive that was edited meanwhile.
PrimaryIsActive(p) ==
    \A i \in ContactIds :
        contacts[i] # NoRow /\ contacts[i].party = p /\ contacts[i].primary => contacts[i].active

\* Whatever contacts, places and affiliations two parties have come to have, a
\* merge of the two rewrites them to rows the unique constraints accept: the
\* merge service demotes, combines and moves enough never to be refused by them
\* (services.py:804-1244), unless an earlier merge left a primary contact inactive.
MergeFits ==
    \A s, t \in PartyIds :
        /\ s # t /\ _validate_merge_parties(s, t)
        /\ PrimaryIsActive(s) /\ PrimaryIsActive(t)
        => RowsFit(Merging(s, t))

Committed(c) == request[c].op = "MERGING" /\ request'[c] = Idle /\ merges' # merges

RolesKept(m) ==
    \A r \in Roles : "ACTIVE" \in {roles[m.source][r], roles[m.target][r]}
                         => roles'[m.target][r] = "ACTIVE"

\* Some contact of the target then is as good as this one.
KeptAs(m, row) ==
    \E j \in ContactIds :
        /\ contacts'[j] # NoRow
        /\ contacts'[j].party = m.target /\ contacts'[j].value = row.value
        /\ row.verified => contacts'[j].verified
        /\ row.active => contacts'[j].active

ContactsKept(m) ==
    LET unchanged == {i \in DOMAIN m.contacts : contacts[i] = m.contacts[i]}
        rows == unchanged \cup Of(contacts, m.target)
    IN  /\ \A i \in rows : KeptAs(m, contacts[i])
        /\ (\E i \in rows : contacts[i].primary /\ contacts[i].active)
               => ActivePrimary(contacts', m.target) # {}

AffiliationsKept(m) ==
    \A i \in DOMAIN m.affiliations :
        affiliations[i] = m.affiliations[i] =>
            \E j \in AffiliationIds :
                /\ affiliations'[j] # NoRow
                /\ Near(m, affiliations'[j]) = m.target
                /\ Far(m, affiliations'[j]) = Far(m, m.affiliations[i])
                /\ affiliations'[j].current = m.affiliations[i].current
                /\ m.affiliations[i].primary_contact => affiliations'[j].primary_contact

\* A merge loses nothing of either party that nobody else is changing: an active
\* role, a verified or active contact, the fact of having a primary contact, a
\* current or a past affiliation are all found at the survivor
\* (merge_parties, services.py:1297).
MergeLosesNothing ==
    [][\A c \in Clerks : Committed(c) =>
           /\ RolesKept(request[c])
           /\ ContactsKept(request[c])
           /\ AffiliationsKept(request[c])]_vars

\* As long as no stale save has changed a tombstone back, every tombstone leads to
\* a party that is not merged: merges never close a circle, whatever the two views
\* saw before either had the locks, and no survivor is deleted
\* (services.py:1247-1295, PartyMergeRecord under PROTECT).
SurvivorStands ==
    ~revived =>
        /\ \A p \in Present : IsMerged(p) => parties[p].into \in Present
        /\ ~\E S \in SUBSET Present :
               S # {} /\ \A p \in S : IsMerged(p) /\ parties[p].into \in S

\* Why: the unique constraints hold and contacts belong to parties;
RowsStand ==
    /\ ContactsFit(contacts) /\ PlacesFit(places) /\ AffiliationsFit(affiliations)
    /\ \A i \in ContactIds : contacts[i] # NoRow => contacts[i].party \in Present

\* a merge in progress holds two different parties that are not merged, no row it has
\* read comes to the target by other hands, and the places stay with the source;
MergeHolds(m) ==
    /\ m.source \in Present /\ m.target \in Present /\ m.source # m.target
    /\ ~IsMerged(m.source) /\ ~IsMerged(m.target)
    /\ m.source \in Organisations <=> m.target \in Organisations
    /\ \A i \in DOMAIN m.contacts :
           /\ contacts[i] # NoRow => contacts[i].party # m.target
           /\ \A j \in DOMAIN m.contacts \ {i} : m.contacts[i].value # m.contacts[j].value
    /\ \A i \in DOMAIN m.affiliations :
           /\ Near(m, m.affiliations[i]) = m.source
           /\ affiliations[i] # NoRow =>
                  m.target \notin {affiliations[i].person, affiliations[i].organisation}
    /\ \A i \in DOMAIN m.places : places[i] # NoRow /\ places[i].party = m.source

MergesHold ==
    \A c \in Clerks : request[c].op = "MERGING" =>
        /\ MergeHolds(request[c])
        /\ \A d \in Clerks \ {c} : request[d].op = "MERGING" =>
               {request[c].source, request[c].target} \cap
                   {request[d].source, request[d].target} = {}

\* and a party is or was once merged into the target of its only merge record.
Recorded(p, row) == [source |-> p, target |-> row.into] \in merges

Tombstones ==
    /\ \A m, n \in merges : m.source = n.source => m = n
    /\ \A m \in merges : m.source \in Present /\ m.target \in Present
    /\ \A p \in Present : IsMerged(p) => Recorded(p, parties[p])
    /\ \A c \in Clerks :
           request[c].op = "PARTY" /\ request[c].row.status = "MERGED"
               => Recorded(request[c].party, request[c].row)
    /\ ~revived => \A m \in merges : IsMerged(m.source)

PartiesInvariant == TypeOK /\ RowsStand /\ MergesHold /\ Tombstones /\ SurvivorStands

\* "Merged Party records remain as permanent tombstones pointing to the surviving
\* Party" (docs/crm/README.md:95).  It does not hold: PATCH saves the status, the
\* archive flag and merged_into as they were when the row was read.
MergedIsFinal ==
    [][\A p \in Present : IsMerged(p) => parties'[p] = parties[p]]_vars

=============================================================================
