---------------------------- MODULE AuditSummaries ----------------------------
(***************************************************************************)
(* The audit log and the summaries of it (accounts/audit_services.py, the  *)
(* summary and ai-insight endpoints of AuditLogViewSet and                 *)
(* LoginActivityViewSet).  A summary is computed by several queries, none  *)
(* in a transaction, over the rows of a period fixed at its start, and is  *)
(* kept in a cache that may forget it at any moment.  Rows are written by  *)
(* other requests meanwhile: their created_at is the time of the call, and *)
(* they become visible with their transaction, perhaps later.              *)
(***************************************************************************)
EXTENDS Integers, FiniteSets

CONSTANTS
    AuditRows,     \* the rows that are written
    AuditRowOf,    \* what each row says
    SummariesAsked,\* topics that are asked for: [category, type, range]
    WindowOf,      \* length of the period of each range that is accepted
    ThresholdOf,   \* SUMMARY_CACHE_THRESHOLDS
    MaxAgeOf,      \* SUMMARY_CACHE_MAX_AGE for "rules", AI_CACHE_MAX_AGE for "ai"
    Repeated,      \* AUDIT_REPEATED_FAILURE_THRESHOLD
    Many,          \* the 10 of calculate_audit_summary
    Readers,       \* requests for a summary at a time
    LastInstant,   \* bound on the clock
    NoSummary

AuditLog == [type : STRING, account : STRING, user : STRING, ip : STRING, unusual : BOOLEAN,
             deletes : BOOLEAN, failed : BOOLEAN]

ASSUME SummariesAssumption ==
    /\ Repeated \in Nat /\ Many \in Nat /\ LastInstant \in Nat
    /\ "month" \in DOMAIN ThresholdOf
    /\ AuditRowOf \in [AuditRows -> AuditLog]

LOGIN_EVENT_TYPES ==
    {"LOGIN_SUCCESS", "LOGIN_FAILED", "LOGOUT", "DEFAULT_PASSWORD_LOGIN_BLOCKED",
     "PASSWORD_RESET_LINK_SENT", "PASSWORD_RESET_COMPLETED", "PASSWORD_RESET_FAILED"}

Unwritten == -1

VARIABLES
    created_at,  \* of each row, Unwritten before
    visible,     \* the rows whose transaction has committed
    cache,       \* the entry of the topic the behaviour is about
    reading,     \* what each request is doing
    instant

summaryVars == <<created_at, visible, cache, reading, instant>>

NotReading == [phase |-> "IDLE"]

SummariesTypeOK ==
    /\ created_at \in [AuditRows -> Unwritten .. LastInstant]
    /\ visible \subseteq {e \in AuditRows : created_at[e] # Unwritten}
    /\ \A k \in DOMAIN cache :
           cache[k] = NoSummary \/ cache[k].cached_at \in 0 .. instant
    /\ DOMAIN reading = Readers
    /\ \A r \in Readers : reading[r] # NotReading =>
           /\ reading[r].phase \in {"LOOKED", "STARTED", "COUNTED", "GENERATED", "HIT", "MISS"}
           /\ reading[r].topic \in DOMAIN cache
    /\ instant \in 0 .. LastInstant

-----------------------------------------------------------------------------
(* The algorithms.                                                         *)

get_cache_threshold(range_name) ==
    ThresholdOf[IF range_name \in DOMAIN ThresholdOf THEN range_name ELSE "month"]

\* get_summary_period accepts a range in any case; WindowOf has every spelling.
get_summary_period(range_name) == (instant - WindowOf[range_name]) .. instant

get_category_queryset(category, period) ==
    {e \in visible : /\ created_at[e] \in period
                     /\ category = "login" => AuditRowOf[e].type \in LOGIN_EVENT_TYPES}

OfType(rows, type) == {e \in rows : AuditRowOf[e].type = type}

\* For each account the attempts, for each user the addresses.
RepeatedFailures(rows) ==
    \E account \in {AuditRowOf[e].account : e \in rows} \ {""} :
        Cardinality({e \in OfType(rows, "LOGIN_FAILED") :
                        AuditRowOf[e].account = account}) >= Repeated
SeveralAddresses(rows) ==
    \E d, e \in OfType(rows, "LOGIN_SUCCESS") :
        /\ AuditRowOf[d].user = AuditRowOf[e].user /\ AuditRowOf[d].user # ""
        /\ AuditRowOf[d].ip # AuditRowOf[e].ip /\ "" \notin {AuditRowOf[d].ip, AuditRowOf[e].ip}
UnusualTimes(rows) == \E e \in OfType(rows, "LOGIN_SUCCESS") : AuditRowOf[e].unusual

\* A result holds the rows its headline counts (total_events, failed_logins) are
\* about, and those of its details (counts by action, most active actor, ...).
\* The login summary counts its headline before its details.
calculate_login_summary(early, late) ==
    LET points == (IF RepeatedFailures(late) THEN 2 ELSE 0)
                  + (IF SeveralAddresses(late) THEN 1 ELSE 0)
                  + (IF UnusualTimes(late) THEN 1 ELSE 0)
                  + (IF OfType(early, "PASSWORD_RESET_FAILED") # {} THEN 1 ELSE 0)
    IN [headline |-> early, details |-> late,
        risk |-> IF points >= 4 THEN "high" ELSE IF points >= 2 THEN "medium" ELSE "low"]

\* A mutation of calculate_audit_summary: the total is counted first.
TotalFirst(early, late) == [headline |-> early, details |-> late, risk |-> "low"]

\* The audit summary counts its total in the return statement, after everything else.
calculate_audit_summary(early, late) ==
    LET deletions == Cardinality({e \in early : AuditRowOf[e].deletes})
        failures == Cardinality({e \in early : AuditRowOf[e].failed})
    IN [headline |-> late, details |-> early,
        risk |-> IF deletions >= Many \/ failures >= Many THEN "high"
                 ELSE IF deletions > 0 \/ failures > 0 THEN "medium" ELSE "low"]

\* The payloads sent to the provider; the risk level is the provider's.
calculate_ai_security_payload(early, late) == [headline |-> late, details |-> early]
calculate_audit_ai_payload(early, late) == [headline |-> late, details |-> early]

Insight(payload, level) == [headline |-> payload.headline, details |-> payload.details,
                            risk |-> level]
generate_ai_security_insight(early, late, level) ==
    Insight(calculate_ai_security_payload(early, late), level)
generate_audit_ai_insight(early, late, level) ==
    Insight(calculate_audit_ai_payload(early, late), level)

generator(topic, early, late, level) ==
    IF topic.type = "rules"
    THEN IF topic.category = "login" THEN calculate_login_summary(early, late)
         ELSE calculate_audit_summary(early, late)
    ELSE IF topic.category = "login" THEN generate_ai_security_insight(early, late, level)
         ELSE generate_audit_ai_insight(early, late, level)

NewSince(entry, topic) ==
    {e \in get_category_queryset(topic.category, get_summary_period(topic.range)) :
        created_at[e] > entry.last_record_at}

should_regenerate_cached_result(entry, topic) ==
    entry # NoSummary =>
        \/ instant - entry.cached_at >= MaxAgeOf[topic.type]
        \/ Cardinality(NewSince(entry, topic)) >= get_cache_threshold(topic.range)

-----------------------------------------------------------------------------
(* The rows.                                                               *)

\* AuditLog.objects.create, on its own or in the transaction of the caller.
create_audit_log(e) ==
    /\ created_at[e] = Unwritten
    /\ created_at' = [created_at EXCEPT ![e] = instant]
    /\ visible' \in {visible, visible \cup {e}}
    /\ UNCHANGED <<cache, reading, instant>>

commit_row(e) ==
    /\ created_at[e] # Unwritten /\ e \notin visible
    /\ visible' = visible \cup {e}
    /\ UNCHANGED <<created_at, cache, reading, instant>>

clock_ticks ==
    /\ instant < LastInstant
    /\ instant' = instant + 1
    /\ UNCHANGED <<created_at, visible, cache, reading>>

\* Timeout of 2 * max_age, eviction, or an unreachable cache (IGNORE_EXCEPTIONS).
forget(k) ==
    /\ cache[k] # NoSummary
    /\ cache' = [cache EXCEPT ![k] = NoSummary]
    /\ UNCHANGED <<created_at, visible, reading, instant>>

-----------------------------------------------------------------------------
(* A request.                                                              *)

Goes(r, reads) == /\ reading' = [reading EXCEPT ![r] = reads]
                  /\ UNCHANGED <<created_at, visible, instant>>

\* The key of the entry is the topic (get_summary_cache_key).
get_summary_cache_key(category, summary_type, range_name) ==
    [category |-> category, type |-> summary_type, range |-> range_name]

read_cache(r, topic) ==
    /\ topic \in DOMAIN cache
    /\ Goes(r, [phase |-> "LOOKED", topic |-> topic, entry |-> cache[topic]])
    /\ UNCHANGED cache

get_cached_login_summary(r, range_name) ==
    read_cache(r, get_summary_cache_key("login", "rules", range_name))
get_cached_audit_summary(r, range_name) ==
    read_cache(r, get_summary_cache_key("audit", "rules", range_name))
get_cached_login_ai_insight(r, range_name) ==
    read_cache(r, get_summary_cache_key("login", "ai", range_name))
get_cached_audit_ai_insight(r, range_name) ==
    read_cache(r, get_summary_cache_key("audit", "ai", range_name))

AuditLogViewSet(r, range_name) ==
    get_cached_audit_summary(r, range_name) \/ get_cached_audit_ai_insight(r, range_name)
LoginActivityViewSet(r, range_name) ==
    get_cached_login_summary(r, range_name) \/ get_cached_login_ai_insight(r, range_name)

ask(r) ==
    /\ reading[r] = NotReading
    /\ \E range_name \in {k.range : k \in DOMAIN cache} :
           AuditLogViewSet(r, range_name) \/ LoginActivityViewSet(r, range_name)

\* An entry that is good enough is the answer.
answer_from_cache(r) ==
    /\ reading[r].phase = "LOOKED"
    /\ ~should_regenerate_cached_result(reading[r].entry, reading[r].topic)
    /\ Goes(r, [phase |-> "HIT", topic |-> reading[r].topic, entry |-> reading[r].entry])
    /\ UNCHANGED cache

\* The period is fixed, or refused; the AI generators first want their key.
begin_generation(r) ==
    LET topic == reading[r].topic IN
    /\ reading[r].phase = "LOOKED"
    /\ should_regenerate_cached_result(reading[r].entry, topic)
    /\ \/ /\ topic.range \in DOMAIN WindowOf
          /\ Goes(r, [phase |-> "STARTED", topic |-> topic,
                      period |-> get_summary_period(topic.range)])
       \/ /\ topic.range \notin DOMAIN WindowOf \/ topic.type = "ai"
          /\ Goes(r, NotReading)
    /\ UNCHANGED cache

first_queries(r) ==
    LET request == reading[r] IN
    /\ request.phase = "STARTED"
    /\ Goes(r, [phase |-> "COUNTED", topic |-> request.topic, period |-> request.period,
                early |-> get_category_queryset(request.topic.category, request.period)])
    /\ UNCHANGED cache

last_queries(r) ==
    LET request == reading[r] IN
    /\ request.phase = "COUNTED"
    /\ \E level \in {"low", "critical"} :
           Goes(r, [phase |-> "GENERATED", topic |-> request.topic,
                    result |-> generator(request.topic, request.early,
                        get_category_queryset(request.topic.category, request.period),
                        level)])
    /\ UNCHANGED cache

\* The provider fails, or its answer is not of the schema: nothing is stored.
provider_fails(r) ==
    /\ reading[r].phase = "GENERATED" /\ reading[r].topic.type = "ai"
    /\ Goes(r, NotReading)
    /\ UNCHANGED cache

Latest(rows) ==
    IF rows = {} THEN Unwritten
    ELSE CHOOSE t \in {created_at[e] : e \in rows} : \A e \in rows : created_at[e] <= t

\* The latest row is looked up after the generation, over a period of that moment;
\* the entry may fail to be stored.
store_result(r) ==
    LET topic == reading[r].topic
        entry == [result |-> reading[r].result, cached_at |-> instant,
                  last_record_at |-> Latest(get_category_queryset(topic.category,
                                                get_summary_period(topic.range)))]
    IN
    /\ reading[r].phase = "GENERATED"
    /\ Goes(r, [phase |-> "MISS", topic |-> topic, entry |-> entry])
    /\ cache' \in {cache, [cache EXCEPT ![topic] = entry]}

leave(r) ==
    /\ reading[r].phase \in {"HIT", "MISS"}
    /\ Goes(r, NotReading)
    /\ UNCHANGED cache

-----------------------------------------------------------------------------
\* Topics share nothing but the rows: a behaviour is about one of them.
SummariesInit ==
    /\ created_at = [e \in AuditRows |-> Unwritten]
    /\ visible = {}
    /\ \E topic \in SummariesAsked : cache = [k \in {topic} |-> NoSummary]
    /\ reading = [r \in Readers |-> NotReading]
    /\ instant = 0

SummariesNext ==
    \/ clock_ticks
    \/ \E e \in AuditRows : create_audit_log(e) \/ commit_row(e)
    \/ \E k \in DOMAIN cache : forget(k)
    \/ \E r \in Readers :
           \/ ask(r) \/ answer_from_cache(r) \/ begin_generation(r)
           \/ first_queries(r) \/ last_queries(r) \/ provider_fails(r)
           \/ store_result(r) \/ leave(r)

SummariesSpec == SummariesInit /\ [][SummariesNext]_summaryVars

-----------------------------------------------------------------------------
(* Properties.                                                             *)

Answered == {r \in Readers : reading[r].phase \in {"HIT", "MISS"}}

\* No count an answer gives is larger than the total it gives with it, although the
\* counts are read one after the other while rows are written and committed late.
\* The login summary is not meant: it counts failed_logins before it looks for
\* the account that failed most often.
DetailsWithinTotal ==
    \A r \in Answered :
        reading[r].topic # get_summary_cache_key("login", "rules", reading[r].topic.range) =>
            reading[r].entry.result.details \subseteq reading[r].entry.result.headline

(* Why: the rows of the first queries are among those of the last ones, and what is *)
(* stored under a topic was generated for it.                                       *)

TopicsAreKeys ==
    \A r \in Readers : reading[r] # NotReading =>
        LET topic == reading[r].topic
        IN  topic = get_summary_cache_key(topic.category, topic.type, topic.range)

CountedStaysThere ==
    \A r \in Readers : reading[r].phase = "COUNTED" =>
        reading[r].early \subseteq
            get_category_queryset(reading[r].topic.category, reading[r].period)

Fits(topic, result) ==
    topic # get_summary_cache_key("login", "rules", topic.range) =>
        result.details \subseteq result.headline

ResultsFit ==
    /\ \A k \in DOMAIN cache : cache[k] # NoSummary => Fits(k, cache[k].result)
    /\ \A r \in Readers :
          /\ reading[r].phase = "LOOKED" /\ reading[r].entry # NoSummary =>
                 Fits(reading[r].topic, reading[r].entry.result)
          /\ reading[r].phase = "GENERATED" => Fits(reading[r].topic, reading[r].result)
          /\ r \in Answered => Fits(reading[r].topic, reading[r].entry.result)

SummariesInvariant ==
    /\ SummariesTypeOK /\ TopicsAreKeys /\ CountedStaysThere /\ ResultsFit

=============================================================================
