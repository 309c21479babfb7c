------------------------------ MODULE MCServices ------------------------------
(***************************************************************************)
(* Components without shared state: a behaviour is one of any of them, so  *)
(* that their state spaces add instead of multiply.                        *)
(***************************************************************************)
EXTENDS MCParties, PartyDocuments, Operations, Deductions, Obligations, Inbox, Organisation,
        AuditSummaries, Sessions, ReminderNotices

CONSTANTS bill, expense, advance, tax, pay1, pay2, refund1, refund2, fund, back, cleared,
          settle, remit1, remit2
CONSTANTS s1, s2, s3, h1, h2

VARIABLE component

partyVars == <<vars, documentVars>>
ledgerVars == <<operationVars, deductionVars, obligationVars>>
noticeVars == <<inboxVars, reminderVars>>
accountVars == <<organisationVars, summaryVars, sessionVars>>
serviceVars == <<partyVars, ledgerVars, noticeVars, accountVars, component>>

Components == {"PARTIES", "DOCUMENTS", "OPERATIONS", "DEDUCTIONS", "OBLIGATIONS", "INBOX",
               "ORGANISATION", "SUMMARIES", "RESETS", "TOKENS", "REMINDERS"}

LoginRules == get_summary_cache_key("login", "rules", "month")

ServicesInit ==
    /\ component \in Components
    /\ Init /\ DocumentsInit
    /\ OperationsInit /\ DeductionsInit /\ ObligationsInit /\ InboxInit /\ OrganisationInit
    /\ SummariesInit /\ SessionsInit /\ RemindersInit
    /\ component # "PARTIES" => parties[o2] = NoRow
    /\ component # "OBLIGATIONS" => planned = {}
    /\ component # "SUMMARIES" => DOMAIN cache = {LoginRules}
    /\ component \notin {"RESETS", "TOKENS"} =>
           \A u \in Holders : ~credentials[u].must_change_password
    /\ component # "REMINDERS" => duty.due_at = 1

PartyNext ==
    /\ UNCHANGED <<ledgerVars, noticeVars, accountVars>>
    /\ \/ component = "PARTIES" /\ Next /\ UNCHANGED documentVars
       \/ component = "DOCUMENTS" /\ DocumentsNext /\ UNCHANGED vars

LedgerNext ==
    /\ UNCHANGED <<partyVars, noticeVars, accountVars>>
    /\ \/ /\ component = "OPERATIONS" /\ OperationsNext
          /\ UNCHANGED <<deductionVars, obligationVars>>
       \/ /\ component = "DEDUCTIONS" /\ DeductionsNext
          /\ UNCHANGED <<operationVars, obligationVars>>
       \/ /\ component = "OBLIGATIONS" /\ ObligationsNext
          /\ UNCHANGED <<operationVars, deductionVars>>

NoticeNext ==
    /\ UNCHANGED <<partyVars, ledgerVars, accountVars>>
    /\ \/ component = "INBOX" /\ InboxNext /\ UNCHANGED reminderVars
       \/ component = "REMINDERS" /\ RemindersNext /\ UNCHANGED inboxVars

AccountNext ==
    /\ UNCHANGED <<partyVars, ledgerVars, noticeVars>>
    /\ \/ /\ component = "ORGANISATION" /\ OrganisationNext
          /\ UNCHANGED <<summaryVars, sessionVars>>
       \/ /\ component = "SUMMARIES" /\ SummariesNext
          /\ UNCHANGED <<organisationVars, sessionVars>>
       \/ /\ component = "RESETS" /\ ResetsNext
          /\ UNCHANGED <<organisationVars, summaryVars>>
       \/ /\ component = "TOKENS" /\ TokensNext
          /\ UNCHANGED <<organisationVars, summaryVars>>

ServicesNext == UNCHANGED component /\ (PartyNext \/ LedgerNext \/ NoticeNext \/ AccountNext)

ServicesSpec == ServicesInit /\ [][ServicesNext]_serviceVars

-----------------------------------------------------------------------------
(* Values of the constants.                                                *)

MCExportOf == [p \in Fingerprints |-> IF p = "export" THEN "e" ELSE NoResult]

MCKinds ==
    bill :> "BILL" @@ expense :> "EXPENSE" @@ advance :> "ADVANCE" @@ tax :> "REMITTANCE"
    @@ refund1 :> "REFUND" @@ refund2 :> "REFUND" @@ back :> "RETURN" @@ cleared :> "CLEARANCE"
    @@ [r \in {pay1, pay2, fund, settle, remit1, remit2} |-> "PAYMENT"]
MCAmounts ==
    [r \in {bill, advance, tax, pay2, remit2, fund} |-> 2] @@ [r \in Records |-> 1]
MCTargets ==
    [r \in {pay1, pay2, refund1, refund2} |-> bill] @@ [r \in {fund, back, cleared} |-> advance]
    @@ settle :> expense @@ [r \in {remit1, remit2} |-> tax] @@ [r \in Records |-> NoCost]
MCCosts == [r \in {expense, cleared} |-> "cost"] @@ [r \in Records |-> NoCost]
MCPlans == {{bill, pay1, pay2, refund1, refund2}, {advance, fund, back, cleared, expense, settle},
            {tax, remit1, remit2}, {}}


MCContent == [d \in DocumentIds |-> "scan"]

MCKeyOf == 1 :> "n1" @@ 2 :> "n1" @@ 3 :> "n2"
MCOwner == 1 :> "u1" @@ 2 :> "u2" @@ 3 :> "u1"
MCCalls == {[mode |-> "SHARED", keys |-> {"n1"}], [mode |-> "INDIVIDUAL", keys |-> {"n2"}]}

\* s1 and s2 report to nobody, s3 to s2.
MCRoleSets == {{}, {"manage_department_task"}, {"assign_task"}}
MCStaff(department, reports_to, role) ==
    [department |-> department, reports_to |-> reports_to, active |-> TRUE, role |-> role]
MCProfiles ==
    s1 :> MCStaff(h1, NoOne, {"assign_task"})
    @@ s2 :> MCStaff(h1, NoOne, {"manage_department_task"})
    @@ s3 :> MCStaff(h2, s2, {})

AuditRow(type, account, ip) ==
    [type |-> type, account |-> account, user |-> account, ip |-> ip, unusual |-> FALSE,
     deletes |-> FALSE, failed |-> type = "LOGIN_FAILED"]
MCAuditRows == "j1" :> AuditRow("LOGIN_FAILED", "ann", "x")
               @@ "j2" :> AuditRow("LOGIN_FAILED", "ann", "y")
\* "WEEK" is a range, but has no threshold of its own; "decade" is none.
MCSummaries == {LoginRules, get_summary_cache_key("login", "ai", "month"),
                get_summary_cache_key("audit", "rules", "WEEK"),
                get_summary_cache_key("audit", "ai", "decade")}
MCWindows == [range \in {"month", "WEEK"} |-> IF range = "month" THEN 2 ELSE 1]
MCThresholds == [range \in {"month", "week"} |-> IF range = "month" THEN 2 ELSE 1]
MCMaxAges == [type \in {"rules", "ai"} |-> IF type = "ai" THEN 2 ELSE 1]

===============================================================================
