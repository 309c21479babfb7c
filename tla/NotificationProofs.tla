------------------------- MODULE NotificationProofs --------------------------
(*****************************************************************************)
(* Proofs about Inbox and DeliveryOutbox, for any notifications, deliveries, *)
(* workers, administrators and settings.  For each of them the inductive     *)
(* invariant is kept by every action, with one lemma or step per action.     *)
(*****************************************************************************)
EXTENDS DeliveryOutbox, Inbox, FiniteSetTheorems, TLAPS

-----------------------------------------------------------------------------
(* Inbox.                                                                  *)

LEMMA InboxConstants ==
    /\ \A call \in Calls : call.mode \in {"SHARED", "INDIVIDUAL"} /\ call.keys \subseteq Notes
    /\ MaxNotify \in Nat /\ MaxInbox \in Nat
    /\ NoNote \notin NoteRow /\ NoNote \notin InboxRow
  BY InboxAssumption DEF InboxAssumption

\* What the program knows about the request of c from its kind.
LEMMA Requests ==
    ASSUME InboxTypeOK, NEW c \in Handlers
    PROVE  /\ handling[c].op = "NOTIFY" =>
                 /\ handling[c].mode \in {"SHARED", "INDIVIDUAL"}
                 /\ handling[c].todo \in SUBSET Notes /\ handling[c].made \in SUBSET Notes
           /\ handling[c].op \in Operations =>
                 handling[c].id \in Rows /\ handling[c].row \in InboxRow
           /\ handling[c].op \in {"MARK", "ALL", "DELETE"} => handling[c].rows \in SUBSET Rows
           /\ handling[c].op = "MARK" => handling[c].as \in {"READ", "DELIVERED"}
  BY DEF InboxTypeOK, Handling, NotHandling, Operations

LEMMA Handled ==
    ASSUME InboxTypeOK, NEW c \in Handlers, NEW r, Handle(c, r)
    PROVE  /\ handling'[c] = r
           /\ \A d \in Handlers \ {c} : handling'[d] = handling[d]
           /\ r \in Handling => handling' \in [Handlers -> Handling]
  BY DEF InboxTypeOK, Handle

LEMMA InboxStart == InboxInit => InboxInvariant
<1> SUFFICES ASSUME InboxInit PROVE InboxInvariant
  OBVIOUS
<1>1. handling \in [Handlers -> Handling]
  BY DEF InboxInit, Handling, NotHandling
<1>2. InboxTypeOK
  BY <1>1, InboxConstants DEF InboxInit, InboxTypeOK, DashboardStatuses
<1> QED
  BY <1>2 DEF InboxInit, InboxInvariant, WithdrawnExpired, MadeIsNew, ReadRowExists,
     NotHandling,
     Operations

\* A request that begins, ends or dies leaves the rows alone.
LEMMA HandlingKeeps ==
    ASSUME InboxInvariant, NEW c \in Handlers, NEW r \in Handling, Handle(c, r),
           r.op = "NOTIFY" => r.made = {},
           r.op \in Operations => inbox[r.id] # NoNote,
           UNCHANGED <<notes, inbox, dashboard, withdrawn>>,
           notified' \in 0..MaxNotify, asked' \in 0..MaxInbox
    PROVE  InboxInvariant'
<1> USE DEF InboxInvariant
<1>1. InboxTypeOK'
  BY Handled DEF InboxTypeOK
<1>2. WithdrawnExpired'
  BY DEF WithdrawnExpired
<1>3. MadeIsNew'
  BY Handled DEF MadeIsNew
<1>4. ReadRowExists'
  BY Handled DEF ReadRowExists
<1> QED
  BY <1>1, <1>2, <1>3, <1>4

LEMMA NotifyKeeps ==
    ASSUME InboxInvariant, NEW c \in Handlers, NEW call \in Calls, notify(c, call)
    PROVE  InboxInvariant'
<1> DEFINE started == [op |-> "NOTIFY", mode |-> call.mode, todo |-> call.keys, made |-> {}]
           r == IF call.mode = "SHARED" /\ \E n \in call.keys : notes[n] # NoNote
                THEN NotHandling ELSE started
<1>1. started \in Handling /\ NotHandling \in Handling
  BY InboxConstants DEF Handling
<1>2. Handle(c, r) /\ UNCHANGED <<notes, inbox, dashboard, withdrawn>>
  BY DEF notify
<1>3. notified' \in 0..MaxNotify /\ asked' \in 0..MaxInbox
  BY InboxConstants DEF notify, InboxInvariant, InboxTypeOK
<1>4. r \in Handling /\ (r.op = "NOTIFY" => r.made = {}) /\ r.op \notin Operations
  BY <1>1 DEF NotHandling, Operations
<1> HIDE DEF r
<1> QED
  BY <1>2, <1>3, <1>4, HandlingKeeps

\* What c has not made, no other request has made either.
LEMMA CreateNotificationKeeps ==
    ASSUME InboxInvariant, NEW c \in Handlers, NEW n \in Notes, create_notification(c, n)
    PROVE  InboxInvariant'
<1> USE DEF InboxInvariant
<1> DEFINE made == [handling[c] EXCEPT !.todo = @ \ {n}, !.made = @ \cup {n}]
           passed == [handling[c] EXCEPT !.todo = @ \ {n}]
<1>1. /\ made \in Handling /\ made.op = "NOTIFY" /\ made.made = handling[c].made \cup {n}
      /\ passed \in Handling /\ passed.op = "NOTIFY" /\ passed.made = handling[c].made
      /\ NotHandling \in Handling
  <2>1. handling[c] \in [op : {"NOTIFY"}, mode : {"SHARED", "INDIVIDUAL"}, todo : SUBSET Notes,
                         made : SUBSET Notes]
    BY DEF create_notification, InboxTypeOK, Handling, NotHandling, Operations
  <2>2. NotHandling \in Handling
    BY DEF Handling
  <2>3. /\ made \in [op : {"NOTIFY"}, mode : {"SHARED", "INDIVIDUAL"}, todo : SUBSET Notes,
                    made : SUBSET Notes]
        /\ made.op = "NOTIFY" /\ made.made = handling[c].made \cup {n}
    BY <2>1
  <2>4. /\ passed \in [op : {"NOTIFY"}, mode : {"SHARED", "INDIVIDUAL"}, todo : SUBSET Notes,
                      made : SUBSET Notes]
        /\ passed.op = "NOTIFY" /\ passed.made = handling[c].made
    BY <2>1
  <2> QED
    BY <2>2, <2>3, <2>4 DEF Handling
<1>2. /\ UNCHANGED <<notes, inbox, dashboard, notified, asked, withdrawn>>
      /\ handling[c].op = "NOTIFY"
      /\ \A d \in Handlers \ {c} : handling[d].op = "NOTIFY" => n \notin handling[d].made
      /\ \/ notes[n] = NoNote /\ Handle(c, made)
         \/ Handle(c, NotHandling)
         \/ Handle(c, passed)
  BY DEF create_notification
<1> HIDE DEF made, passed
<1>3. InboxTypeOK'
  BY <1>1, <1>2, Handled DEF InboxTypeOK
<1>4. WithdrawnExpired'
  BY <1>2 DEF WithdrawnExpired
<1>5. MadeIsNew'
  <2>1. CASE notes[n] = NoNote /\ Handle(c, made)
    BY <1>1, <1>2, <2>1, Handled DEF MadeIsNew
  <2>2. CASE Handle(c, NotHandling)
    BY <1>2, <2>2, Handled DEF MadeIsNew, NotHandling
  <2>3. CASE Handle(c, passed)
    BY <1>1, <1>2, <2>3, Handled DEF MadeIsNew
  <2> QED
    BY <1>2, <2>1, <2>2, <2>3
<1>6. ReadRowExists'
  BY <1>1, <1>2, Handled DEF ReadRowExists, NotHandling, Operations
<1> QED
  BY <1>3, <1>4, <1>5, <1>6

\* The notifications that were made are there for the first time: none was cancelled.
LEMMA CreateRecipientsKeeps ==
    ASSUME InboxInvariant, NEW c \in Handlers, create_recipients(c)
    PROVE  InboxInvariant'
<1> USE DEF InboxInvariant
<1> DEFINE made == handling[c].made
<1>1. PICK due \in BOOLEAN :
          notes' = [n \in Notes |-> IF n \in made THEN [due |-> due,
          expired |-> FALSE] ELSE notes[n]]
  BY DEF create_recipients
<1>2. handling[c].op = "NOTIFY" /\ made \in SUBSET Notes /\ Handle(c, NotHandling)
      /\ UNCHANGED <<notified, asked, withdrawn>>
  BY Requests DEF create_recipients
<1>3. NotHandling \in Handling /\ NotHandling.op = "NONE"
  BY DEF Handling, NotHandling
<1>4. notes' \in [Notes -> NoteRow \cup {NoNote}]
  BY <1>1 DEF InboxTypeOK, NoteRow
<1>5. inbox' \in [Rows -> InboxRow \cup {NoNote}]
  BY DEF create_recipients, InboxTypeOK, InboxRow
<1>6. dashboard' \in [Rows -> DashboardStatuses]
  BY DEF create_recipients, InboxTypeOK, DashboardStatuses
<1>7. \A i \in Rows : inbox[i] # NoNote => inbox'[i] # NoNote
  <2> DEFINE new == [seen |-> FALSE, read |-> FALSE, archived |-> "NO", dismissed |-> FALSE]
  <2>1. new \in InboxRow
    BY DEF InboxRow
  <2>2. \A i \in Rows : inbox'[i] \in {new, inbox[i]}
    BY DEF create_recipients
  <2> HIDE DEF new
  <2> QED
    BY <2>1, <2>2, InboxConstants
<1>8. \A n \in Notes : n \notin made => notes'[n] = notes[n]
  BY <1>1
<1>9. InboxTypeOK'
  BY <1>2, <1>3, <1>4, <1>5, <1>6, Handled DEF InboxTypeOK
<1>10. WithdrawnExpired'
  BY <1>2, <1>8 DEF WithdrawnExpired, MadeIsNew, InboxTypeOK
<1>11. MadeIsNew'
  BY <1>2, <1>3, <1>8, Requests, Handled DEF MadeIsNew
<1>12. ReadRowExists'
  BY <1>2, <1>3, <1>7, Requests, Handled DEF ReadRowExists, Operations
<1> QED
  BY <1>9, <1>10, <1>11, <1>12

LEMMA CancelKeeps ==
    ASSUME InboxInvariant, NEW n \in Notes, cancel_scheduled_notification(n)
    PROVE  InboxInvariant'
<1> USE DEF InboxInvariant
<1>1. /\ notes' \in [Notes -> NoteRow \cup {NoNote}]
      /\ notes'[n] \in NoteRow /\ notes'[n].expired
      /\ \A m \in Notes \ {n} : notes'[m] = notes[m]
  BY DEF cancel_scheduled_notification, InboxTypeOK, NoteRow
<1>2. dashboard' \in [Rows -> DashboardStatuses]
  BY DEF cancel_scheduled_notification, InboxTypeOK, DashboardStatuses
<1>3. InboxTypeOK'
  BY <1>1, <1>2 DEF cancel_scheduled_notification, InboxTypeOK
<1>4. WithdrawnExpired'
  BY <1>1, InboxConstants DEF cancel_scheduled_notification, WithdrawnExpired, InboxTypeOK
<1>5. MadeIsNew'
  BY <1>1, Requests DEF cancel_scheduled_notification, MadeIsNew
<1>6. ReadRowExists'
  BY DEF cancel_scheduled_notification, ReadRowExists
<1> QED
  BY <1>3, <1>4, <1>5, <1>6

LEMMA GetObjectKeeps ==
    ASSUME InboxInvariant, NEW c \in Handlers, NEW i \in Rows, NEW op \in Operations,
           get_object(c, i, op)
    PROVE  InboxInvariant'
<1> DEFINE r == [op |-> op, id |-> i, row |-> inbox[i]]
<1>1. inbox[i] \in InboxRow /\ inbox[i] # NoNote
  BY DEF get_object, Visible, InboxInvariant, InboxTypeOK
<1>2. r \in Handling
  BY <1>1 DEF Handling
<1>3. Handle(c, r) /\ UNCHANGED <<notes, inbox, dashboard, withdrawn>>
  BY DEF get_object
<1>4. notified' \in 0..MaxNotify /\ asked' \in 0..MaxInbox
  BY InboxConstants DEF get_object, InboxInvariant, InboxTypeOK
<1>5. (r.op = "NOTIFY" => r.made = {}) /\ inbox[r.id] # NoNote
  BY <1>1 DEF Operations
<1> HIDE DEF r
<1> QED
  BY <1>2, <1>3, <1>4, <1>5, HandlingKeeps

\* What save writes into a row leaves it well typed.
LEMMA SavedType ==
    ASSUME NEW op \in Operations, NEW read \in InboxRow, NEW found \in InboxRow
    PROVE  SavedBy(op, read, found) \in InboxRow
<1>1. CASE op = "SEEN"
  BY <1>1 DEF SavedBy, InboxRow
<1>2. CASE op = "READ"
  BY <1>2 DEF SavedBy, InboxRow
<1>3. CASE op = "UNREAD"
  BY <1>3 DEF SavedBy, InboxRow
<1>4. CASE op = "ARCHIVE"
  BY <1>4 DEF SavedBy, InboxRow
<1>5. CASE op = "RESTORE"
  BY <1>5 DEF SavedBy, InboxRow
<1>6. CASE op = "DISMISS"
  BY <1>6 DEF SavedBy, InboxRow
<1> QED
  BY <1>1, <1>2, <1>3, <1>4, <1>5, <1>6 DEF Operations

LEMMA SaveRecipientKeeps ==
    ASSUME InboxInvariant, NEW c \in Handlers, save_recipient(c)
    PROVE  InboxInvariant'
<1> USE DEF InboxInvariant
<1> DEFINE r == handling[c]
           mark == [op |-> "MARK", rows |-> {r.id},
           as |-> IF r.op = "READ" THEN "READ" ELSE "DELIVERED"]
           saved == SavedBy(r.op, r.row, inbox[r.id])
<1>1. r.op \in Operations /\ r.id \in Rows /\ r.row \in InboxRow /\ inbox[r.id] \in InboxRow
  BY Requests DEF save_recipient, ReadRowExists, InboxTypeOK
<1>2. saved \in InboxRow
  BY <1>1, SavedType
<1>3. /\ inbox' = [inbox EXCEPT ![r.id] = saved]
      /\ Handle(c, NotHandling) \/ Handle(c, mark)
      /\ UNCHANGED <<notes, dashboard, notified, asked, withdrawn>>
  BY DEF save_recipient
<1>4. mark \in Handling /\ NotHandling \in Handling /\ mark.op = "MARK"
  BY <1>1 DEF Handling
<1> HIDE DEF r, mark, saved
<1>5. inbox' \in [Rows -> InboxRow \cup {NoNote}] /\ \A i \in Rows : inbox[i] # NoNote => inbox'[i] # NoNote
  BY <1>1, <1>2, <1>3, InboxConstants DEF InboxTypeOK
<1>6. InboxTypeOK'
  BY <1>3, <1>4, <1>5, Handled DEF InboxTypeOK
<1>7. WithdrawnExpired'
  BY <1>3 DEF WithdrawnExpired
<1>8. MadeIsNew'
  BY <1>3, <1>4, Handled DEF MadeIsNew, NotHandling
<1>9. ReadRowExists'
  BY <1>3, <1>4, <1>5, Requests, Handled DEF ReadRowExists, NotHandling, Operations
<1> QED
  BY <1>6, <1>7, <1>8, <1>9

LEMMA UpdateDeliveriesKeeps ==
    ASSUME InboxInvariant, NEW c \in Handlers, update_deliveries(c)
    PROVE  InboxInvariant'
<1> USE DEF InboxInvariant
<1>1. dashboard' \in [Rows -> DashboardStatuses]
  BY Requests DEF update_deliveries, InboxTypeOK, DashboardStatuses
<1>2. NotHandling \in Handling /\ Handle(c, NotHandling)
  BY DEF Handling, update_deliveries
<1>3. InboxTypeOK'
  BY <1>1, <1>2, Handled DEF InboxTypeOK, update_deliveries
<1>4. WithdrawnExpired'
  BY DEF WithdrawnExpired, update_deliveries
<1>5. MadeIsNew'
  BY <1>2, Handled DEF MadeIsNew, NotHandling, update_deliveries
<1>6. ReadRowExists'
  BY <1>2, Handled DEF ReadRowExists, NotHandling, Operations, update_deliveries
<1> QED
  BY <1>3, <1>4, <1>5, <1>6

LEMMA MarkAllKeeps ==
    ASSUME InboxInvariant, NEW c \in Handlers, NEW u, mark_all_read(c, u)
    PROVE  InboxInvariant'
<1> DEFINE r == [op |-> "ALL", rows |-> {i \in Rows : OwnerOf[i] = u /\ Visible(i) /\ ~inbox[i].read}]
<1>1. r \in Handling /\ r.op = "ALL"
  BY DEF Handling
<1>2. Handle(c, r) /\ UNCHANGED <<notes, inbox, dashboard, withdrawn>>
  BY DEF mark_all_read
<1>3. notified' \in 0..MaxNotify /\ asked' \in 0..MaxInbox
  BY InboxConstants DEF mark_all_read, InboxInvariant, InboxTypeOK
<1> HIDE DEF r
<1>4. r.op # "NOTIFY" /\ r.op \notin Operations
  BY <1>1 DEF Operations
<1> QED
  BY <1>1, <1>2, <1>3, <1>4, HandlingKeeps

LEMMA UpdateRecipientsKeeps ==
    ASSUME InboxInvariant, NEW c \in Handlers, update_recipients(c)
    PROVE  InboxInvariant'
<1> USE DEF InboxInvariant
<1> DEFINE mark == [op |-> "MARK", rows |-> handling[c].rows, as |-> "READ"]
<1>1. mark \in Handling /\ mark.op = "MARK"
  BY Requests DEF Handling, update_recipients
<1>2. Handle(c, mark) /\ UNCHANGED <<notes, dashboard, notified, asked, withdrawn>>
  BY DEF update_recipients
<1> HIDE DEF mark
<1>3. inbox' \in [Rows -> InboxRow \cup {NoNote}] /\ \A i \in Rows : inbox[i] # NoNote => inbox'[i] # NoNote
  BY InboxConstants DEF InboxTypeOK, update_recipients, InboxRow
<1>4. InboxTypeOK'
  BY <1>1, <1>2, <1>3, Handled DEF InboxTypeOK
<1>5. WithdrawnExpired'
  BY <1>2 DEF WithdrawnExpired
<1>6. MadeIsNew'
  BY <1>1, <1>2, Handled DEF MadeIsNew
<1>7. ReadRowExists'
  BY <1>1, <1>2, <1>3, Requests, Handled DEF ReadRowExists, Operations
<1> QED
  BY <1>4, <1>5, <1>6, <1>7

LEMMA ArchiveAllKeeps ==
    ASSUME InboxInvariant, NEW u, archive_all_read(u)
    PROVE  InboxInvariant'
<1> USE DEF InboxInvariant, archive_all_read
<1>1. inbox' \in [Rows -> InboxRow \cup {NoNote}] /\ \A i \in Rows : inbox[i] # NoNote => inbox'[i] # NoNote
  BY InboxConstants DEF InboxTypeOK, InboxRow, Visible
<1>2. InboxTypeOK'
  BY <1>1, InboxConstants DEF InboxTypeOK
<1>3. WithdrawnExpired'
  BY DEF WithdrawnExpired
<1>4. MadeIsNew'
  BY DEF MadeIsNew
<1>5. ReadRowExists'
  BY <1>1, Requests DEF ReadRowExists
<1> QED
  BY <1>2, <1>3, <1>4, <1>5

LEMMA CleanupKeeps ==
    ASSUME InboxInvariant, NEW c \in Handlers, cleanup(c)
    PROVE  InboxInvariant'
<1> DEFINE r == [op |-> "DELETE", rows |-> {i \in Rows : inbox[i] # NoNote /\ inbox[i].archived = "LONG"}]
<1>1. r \in Handling /\ r.op = "DELETE"
  BY DEF Handling
<1>2. Handle(c, r) /\ UNCHANGED <<notes, inbox, dashboard, withdrawn>>
  BY DEF cleanup
<1>3. notified' \in 0..MaxNotify /\ asked' \in 0..MaxInbox
  BY DEF cleanup, InboxInvariant, InboxTypeOK
<1> HIDE DEF r
<1>4. r.op # "NOTIFY" /\ r.op \notin Operations
  BY <1>1 DEF Operations
<1> QED
  BY <1>1, <1>2, <1>3, <1>4, HandlingKeeps

\* A request forgets the rows that are deleted, or ends.
LEMMA ForgottenFacts ==
    ASSUME InboxTypeOK, NEW d \in Handlers, NEW rows
    PROVE  /\ Forgotten(handling[d], rows) \in Handling
           /\ handling[d].op = "NOTIFY" => Forgotten(handling[d], rows) = handling[d]
           /\ Forgotten(handling[d], rows).op = "NOTIFY" => handling[d].op = "NOTIFY"
           /\ Forgotten(handling[d], rows).op \in Operations =>
                 /\ Forgotten(handling[d], rows) = handling[d]
                 /\ handling[d].id \notin rows
<1>1. NotHandling \in Handling
  BY DEF Handling
<1>2. CASE handling[d].op \in Operations
  BY <1>1, <1>2 DEF Forgotten, InboxTypeOK, NotHandling, Operations
<1>3. CASE handling[d].op \in {"MARK", "ALL", "DELETE"}
  <2> DEFINE new == [handling[d] EXCEPT !.rows = @ \ rows]
  <2>1. new \in Handling /\ new.op = handling[d].op
    BY <1>3 DEF InboxTypeOK, Handling, NotHandling, Operations
  <2>2. Forgotten(handling[d], rows) = new
    BY <1>3 DEF Forgotten, Operations
  <2> HIDE DEF new
  <2> QED
    BY <1>3, <2>1, <2>2 DEF Operations
<1>4. CASE handling[d].op \notin Operations \cup {"MARK", "ALL", "DELETE"}
  BY <1>4 DEF Forgotten, InboxTypeOK
<1> QED
  BY <1>2, <1>3, <1>4

LEMMA DeleteRecipientsKeeps ==
    ASSUME InboxInvariant, NEW c \in Handlers, delete_recipients(c)
    PROVE  InboxInvariant'
<1> USE DEF InboxInvariant
<1> DEFINE rows == handling[c].rows
<1>1. /\ handling' = [d \in Handlers |-> IF d = c THEN [op |-> "DELETE_NOTES"]
                                         ELSE Forgotten(handling[d], rows)]
      /\ inbox' = [i \in Rows |-> IF i \in rows THEN NoNote ELSE inbox[i]]
      /\ UNCHANGED <<notes, notified, asked, withdrawn>>
  BY DEF delete_recipients
<1>2. [op |-> "DELETE_NOTES"] \in Handling
  BY DEF Handling
<1>3. handling' \in [Handlers -> Handling]
  BY <1>1, <1>2, ForgottenFacts
<1>4. dashboard' \in [Rows -> DashboardStatuses]
  BY DEF delete_recipients, InboxTypeOK, DashboardStatuses
<1>5. InboxTypeOK'
  BY <1>1, <1>3, <1>4 DEF InboxTypeOK
<1>6. WithdrawnExpired'
  BY <1>1 DEF WithdrawnExpired
<1>7. \A d \in Handlers : handling'[d].op = "NOTIFY" => handling[d] = handling'[d]
  BY <1>1, ForgottenFacts
<1>8. MadeIsNew'
  BY <1>1, <1>7 DEF MadeIsNew
<1>9. ReadRowExists'
  <2> SUFFICES ASSUME NEW d \in Handlers, handling'[d].op \in Operations
               PROVE  inbox'[handling'[d].id] # NoNote
    BY DEF ReadRowExists
  <2>1. d # c
    BY <1>1 DEF Operations
  <2>2. handling'[d] = handling[d] /\ handling[d].id \notin rows
    BY <1>1, <2>1, ForgottenFacts
  <2> QED
    BY <1>1, <2>2, Requests DEF ReadRowExists
<1> QED
  BY <1>5, <1>6, <1>8, <1>9

LEMMA DeleteNotificationsKeeps ==
    ASSUME InboxInvariant, NEW c \in Handlers, delete_notifications(c)
    PROVE  InboxInvariant'
<1> USE DEF InboxInvariant
<1>1. PICK old \in SUBSET Abandoned :
          /\ notes' = [n \in Notes |-> IF n \in old THEN NoNote ELSE notes[n]]
          /\ withdrawn' = withdrawn \ old
  BY DEF delete_notifications
<1>2. NotHandling \in Handling /\ Handle(c, NotHandling) /\ UNCHANGED <<inbox, dashboard, notified, asked>>
  BY DEF Handling, delete_notifications
<1>3. InboxTypeOK'
  BY <1>1, <1>2, Handled DEF InboxTypeOK
<1>4. WithdrawnExpired'
  BY <1>1 DEF WithdrawnExpired, InboxTypeOK
<1>5. MadeIsNew'
  BY <1>1, <1>2, Requests, Handled DEF MadeIsNew, NotHandling
<1>6. ReadRowExists'
  BY <1>2, Handled DEF ReadRowExists, NotHandling, Operations
<1> QED
  BY <1>3, <1>4, <1>5, <1>6

LEMMA GiveUpKeeps ==
    ASSUME InboxInvariant, NEW c \in Handlers, give_up(c)
    PROVE  InboxInvariant'
<1>1. NotHandling \in Handling /\ NotHandling.op = "NONE" /\ Handle(c, NotHandling)
  BY DEF Handling, NotHandling, give_up
<1>2. NotHandling.op # "NOTIFY" /\ NotHandling.op \notin Operations
  BY <1>1 DEF Operations
<1>3. /\ notified' \in 0..MaxNotify /\ asked' \in 0..MaxInbox
      /\ UNCHANGED <<notes, inbox, dashboard, withdrawn>>
  BY DEF give_up, InboxInvariant, InboxTypeOK
<1> QED
  BY <1>1, <1>2, <1>3, HandlingKeeps

LEMMA TimePassesKeeps ==
    ASSUME InboxInvariant, time_passes
    PROVE  InboxInvariant'
<1> USE DEF InboxInvariant
<1>1. /\ notes' \in [Notes -> NoteRow \cup {NoNote}]
      /\ \A n \in Notes : /\ notes[n] = NoNote <=> notes'[n] = NoNote
                          /\ notes[n] # NoNote /\ notes[n].expired => notes'[n].expired
  <2>1. CASE UNCHANGED notes
    BY <2>1 DEF InboxTypeOK
  <2>2. CASE \E n \in Notes : notes[n] # NoNote /\ notes' = [notes EXCEPT ![n].due = TRUE]
    <3>1. PICK n \in Notes : notes[n] # NoNote /\ notes' = [notes EXCEPT ![n].due = TRUE]
      BY <2>2
    <3>2. /\ notes[n] \in NoteRow /\ notes'[n] \in NoteRow /\ notes'[n].expired = notes[n].expired
          /\ \A m \in Notes \ {n} : notes'[m] = notes[m]
          /\ notes' \in [Notes -> NoteRow \cup {NoNote}]
      BY <3>1 DEF InboxTypeOK, NoteRow
    <3> QED
      BY <3>1, <3>2, InboxConstants
  <2>3. CASE \E n \in Notes : /\ notes[n] # NoNote
                              /\ notes' = [notes EXCEPT ![n].due = TRUE, ![n].expired = TRUE]
    <3>1. PICK n \in Notes : /\ notes[n] # NoNote
                              /\ notes' = [notes EXCEPT ![n].due = TRUE, ![n].expired = TRUE]
      BY <2>3
    <3>2. /\ notes[n] \in NoteRow /\ notes'[n] \in NoteRow /\ notes'[n].expired
          /\ \A m \in Notes \ {n} : notes'[m] = notes[m]
          /\ notes' \in [Notes -> NoteRow \cup {NoNote}]
      BY <3>1 DEF InboxTypeOK, NoteRow
    <3> QED
      BY <3>1, <3>2, InboxConstants
  <2> QED
    BY <2>1, <2>2, <2>3 DEF time_passes
<1>2. /\ inbox' \in [Rows -> InboxRow \cup {NoNote}]
      /\ \A i \in Rows : inbox[i] # NoNote => inbox'[i] # NoNote
  <2>1. CASE UNCHANGED inbox
    BY <2>1 DEF InboxTypeOK
  <2>2. CASE \E i \in Rows : inbox[i] # NoNote /\ inbox' = [inbox EXCEPT ![i].archived = "LONG"]
    <3>1. PICK i \in Rows : inbox[i] # NoNote /\ inbox' = [inbox EXCEPT ![i].archived = "LONG"]
      BY <2>2
    <3>2. /\ inbox'[i] \in InboxRow
          /\ \A j \in Rows \ {i} : inbox'[j] = inbox[j]
          /\ inbox' \in [Rows -> InboxRow \cup {NoNote}]
      BY <3>1 DEF InboxTypeOK, InboxRow
    <3> QED
      BY <3>1, <3>2, InboxConstants
  <2> QED
    BY <2>1, <2>2 DEF time_passes
<1>3. UNCHANGED <<dashboard, handling, notified, asked, withdrawn>>
  BY DEF time_passes
<1>4. InboxTypeOK'
  BY <1>1, <1>2, <1>3 DEF InboxTypeOK
<1>5. WithdrawnExpired'
  BY <1>1, <1>3 DEF WithdrawnExpired, InboxTypeOK
<1>6. MadeIsNew'
  BY <1>1, <1>3, Requests DEF MadeIsNew
<1>7. ReadRowExists'
  BY <1>2, <1>3, Requests DEF ReadRowExists
<1> QED
  BY <1>4, <1>5, <1>6, <1>7

LEMMA InboxStep == InboxInvariant /\ [InboxNext]_inboxVars => InboxInvariant'
<1> SUFFICES ASSUME InboxInvariant, [InboxNext]_inboxVars PROVE InboxInvariant'
  OBVIOUS
<1>1. CASE UNCHANGED inboxVars
  BY <1>1 DEF inboxVars, InboxInvariant, InboxTypeOK, WithdrawnExpired, MadeIsNew,
     ReadRowExists
<1>2. CASE InboxNext
  BY <1>2, NotifyKeeps, CreateNotificationKeeps, CreateRecipientsKeeps, CancelKeeps,
     GetObjectKeeps, SaveRecipientKeeps, UpdateDeliveriesKeeps, MarkAllKeeps,
     UpdateRecipientsKeeps, ArchiveAllKeeps, CleanupKeeps, DeleteRecipientsKeeps,
     DeleteNotificationsKeeps, GiveUpKeeps, TimePassesKeeps DEF InboxNext
<1> QED
  BY <1>1, <1>2

\* The rows of the inbox and the requests are well typed, and requests in progress
\* agree with the rows they are about.
THEOREM InboxInvariance == InboxSpec => []InboxInvariant
  BY InboxStart, InboxStep, PTL DEF InboxSpec

\* Nobody sees a cancelled notification again, whatever requests read it before.
THEOREM InboxHides == InboxSpec => []CancelledStaysHidden
<1>1. InboxInvariant => CancelledStaysHidden
  BY DEF InboxInvariant, WithdrawnExpired, CancelledStaysHidden, Visible
<1> QED
  BY <1>1, InboxInvariance, PTL

-----------------------------------------------------------------------------
(* DeliveryOutbox.                                                         *)

USE DEF Never, NoOne

-----------------------------------------------------------------------------
(* Helpers *)

\* The delay before another attempt is a natural number of seconds.
LEMMA BackoffType ==
    ASSUME NEW n PROVE Backoff(n) \in Nat
  BY OutboxAssumption DEF Backoff

\* Sets of workers are finite; adding and removing one counts one.
LEMMA WorkerSets ==
    ASSUME NEW S \in SUBSET Workers, NEW w \in Workers
    PROVE  /\ Cardinality(S) \in Nat
           /\ w \notin S => Cardinality(S \cup {w}) = Cardinality(S) + 1
           /\ w \in S => Cardinality(S \ {w}) = Cardinality(S) - 1
  <1>1. IsFiniteSet(S) /\ Cardinality(S) \in Nat
    BY OutboxAssumption, FS_Subset, FS_CardinalityType
  <1> QED BY <1>1, FS_AddElement, FS_RemoveElement

\* Continue ends a run or goes on with the list, and touches no other worker.
LEMMA ContinueFacts ==
    ASSUME TypeOK, NEW w \in Workers, Continue(w)
    PROVE  /\ job' \in [Workers -> Job]
           /\ job'[w].stage \in {"idle", "running"}
           /\ \A v \in Workers \ {w} : job'[v] = job[v]
  BY DEF TypeOK, Continue, Idle, Running, Job, Stages, Statuses, Deliverable,
         Retriable

\* An UPDATE that clears the lock keeps the row well typed.
LEMMA UnlockedType ==
    ASSUME TypeOK, NEW d \in Deliveries, NEW s \in Statuses, NEW n \in Nat
    PROVE  Unlocked(d, s, n) \in Row
  BY DEF TypeOK, Unlocked, Row

-----------------------------------------------------------------------------
(* Types *)

\* Every initial state is well typed, and its workers are idle.
LEMMA InitTypes ==
    Init => TypeOK /\ JobsFit
  <1> SUFFICES ASSUME Init PROVE TypeOK /\ JobsFit
    OBVIOUS
  <1>1. PICK scheduled \in [Deliveries -> Schedules],
             status \in [Deliveries -> {"PENDING", "SKIPPED"}] :
          /\ row = [d \in Deliveries |->
                      [status |-> status[d], attempts |-> 0,
                       scheduled |-> scheduled[d], next |-> scheduled[d],
                       lockedAt |-> Never]]
          /\ callbacks = IF Inline
                         THEN {{d \in Deliveries : status[d] = "PENDING"}}
                         ELSE {}
          /\ allowed = [d \in Deliveries |->
                          IF status[d] = "PENDING" THEN 1 ELSE 0]
    BY DEF Init
  <1>2. row \in [Deliveries -> Row]
    BY <1>1, OutboxAssumption DEF Row, Statuses, Deliverable, Retriable
  <1>3. job \in [Workers -> Job] /\ JobsFit
    BY DEF Init, Idle, Job, Stages, Statuses, Deliverable, Retriable, JobsFit
  <1>4. callbacks \subseteq SUBSET Deliveries
    BY <1>1
  <1>5. allowed \in [Deliveries -> Nat]
    BY <1>1
  <1>6. /\ now \in Nat /\ expires \in Nat \cup {Never} /\ cancelled \in BOOLEAN
        /\ retry \in [Admins -> [d: Deliveries \cup {NoOne}, at: Nat]]
        /\ retried \in [Deliveries -> Nat]
        /\ acknowledged \in [Deliveries -> Nat]
        /\ refused \subseteq Deliveries /\ inHand \subseteq Deliveries
    BY OutboxAssumption DEF Init
  <1> QED BY <1>2, <1>3, <1>4, <1>5, <1>6 DEF TypeOK

\* Every action of a worker keeps the types, and leaves it with a delivery at
\* the stages that have one.
LEMMA WorkerTypes ==
    ASSUME TypeOK, JobsFit, NEW w \in Workers, WorkerStep(w) \/ Crash(w)
    PROVE  TypeOK' /\ JobsFit'
  <1> USE DEF TypeOK, JobsFit
  <1>0. /\ \A s \in {"PENDING", "RETRYING", "FAILED", "CANCELLED", "SKIPPED",
                     "PROCESSING", "SENT"} : s \in Statuses
        /\ {"running", "idle"} \cap {"claiming", "sending", "accepted", "failing"} = {}
    BY DEF Statuses, Deliverable, Retriable
  <1>1. CASE StartInline(w)
    <2>1. PICK ids \in callbacks : job' = [job EXCEPT ![w] = Running(ids)]
      BY <1>1 DEF StartInline
    <2>2. Running(ids) \in Job
      BY <1>0 DEF Running, Job, Stages
    <2>3. job' \in [Workers -> Job] /\ JobsFit'
      BY <2>1, <2>2 DEF Running
    <2>4. callbacks' \subseteq SUBSET Deliveries
      BY <1>1 DEF StartInline
    <2> QED BY <1>1, <2>3, <2>4 DEF StartInline
  <1>2. CASE ReleaseStale(w)
    <2>1. row' \in [Deliveries -> Row]
      BY <1>0, <1>2, UnlockedType DEF ReleaseStale
    <2>2. allowed' \in [Deliveries -> Nat]
      BY <1>2 DEF ReleaseStale
    <2>3. job' \in [Workers -> Job] /\ JobsFit'
      BY <1>2 DEF ReleaseStale, Moved, Job, Stages
    <2> QED BY <1>2, <2>1, <2>2, <2>3 DEF ReleaseStale
  <1>3. CASE Select(w)
    <2>1. PICK ids \in SUBSET Due :
            job' = [job EXCEPT ![w] = IF ids = {} THEN Idle ELSE Running(ids)]
      BY <1>3 DEF Select
    <2>2. ids \subseteq Deliveries
      BY DEF Due
    <2>3. Running(ids) \in Job /\ Idle \in Job
      BY <1>0, <2>2 DEF Running, Idle, Job, Stages
    <2>4. job' \in [Workers -> Job] /\ JobsFit'
      BY <2>1, <2>3 DEF Running, Idle
    <2> QED BY <1>3, <2>4 DEF Select
  <1>4. CASE BeginClaim(w)
    <2>1. CASE job[w].todo = {}
      <3>1. job' = [job EXCEPT ![w] = Idle]
        BY <1>4, <2>1 DEF BeginClaim
      <3>2. Idle \in Job
        BY <1>0 DEF Idle, Job, Stages
      <3>3. job' \in [Workers -> Job] /\ JobsFit'
        BY <3>1, <3>2 DEF Idle
      <3> QED BY <1>4, <3>3 DEF BeginClaim
    <2>2. CASE job[w].todo # {}
      <3>1. PICK d \in job[w].todo : job' = [job EXCEPT ![w] =
               [stage |-> "claiming", todo |-> job[w].todo \ {d},
                d |-> d, at |-> now, status |-> "PENDING", next |-> 0]]
        BY <1>4, <2>2 DEF BeginClaim
      <3>2. d \in Deliveries /\ job[w].todo \subseteq Deliveries
        BY DEF Job
      <3>3. job' \in [Workers -> Job]
        BY <1>0, <3>1, <3>2 DEF Job, Stages
      <3>4. JobsFit'
        BY <3>1, <3>2
      <3> QED BY <1>4, <3>3, <3>4 DEF BeginClaim
    <2> QED BY <2>1, <2>2
  <1>5. ASSUME Continue(w) PROVE job' \in [Workers -> Job] /\ JobsFit'
    BY <1>0, <1>5, ContinueFacts
  <1>6. CASE ClaimNothing(w)
    BY <1>5, <1>6 DEF ClaimNothing
  <1>7. ASSUME job[w].d \in Deliveries
        PROVE  /\ row[job[w].d] \in Row
               /\ row[job[w].d].next \in Nat
               /\ row[job[w].d].attempts \in Nat
               /\ row[job[w].d].scheduled \in Nat
    BY <1>7 DEF Row
  <1>8. CASE ClaimExpired(w)
    <2>1. job[w].d \in Deliveries
      BY <1>8 DEF ClaimExpired
    <2>2. Unlocked(job[w].d, "CANCELLED", row[job[w].d].next) \in Row
      BY <1>0, <1>7, <2>1, UnlockedType
    <2>3. row' \in [Deliveries -> Row]
      BY <1>8, <2>1, <2>2 DEF ClaimExpired
    <2> QED BY <1>5, <1>8, <2>3 DEF ClaimExpired
  <1>9. CASE Claim(w)
    <2>1. job[w].d \in Deliveries /\ job[w].at \in Nat
      BY <1>9 DEF Claim, Job
    <2>2. row' \in [Deliveries -> Row]
      BY <1>0, <1>7, <1>9, <2>1 DEF Claim, Row
    <2>3. job' \in [Workers -> Job] /\ JobsFit'
      BY <1>9, <2>1 DEF Claim, Moved, Job, Stages
    <2> QED BY <1>9, <2>2, <2>3 DEF Claim
  <1>10. CASE SendAccepted(w)
    <2>1. job[w].d \in Deliveries
      BY <1>10 DEF SendAccepted
    <2>2. job' \in [Workers -> Job] /\ JobsFit'
      BY <1>10, <2>1 DEF SendAccepted, Moved, Job, Stages
    <2>3. acknowledged' \in [Deliveries -> Nat]
      BY <1>10, <2>1 DEF SendAccepted
    <2> QED BY <1>10, <2>2, <2>3 DEF SendAccepted
  <1>11. CASE MarkSuccess(w)
    <2>1. job[w].d \in Deliveries
      BY <1>11 DEF MarkSuccess
    <2>2. Unlocked(job[w].d, "SENT", row[job[w].d].next) \in Row
      BY <1>0, <1>7, <2>1, UnlockedType
    <2>3. row' \in [Deliveries -> Row]
      BY <1>11, <2>1, <2>2 DEF MarkSuccess
    <2> QED BY <1>5, <1>11, <2>3 DEF MarkSuccess
  <1>12. ASSUME NEW permanent \in BOOLEAN, SendRaises(w, permanent)
         PROVE  TypeOK' /\ JobsFit'
    <2>1. job[w].d \in Deliveries
      BY <1>12 DEF SendRaises
    <2>2. now + Backoff(row[job[w].d].attempts) \in Nat
      BY BackoffType
    <2>3. PICK s \in {"RETRYING", "FAILED"}, n \in Nat :
            job' = [job EXCEPT ![w] =
              [stage |-> "failing", todo |-> job[w].todo, d |-> job[w].d,
               at |-> job[w].at, status |-> s, next |-> n]]
      <3>1. CASE ~permanent /\ row[job[w].d].attempts < MaxAttempts
        <4>1. job' = [job EXCEPT ![w] =
                [stage |-> "failing", todo |-> job[w].todo, d |-> job[w].d,
                 at |-> job[w].at, status |-> "RETRYING",
                 next |-> now + Backoff(row[job[w].d].attempts)]]
          BY <1>12, <3>1 DEF SendRaises
        <4> QED BY <2>2, <4>1
      <3>2. CASE ~(~permanent /\ row[job[w].d].attempts < MaxAttempts)
        <4>1. job' = [job EXCEPT ![w] =
                [stage |-> "failing", todo |-> job[w].todo, d |-> job[w].d,
                 at |-> job[w].at, status |-> "FAILED",
                 next |-> row[job[w].d].next]]
          BY <1>12, <3>2 DEF SendRaises
        <4> QED BY <1>7, <2>1, <4>1
      <3> QED BY <3>1, <3>2
    <2>4. job' \in [Workers -> Job] /\ JobsFit'
      BY <1>0, <2>1, <2>3 DEF Job, Stages
    <2>5. refused' \subseteq Deliveries
      BY <1>12, <2>1 DEF SendRaises
    <2> QED BY <1>12, <2>4, <2>5 DEF SendRaises
  <1>13. CASE MarkFailure(w)
    <2>1. job[w].d \in Deliveries /\ job[w].next \in Nat
          /\ job[w].status \in {"RETRYING", "FAILED"}
      BY <1>13 DEF MarkFailure, Job
    <2>2. Unlocked(job[w].d, job[w].status, job[w].next) \in Row
      BY <1>0, <2>1, UnlockedType
    <2>3. row' \in [Deliveries -> Row]
      BY <1>13, <2>1, <2>2 DEF MarkFailure
    <2> QED BY <1>5, <1>13, <2>3 DEF MarkFailure
  <1>14. CASE Crash(w)
    <2>1. Idle \in Job
      BY <1>0 DEF Idle, Job, Stages
    <2>2. job' \in [Workers -> Job] /\ JobsFit'
      BY <1>14, <2>1 DEF Crash, Idle
    <2> QED BY <1>14, <2>2 DEF Crash
  <1> QED BY <1>1, <1>2, <1>3, <1>4, <1>6, <1>8, <1>9, <1>10, <1>11, <1>12,
             <1>13, <1>14 DEF WorkerStep

\* The clock, administrators and cancellation keep the types.
LEMMA OtherTypes ==
    ASSUME TypeOK, JobsFit,
           \/ Tick
           \/ \E a \in Admins : SaveRetry(a) \/ \E d \in Deliveries : BeginRetry(a, d)
           \/ CancelNotification
           \/ UNCHANGED vars
    PROVE  TypeOK' /\ JobsFit'
  <1> USE DEF TypeOK, JobsFit
  <1>0. {"PENDING", "CANCELLED"} \subseteq Statuses
    BY DEF Statuses, Deliverable, Retriable
  <1>1. CASE Tick
    BY <1>1 DEF Tick
  <1>2. ASSUME NEW a \in Admins, SaveRetry(a) PROVE TypeOK' /\ JobsFit'
    <2>1. retry[a].d \in Deliveries /\ retry[a].at \in Nat
      BY <1>2 DEF SaveRetry
    <2>2. row' \in [Deliveries -> Row]
      BY <1>0, <1>2, <2>1, UnlockedType DEF SaveRetry
    <2>3. allowed' \in [Deliveries -> Nat]
      BY <1>2, <2>1 DEF SaveRetry
    <2>4. callbacks' \subseteq SUBSET Deliveries
      BY <1>2, <2>1 DEF SaveRetry
    <2>5. retry' \in [Admins -> [d: Deliveries \cup {NoOne}, at: Nat]]
      BY <1>2 DEF SaveRetry
    <2> QED BY <1>2, <2>2, <2>3, <2>4, <2>5 DEF SaveRetry
  <1>3. ASSUME NEW a \in Admins, NEW d \in Deliveries, BeginRetry(a, d)
        PROVE  TypeOK' /\ JobsFit'
    <2>1. retry' \in [Admins -> [d: Deliveries \cup {NoOne}, at: Nat]]
      BY <1>3 DEF BeginRetry
    <2>2. retried' \in [Deliveries -> Nat]
      BY <1>3 DEF BeginRetry
    <2> QED BY <1>3, <2>1, <2>2 DEF BeginRetry
  <1>4. CASE CancelNotification
    <2>1. \A d \in Deliveries : row[d].next \in Nat
      BY DEF Row
    <2>2. row' \in [Deliveries -> Row]
      BY <1>0, <1>4, <2>1, UnlockedType DEF CancelNotification
    <2>3. inHand' \subseteq Deliveries /\ expires' \in Nat /\ cancelled' = TRUE
      BY <1>4 DEF CancelNotification
    <2> QED BY <1>4, <2>2, <2>3 DEF CancelNotification
  <1>5. CASE UNCHANGED vars
    BY <1>5 DEF vars
  <1> QED BY <1>1, <1>2, <1>3, <1>4, <1>5

-----------------------------------------------------------------------------
(* Copies *)

\* A step of one worker changes the attempts at a delivery by that worker only.
LEMMA TryingCount ==
    ASSUME NEW w \in Workers, NEW d \in Deliveries,
           \A v \in Workers \ {w} : job'[v] = job[v]
    PROVE  /\ Cardinality(Trying(d)) \in Nat
           /\ Cardinality(Trying(d)') \in Nat
           /\ (w \in Trying(d) <=> w \in Trying(d)')
                => Cardinality(Trying(d)') = Cardinality(Trying(d))
           /\ w \in Trying(d) /\ w \notin Trying(d)'
                => Cardinality(Trying(d)') = Cardinality(Trying(d)) - 1
           /\ w \notin Trying(d) /\ w \in Trying(d)'
                => Cardinality(Trying(d)') = Cardinality(Trying(d)) + 1
  <1> DEFINE S == Trying(d)
             T == Trying(d)'
  <1>1. S \in SUBSET Workers /\ T \in SUBSET Workers
    BY DEF Trying
  <1>2. \A v \in Workers \ {w} : v \in S <=> v \in T
    BY DEF Trying
  <1>3. (w \in S <=> w \in T) => T = S
    BY <1>1, <1>2
  <1>4. w \in S /\ w \notin T => T = S \ {w}
    BY <1>1, <1>2
  <1>5. w \notin S /\ w \in T => T = S \cup {w}
    BY <1>1, <1>2
  <1> HIDE DEF S, T
  <1>6. /\ Cardinality(S) \in Nat /\ Cardinality(T) \in Nat
        /\ (w \in S <=> w \in T) => Cardinality(T) = Cardinality(S)
        /\ w \in S /\ w \notin T => Cardinality(T) = Cardinality(S) - 1
        /\ w \notin S /\ w \in T => Cardinality(T) = Cardinality(S) + 1
    BY <1>1, <1>3, <1>4, <1>5, WorkerSets
  <1> QED BY <1>6 DEF S, T

\* Counts are naturals.
LEMMA Counts ==
    ASSUME TypeOK, NEW d \in Deliveries
    PROVE  /\ acknowledged[d] \in Nat /\ allowed[d] \in Nat
           /\ Waiting(d) \in 0..1
  BY DEF TypeOK, Waiting

\* A worker's step spends the reasons it consumes and adds those it creates.
LEMMA WorkerAllowance ==
    ASSUME TypeOK, JobsFit, AllowanceCovers, NEW w \in Workers,
           WorkerStep(w) \/ Crash(w)
    PROVE  AllowanceCovers'
  <1> SUFFICES ASSUME NEW d \in Deliveries
               PROVE  acknowledged'[d] + Cardinality(Trying(d)') + Waiting(d)'
                        <= allowed'[d]
    BY DEF AllowanceCovers
  <1>0. /\ acknowledged[d] + Cardinality(Trying(d)) + Waiting(d) <= allowed[d]
        /\ acknowledged[d] \in Nat /\ allowed[d] \in Nat
        /\ Waiting(d) \in 0..1
    BY Counts DEF AllowanceCovers
  <1>1. ASSUME job[w].stage \notin {"sending", "failing"} PROVE w \notin Trying(d)
    BY <1>1 DEF Trying
  <1>2. ASSUME job'[w].stage \notin {"sending", "failing"} PROVE w \notin Trying(d)'
    BY <1>2 DEF Trying
  <1>3. ASSUME UNCHANGED <<row, acknowledged, allowed>>,
               \A v \in Workers \ {w} : job'[v] = job[v],
               job'[w].stage \notin {"sending", "failing"}
        PROVE  acknowledged'[d] + Cardinality(Trying(d)') + Waiting(d)' <= allowed'[d]
    <2>1. Waiting(d)' = Waiting(d)
      BY <1>3 DEF Waiting
    <2>2. Cardinality(Trying(d)) \in Nat /\ Cardinality(Trying(d)') \in Nat
          /\ Cardinality(Trying(d)') <= Cardinality(Trying(d))
      BY <1>2, <1>3, TryingCount
    <2> QED BY <1>0, <1>3, <2>1, <2>2
  <1>4. CASE StartInline(w)
    <2>1. PICK ids \in callbacks : job' = [job EXCEPT ![w] = Running(ids)]
      BY <1>4 DEF StartInline
    <2>2. job'[w].stage = "running" /\ \A v \in Workers \ {w} : job'[v] = job[v]
      BY <2>1 DEF Running, TypeOK
    <2>3. UNCHANGED <<row, acknowledged, allowed>>
      BY <1>4 DEF StartInline
    <2> QED BY <1>3, <2>2, <2>3
  <1>5. CASE ReleaseStale(w)
    <2>1. /\ job'[w].stage = "selecting" /\ job[w].stage = "idle"
          /\ \A v \in Workers \ {w} : job'[v] = job[v]
      BY <1>5 DEF ReleaseStale, Moved, TypeOK
    <2>2. Cardinality(Trying(d)) \in Nat
          /\ Cardinality(Trying(d)') = Cardinality(Trying(d))
      BY <1>1, <1>2, <2>1, TryingCount
    <2>3. acknowledged' = acknowledged
      BY <1>5 DEF ReleaseStale
    <2>4. CASE StaleLock(d)
      <3>1. Waiting(d) = 0 /\ Waiting(d)' = 1 /\ allowed'[d] = allowed[d] + 1
        BY <1>5, <2>4 DEF ReleaseStale, StaleLock, Waiting, Unlocked, Deliverable
      <3> QED BY <1>0, <2>2, <2>3, <3>1
    <2>5. CASE ~StaleLock(d)
      <3>1. Waiting(d)' = Waiting(d) /\ allowed'[d] = allowed[d]
        BY <1>5, <2>5 DEF ReleaseStale, Waiting
      <3> QED BY <1>0, <2>2, <2>3, <3>1
    <2> QED BY <2>4, <2>5
  <1>6. CASE Select(w)
    <2>1. PICK ids \in SUBSET Due :
            job' = [job EXCEPT ![w] = IF ids = {} THEN Idle ELSE Running(ids)]
      BY <1>6 DEF Select
    <2>2. job'[w].stage \in {"idle", "running"}
          /\ \A v \in Workers \ {w} : job'[v] = job[v]
      BY <2>1 DEF Running, Idle, TypeOK
    <2>3. UNCHANGED <<row, acknowledged, allowed>>
      BY <1>6 DEF Select
    <2> QED BY <1>3, <2>2, <2>3
  <1>7. CASE BeginClaim(w)
    <2>1. job'[w].stage \in {"idle", "claiming"}
          /\ \A v \in Workers \ {w} : job'[v] = job[v]
      BY <1>7 DEF BeginClaim, Idle, TypeOK
    <2>2. UNCHANGED <<row, acknowledged, allowed>>
      BY <1>7 DEF BeginClaim
    <2> QED BY <1>3, <2>1, <2>2
  <1>8. CASE ClaimNothing(w)
    <2>1. job'[w].stage \in {"idle", "running"}
          /\ \A v \in Workers \ {w} : job'[v] = job[v]
      BY <1>8, ContinueFacts DEF ClaimNothing
    <2>2. UNCHANGED <<row, acknowledged, allowed>>
      BY <1>8 DEF ClaimNothing
    <2> QED BY <1>3, <2>1, <2>2
  \* A step that settles the row of its delivery and goes on.
  <1>9. ASSUME Continue(w), UNCHANGED <<acknowledged, allowed>>,
               NEW s \in Statuses, NEW n, job[w].d \in Deliveries,
               row' = [row EXCEPT ![job[w].d] = Unlocked(job[w].d, s, n)],
               s \notin Deliverable \/ job[w].stage \in {"sending", "failing"}
        PROVE  acknowledged'[d] + Cardinality(Trying(d)') + Waiting(d)' <= allowed'[d]
    <2>1. job'[w].stage \in {"idle", "running"}
          /\ \A v \in Workers \ {w} : job'[v] = job[v]
      BY <1>9, ContinueFacts
    <2>2. /\ Cardinality(Trying(d)) \in Nat /\ Cardinality(Trying(d)') \in Nat
          /\ Cardinality(Trying(d)') <= Cardinality(Trying(d))
          /\ w \in Trying(d) => Cardinality(Trying(d)') = Cardinality(Trying(d)) - 1
      BY <1>2, <2>1, TryingCount
    <2>3. CASE d # job[w].d
      <3>1. Waiting(d)' = Waiting(d)
        BY <1>9, <2>3 DEF Waiting, TypeOK
      <3> QED BY <1>0, <1>9, <2>2, <3>1
    <2>4. CASE d = job[w].d /\ s \notin Deliverable
      <3>1. row'[d].status = s
        BY <1>9, <2>4 DEF TypeOK, Unlocked
      <3>2. Waiting(d)' = 0
        BY <2>4, <3>1 DEF Waiting
      <3> QED BY <1>0, <1>9, <2>2, <3>2
    <2>5. CASE d = job[w].d /\ job[w].stage \in {"sending", "failing"}
      <3>1. w \in Trying(d)
        BY <2>5 DEF Trying
      <3>2. Waiting(d)' \in 0..1
        BY DEF Waiting
      <3> QED BY <1>0, <1>9, <2>2, <3>1, <3>2
    <2> QED BY <1>9, <2>3, <2>4, <2>5
  <1>10. {"CANCELLED", "SENT"} \subseteq Statuses \ Deliverable
    BY DEF Statuses, Deliverable, Retriable
  <1>11. CASE ClaimExpired(w)
    <2>1. /\ Continue(w) /\ UNCHANGED <<acknowledged, allowed>>
          /\ job[w].d \in Deliveries
          /\ row' = [row EXCEPT ![job[w].d] =
                       Unlocked(job[w].d, "CANCELLED", row[job[w].d].next)]
      BY <1>11 DEF ClaimExpired, JobsFit
    <2> QED BY <1>9, <1>10, <2>1
  <1>12. CASE Claim(w)
    <2> DEFINE c == job[w].d
    <2>1. c \in Deliveries /\ job[w].stage = "claiming"
      BY <1>12 DEF Claim, JobsFit
    <2>2. row[c].status \in Deliverable
      BY <1>12 DEF Claim, Unclaimable
    <2>3. row'[c].status = "PROCESSING" /\ \A e \in Deliveries \ {c} : row'[e] = row[e]
      BY <1>12, <2>1 DEF Claim, TypeOK
    <2>4. /\ job'[w].stage = "sending" /\ job'[w].d = c
          /\ \A v \in Workers \ {w} : job'[v] = job[v]
      BY <1>12 DEF Claim, Moved, TypeOK
    <2>5. acknowledged' = acknowledged /\ allowed' = allowed
      BY <1>12 DEF Claim
    <2>6. w \notin Trying(d)
      BY <1>1, <2>1
    <2>7. CASE d = c
      <3>1. Waiting(d) = 1 /\ Waiting(d)' = 0
        BY <2>2, <2>3, <2>7 DEF Waiting, Deliverable
      <3>2. w \in Trying(d)'
        BY <2>4, <2>7 DEF Trying
      <3>3. Cardinality(Trying(d)) \in Nat
            /\ Cardinality(Trying(d)') = Cardinality(Trying(d)) + 1
        BY <2>4, <2>6, <3>2, TryingCount
      <3> QED BY <1>0, <2>5, <3>1, <3>3
    <2>8. CASE d # c
      <3>1. Waiting(d)' = Waiting(d)
        BY <2>3, <2>8 DEF Waiting
      <3>2. w \notin Trying(d)'
        BY <2>4, <2>8 DEF Trying
      <3>3. Cardinality(Trying(d)) \in Nat
            /\ Cardinality(Trying(d)') = Cardinality(Trying(d))
        BY <2>4, <2>6, <3>2, TryingCount
      <3> QED BY <1>0, <2>5, <3>1, <3>3
    <2> QED BY <2>7, <2>8
  <1>13. CASE SendAccepted(w)
    <2>1. /\ job'[w].stage = "accepted" /\ job[w].stage = "sending"
          /\ \A v \in Workers \ {w} : job'[v] = job[v]
      BY <1>13 DEF SendAccepted, Moved, TypeOK
    <2>2. job[w].d \in Deliveries /\ w \notin Trying(d)'
      BY <1>2, <2>1 DEF JobsFit
    <2>3. Waiting(d)' = Waiting(d) /\ allowed' = allowed
      BY <1>13 DEF SendAccepted, Waiting
    <2>4. CASE d = job[w].d
      <3>1. w \in Trying(d)
        BY <2>1, <2>4 DEF Trying
      <3>2. Cardinality(Trying(d)) \in Nat
            /\ Cardinality(Trying(d)') = Cardinality(Trying(d)) - 1
        BY <2>1, <2>2, <3>1, TryingCount
      <3>3. acknowledged'[d] = acknowledged[d] + 1
        BY <1>13, <2>4 DEF SendAccepted, TypeOK
      <3> QED BY <1>0, <2>3, <3>2, <3>3
    <2>5. CASE d # job[w].d
      <3>1. w \notin Trying(d)
        BY <2>5 DEF Trying
      <3>2. Cardinality(Trying(d)) \in Nat
            /\ Cardinality(Trying(d)') = Cardinality(Trying(d))
        BY <2>1, <2>2, <3>1, TryingCount
      <3>3. acknowledged'[d] = acknowledged[d]
        BY <1>13, <2>5 DEF SendAccepted, TypeOK
      <3> QED BY <1>0, <2>3, <3>2, <3>3
    <2> QED BY <2>4, <2>5
  <1>14. CASE MarkSuccess(w)
    <2>1. /\ Continue(w) /\ UNCHANGED <<acknowledged, allowed>>
          /\ job[w].d \in Deliveries
          /\ row' = [row EXCEPT ![job[w].d] =
                       Unlocked(job[w].d, "SENT", row[job[w].d].next)]
      BY <1>14 DEF MarkSuccess, JobsFit
    <2> QED BY <1>9, <1>10, <2>1
  <1>15. ASSUME NEW permanent \in BOOLEAN, SendRaises(w, permanent)
         PROVE  acknowledged'[d] + Cardinality(Trying(d)') + Waiting(d)' <= allowed'[d]
    <2>1. /\ job'[w].stage = "failing" /\ job[w].stage = "sending"
          /\ job'[w].d = job[w].d
          /\ \A v \in Workers \ {w} : job'[v] = job[v]
      BY <1>15 DEF SendRaises, TypeOK
    <2>2. w \in Trying(d) <=> w \in Trying(d)'
      BY <2>1 DEF Trying
    <2>3. Cardinality(Trying(d)) \in Nat
          /\ Cardinality(Trying(d)') = Cardinality(Trying(d))
      BY <2>1, <2>2, TryingCount
    <2>4. Waiting(d)' = Waiting(d) /\ allowed' = allowed /\ acknowledged' = acknowledged
      BY <1>15 DEF SendRaises, Waiting
    <2> QED BY <1>0, <2>3, <2>4
  <1>16. CASE MarkFailure(w)
    <2>1. /\ Continue(w) /\ UNCHANGED <<acknowledged, allowed>>
          /\ job[w].d \in Deliveries /\ job[w].stage = "failing"
          /\ row' = [row EXCEPT ![job[w].d] =
                       Unlocked(job[w].d, job[w].status, job[w].next)]
      BY <1>16 DEF MarkFailure, JobsFit
    <2>2. job[w].status \in Statuses
      BY DEF TypeOK, Job
    <2> QED BY <1>9, <2>1, <2>2
  <1>17. CASE Crash(w)
    <2>1. job'[w].stage = "idle" /\ \A v \in Workers \ {w} : job'[v] = job[v]
      BY <1>17 DEF Crash, Idle, TypeOK
    <2>2. UNCHANGED <<row, acknowledged, allowed>>
      BY <1>17 DEF Crash
    <2> QED BY <1>3, <2>1, <2>2
  <1> QED BY <1>4, <1>5, <1>6, <1>7, <1>8, <1>11, <1>12, <1>13, <1>14, <1>15,
             <1>16, <1>17 DEF WorkerStep

\* A manual retry brings its own reason; cancellation only removes.
LEMMA OtherAllowance ==
    ASSUME TypeOK, JobsFit, AllowanceCovers,
           \/ Tick
           \/ \E a \in Admins : SaveRetry(a) \/ \E d \in Deliveries : BeginRetry(a, d)
           \/ CancelNotification
           \/ UNCHANGED vars
    PROVE  AllowanceCovers'
  <1> SUFFICES ASSUME NEW d \in Deliveries
               PROVE  acknowledged'[d] + Cardinality(Trying(d)') + Waiting(d)'
                        <= allowed'[d]
    BY DEF AllowanceCovers
  <1>1. acknowledged' = acknowledged /\ job' = job
    BY DEF Tick, SaveRetry, BeginRetry, CancelNotification, vars
  <1>2. Trying(d)' = Trying(d)
    BY <1>1 DEF Trying
  <1>3. Trying(d) \in SUBSET Workers
    BY DEF Trying
  <1>4. Cardinality(Trying(d)) \in Nat
    BY <1>3, OutboxAssumption, FS_Subset, FS_CardinalityType
  <1>5. /\ acknowledged[d] + Cardinality(Trying(d)) + Waiting(d) <= allowed[d]
        /\ acknowledged[d] \in Nat /\ allowed[d] \in Nat /\ Waiting(d) \in 0..1
    BY Counts DEF AllowanceCovers
  <1>6. ASSUME UNCHANGED <<row, allowed>>
        PROVE  Waiting(d)' = Waiting(d) /\ allowed'[d] = allowed[d]
    BY <1>6 DEF Waiting
  <1>7. ASSUME NEW a \in Admins, SaveRetry(a)
        PROVE  \/ Waiting(d)' = Waiting(d) /\ allowed'[d] = allowed[d]
               \/ Waiting(d)' \in 0..1 /\ allowed'[d] = allowed[d] + 1
    <2>1. retry[a].d \in Deliveries
      BY <1>7 DEF SaveRetry, TypeOK
    <2>2. CASE d = retry[a].d
      BY <1>7, <2>1, <2>2 DEF SaveRetry, TypeOK, Waiting
    <2>3. CASE d # retry[a].d
      BY <1>7, <2>1, <2>3 DEF SaveRetry, TypeOK, Waiting
    <2> QED BY <2>2, <2>3
  <1>8. ASSUME CancelNotification
        PROVE  Waiting(d)' \in {0, Waiting(d)} /\ allowed'[d] = allowed[d]
    BY <1>8 DEF CancelNotification, Waiting, Unlocked, Deliverable
  <1>9. CASE Tick \/ (\E a \in Admins, e \in Deliveries : BeginRetry(a, e))
             \/ UNCHANGED vars
    <2>1. UNCHANGED <<row, allowed>>
      BY <1>9 DEF Tick, BeginRetry, vars
    <2> QED BY <1>1, <1>2, <1>4, <1>5, <1>6, <2>1
  <1>10. CASE \E a \in Admins : SaveRetry(a)
    BY <1>1, <1>2, <1>4, <1>5, <1>7, <1>10
  <1>11. CASE CancelNotification
    BY <1>1, <1>2, <1>4, <1>5, <1>8, <1>11
  <1> QED BY <1>9, <1>10, <1>11

-----------------------------------------------------------------------------
(* What happens to a row *)

\* What an UPDATE that clears the lock leaves and what it writes.
LEMMA UnlockedFields ==
    ASSUME NEW d, NEW s, NEW n
    PROVE  /\ Unlocked(d, s, n).status = s
           /\ Unlocked(d, s, n).attempts = row[d].attempts
           /\ Unlocked(d, s, n).next = n
  BY DEF Unlocked

\* The ways one delivery can change in one step.
LEMMA RowStep ==
    ASSUME TypeOK, JobsFit, [Next]_vars, NEW d \in Deliveries
    PROVE  \/ row'[d] = row[d]
           \/ row[d].status = "PROCESSING" /\ row'[d] = Unlocked(d, "RETRYING", now)
           \/ \E s \in {"CANCELLED", "SENT"} : row'[d] = Unlocked(d, s, row[d].next)
           \/ \E w \in Workers :
                /\ Claim(w) /\ job[w].d = d
                /\ row'[d].status = "PROCESSING"
                /\ row'[d].attempts = row[d].attempts + 1
           \/ \E w \in Workers :
                /\ job[w].stage = "failing" /\ job[w].d = d
                /\ row'[d] = Unlocked(d, job[w].status, job[w].next)
           \/ \E a \in Admins :
                /\ retry[a].d = d
                /\ row'[d] = Unlocked(d, "PENDING", retry[a].at)
  <1>1. CASE row' = row
    BY <1>1
  <1>2. CASE CancelNotification
    BY <1>2 DEF CancelNotification
  <1>3. ASSUME NEW a \in Admins, SaveRetry(a)
        PROVE  \/ row'[d] = row[d]
               \/ retry[a].d = d /\ row'[d] = Unlocked(d, "PENDING", retry[a].at)
    BY <1>3 DEF SaveRetry, TypeOK
  <1>4. ASSUME NEW w \in Workers, ReleaseStale(w)
        PROVE  \/ row'[d] = row[d]
               \/ row[d].status = "PROCESSING" /\ row'[d] = Unlocked(d, "RETRYING", now)
    BY <1>4 DEF ReleaseStale, StaleLock
  <1>5. ASSUME NEW w \in Workers, ClaimExpired(w)
        PROVE  row'[d] = row[d] \/ row'[d] = Unlocked(d, "CANCELLED", row[d].next)
    BY <1>5 DEF ClaimExpired, TypeOK
  <1>6. ASSUME NEW w \in Workers, MarkSuccess(w)
        PROVE  row'[d] = row[d] \/ row'[d] = Unlocked(d, "SENT", row[d].next)
    BY <1>6 DEF MarkSuccess, TypeOK
  <1>7. ASSUME NEW w \in Workers, MarkFailure(w)
        PROVE  \/ row'[d] = row[d]
               \/ /\ job[w].stage = "failing" /\ job[w].d = d
                  /\ row'[d] = Unlocked(d, job[w].status, job[w].next)
    BY <1>7 DEF MarkFailure, TypeOK
  <1>8. ASSUME NEW w \in Workers, Claim(w)
        PROVE  \/ row'[d] = row[d]
               \/ /\ Claim(w) /\ job[w].d = d
                  /\ row'[d].status = "PROCESSING"
                  /\ row'[d].attempts = row[d].attempts + 1
    <2>1. CASE job[w].d = d
      BY <1>8, <2>1 DEF Claim, TypeOK
    <2>2. CASE job[w].d # d
      BY <1>8, <2>2 DEF Claim, TypeOK
    <2> QED BY <1>8, <2>1, <2>2
  <1>9. \/ row' = row
        \/ CancelNotification
        \/ \E a \in Admins : SaveRetry(a)
        \/ \E w \in Workers : \/ ReleaseStale(w) \/ ClaimExpired(w) \/ Claim(w)
                              \/ MarkSuccess(w) \/ MarkFailure(w)
    BY DEF Next, WorkerStep, vars, Tick, Crash, BeginRetry, StartInline, Select,
           BeginClaim, ClaimNothing, SendAccepted, SendRaises
  <1> QED BY <1>1, <1>2, <1>3, <1>4, <1>5, <1>6, <1>7, <1>8, <1>9

\* Attempts are never forgotten, and neither are permanent errors.
LEMMA Monotone ==
    ASSUME TypeOK, JobsFit, [Next]_vars, NEW d \in Deliveries
    PROVE  /\ row[d].attempts \in Nat
           /\ row'[d].attempts \in {row[d].attempts, row[d].attempts + 1}
           /\ refused \subseteq refused'
  <1>1. row[d].attempts \in Nat
    BY DEF TypeOK, Row
  <1>2. row'[d].attempts \in {row[d].attempts, row[d].attempts + 1}
    <2>1. row[d].attempts + 1 \in Nat
      BY <1>1, SMTT(40)
    <2> QED BY RowStep, UnlockedFields
  <1>3. refused \subseteq refused'
    BY DEF Next, WorkerStep, vars, Tick, Crash, SaveRetry, BeginRetry,
           CancelNotification, StartInline, ReleaseStale, Select, BeginClaim,
           ClaimNothing, ClaimExpired, Claim, SendAccepted, MarkSuccess,
           SendRaises, MarkFailure
  <1> QED BY <1>1, <1>2, <1>3

\* The ways a worker comes to be handling a delivery, or marking it FAILED.
LEMMA JobStep ==
    ASSUME TypeOK, JobsFit, [Next]_vars, NEW w \in Workers, job'[w] # job[w]
    PROVE  \/ job'[w].stage \notin {"sending", "accepted", "failing"}
           \/ Claim(w) /\ job'[w].d = job[w].d /\ job'[w].stage = "sending"
           \/ /\ job[w].stage = "sending" /\ job'[w].d = job[w].d
              /\ job'[w].stage = "accepted"
           \/ \E permanent \in BOOLEAN :
                /\ SendRaises(w, permanent)
                /\ job[w].stage = "sending" /\ job'[w].d = job[w].d
                /\ job'[w].stage = "failing"
  <1>1. ASSUME job' = job PROVE FALSE
    BY <1>1
  <1>2. WorkerStep(w) \/ Crash(w)
    <2>1. ASSUME NEW v \in Workers, WorkerStep(v) \/ Crash(v), v # w PROVE FALSE
      <3>1. ASSUME Continue(v) PROVE FALSE
        BY <2>1, <3>1, ContinueFacts
      <3>2. CASE StartInline(v) \/ Select(v) \/ Crash(v)
        BY <2>1, <3>2 DEF StartInline, Select, Crash, TypeOK
      <3>3. CASE ReleaseStale(v) \/ Claim(v) \/ SendAccepted(v)
        BY <2>1, <3>3 DEF ReleaseStale, Claim, SendAccepted, TypeOK
      <3>4. CASE BeginClaim(v)
        BY <2>1, <3>4 DEF BeginClaim, TypeOK
      <3>5. CASE \E permanent \in BOOLEAN : SendRaises(v, permanent)
        BY <2>1, <3>5 DEF SendRaises, TypeOK
      <3>6. CASE ClaimNothing(v) \/ ClaimExpired(v) \/ MarkSuccess(v) \/ MarkFailure(v)
        BY <3>1, <3>6 DEF ClaimNothing, ClaimExpired, MarkSuccess, MarkFailure
      <3> QED BY <2>1, <3>2, <3>3, <3>4, <3>5, <3>6 DEF WorkerStep
    <2>2. \E v \in Workers : WorkerStep(v) \/ Crash(v)
      BY <1>1 DEF Next, vars, Tick, SaveRetry, BeginRetry, CancelNotification
    <2> QED BY <2>1, <2>2
  <1>3. CASE Continue(w)
    BY <1>3, ContinueFacts
  <1>4. CASE StartInline(w) \/ Select(w) \/ Crash(w) \/ ReleaseStale(w)
    BY <1>4 DEF StartInline, Select, Crash, ReleaseStale, Moved, Running, Idle, TypeOK
  <1>5. CASE BeginClaim(w)
    BY <1>5 DEF BeginClaim, Idle, TypeOK
  <1>6. CASE Claim(w)
    BY <1>6 DEF Claim, Moved, TypeOK
  <1>7. CASE SendAccepted(w)
    BY <1>7 DEF SendAccepted, Moved, TypeOK
  <1>8. ASSUME NEW permanent \in BOOLEAN, SendRaises(w, permanent)
        PROVE  /\ job[w].stage = "sending" /\ job'[w].d = job[w].d
               /\ job'[w].stage = "failing"
    BY <1>8 DEF SendRaises, TypeOK
  <1> QED BY <1>2, <1>3, <1>4, <1>5, <1>6, <1>7, <1>8
          DEF WorkerStep, ClaimNothing, ClaimExpired, MarkSuccess, MarkFailure

-----------------------------------------------------------------------------
(* Giving up *)

\* What was decided when the failure was read stays justified until it is
\* written, however late, because attempts and errors only accumulate.
LEMMA GivingUpStep ==
    ASSUME TypeOK, JobsFit, FailedIsExhausted, GivingUp, [Next]_vars
    PROVE  FailedIsExhausted' /\ GivingUp'
  <1>0. MaxAttempts \in Nat
    BY OutboxAssumption
  <1>1. ASSUME NEW d \in Deliveries, row'[d].status = "FAILED"
        PROVE  d \in refused' \/ row'[d].attempts >= MaxAttempts
    <2>1. \/ row'[d] = row[d]
          \/ \E w \in Workers : job[w].stage = "failing" /\ job[w].d = d
                                /\ job[w].status = "FAILED"
      BY <1>1, RowStep, UnlockedFields
    <2>2. d \in refused \/ row[d].attempts >= MaxAttempts
      BY <1>1, <2>1 DEF FailedIsExhausted, GivingUp
    <2> QED BY <1>0, <2>2, Monotone
  <1>2. ASSUME NEW w \in Workers, job'[w].stage = "failing", job'[w].status = "FAILED"
        PROVE  job'[w].d \in refused' \/ row'[job'[w].d].attempts >= MaxAttempts
    <2>1. CASE job'[w] = job[w]
      <3>1. job[w].d \in Deliveries
        BY <1>2, <2>1 DEF JobsFit
      <3>2. job[w].d \in refused \/ row[job[w].d].attempts >= MaxAttempts
        BY <1>2, <2>1 DEF GivingUp
      <3> QED BY <1>0, <2>1, <3>1, <3>2, Monotone
    <2>2. CASE job'[w] # job[w]
      <3>1. PICK permanent \in BOOLEAN :
              SendRaises(w, permanent) /\ job[w].stage = "sending"
              /\ job'[w].d = job[w].d
        BY <1>2, <2>2, JobStep
      <3> DEFINE d == job[w].d
      <3>2. d \in Deliveries
        BY <3>1 DEF JobsFit
      <3>3. row' = row /\ (permanent => d \in refused')
        BY <3>1 DEF SendRaises
      <3>4. ~(~permanent /\ row[d].attempts < MaxAttempts)
        BY <1>2, <3>1 DEF SendRaises, TypeOK
      <3>5. row[d].attempts \in Nat
        BY <3>2 DEF TypeOK, Row
      <3> QED BY <1>0, <3>1, <3>3, <3>4, <3>5
    <2> QED BY <2>1, <2>2
  <1> QED BY <1>1, <1>2 DEF FailedIsExhausted, GivingUp

-----------------------------------------------------------------------------
(* Cancellation *)

\* No claim takes a delivery that was untouched when its notification was
\* cancelled: before the cancellation's instant it is not due, from that
\* instant on it has expired.
LEMMA NoClaim ==
    ASSUME TypeOK, OutOfReach, cancelled, NEW w \in Workers, Claim(w),
           job[w].d \in Deliveries \ inHand
    PROVE  FALSE
  <1> DEFINE d == job[w].d
  <1>1. row[d].status \in Deliverable /\ DueAt(d, job[w].at) /\ ~ExpiredAt(job[w].at)
    BY DEF Claim, Unclaimable
  <1>2. expires \in Nat /\ row[d].next >= expires
    BY <1>1 DEF OutOfReach, TypeOK
  <1>3. job[w].at \in Nat /\ row[d].next \in Nat
    BY DEF TypeOK, Job, Row
  <1> QED BY <1>1, <1>2, <1>3 DEF DueAt, ExpiredAt

LEMMA OutOfReachStep ==
    ASSUME TypeOK, JobsFit, OutOfReach, [Next]_vars
    PROVE  OutOfReach'
  <1>1. CASE CancelNotification
    <2> SUFFICES ASSUME NEW d \in Deliveries \ inHand'
                 PROVE  /\ row'[d].status # "PROCESSING"
                        /\ row'[d].status \notin Deliverable
                        /\ Held(d)' = {}
                        /\ \A a \in Admins : retry'[a].d # d
      BY <1>1 DEF OutOfReach, CancelNotification, TypeOK
    <2>1. row'[d].status # "PROCESSING" /\ row'[d].status \notin Deliverable
      BY <1>1 DEF CancelNotification, Unlocked, Deliverable
    <2>2. Held(d) = {} /\ \A a \in Admins : retry[a].d # d
      BY <1>1 DEF CancelNotification
    <2>3. Held(d)' = Held(d) /\ retry' = retry
      BY <1>1 DEF CancelNotification, Held
    <2> QED BY <2>1, <2>2, <2>3
  <1>2. CASE ~CancelNotification
    <2> SUFFICES ASSUME cancelled' PROVE OutOfReach'
      BY SMTT(40) DEF OutOfReach
    <2>1. /\ UNCHANGED <<cancelled, expires, inHand>>
          /\ now' \in {now, now + 1}
      BY <1>2 DEF Next, WorkerStep, vars, Tick, Crash, SaveRetry, BeginRetry,
           StartInline, ReleaseStale, Select, BeginClaim, ClaimNothing,
           ClaimExpired, Claim, SendAccepted, MarkSuccess, SendRaises, MarkFailure
    <2>2. expires \in Nat /\ expires \in 0..now /\ now \in Nat
      BY <2>1 DEF OutOfReach, TypeOK
    <2>3. ASSUME NEW d \in Deliveries \ inHand
          PROVE  /\ row'[d].status # "PROCESSING"
                 /\ row'[d].status \in Deliverable => row'[d].next >= expires
      <3>1. /\ row[d].status # "PROCESSING"
            /\ row[d].status \in Deliverable => row[d].next >= expires
            /\ \A w \in Workers : w \notin Held(d)
            /\ \A a \in Admins : retry[a].d = d => retry[a].at >= expires
        BY <2>1 DEF OutOfReach
      <3>2. ~\E w \in Workers : Claim(w) /\ job[w].d = d
        BY <2>1, NoClaim
      <3>3. ~\E w \in Workers : job[w].stage = "failing" /\ job[w].d = d
        BY <3>1 DEF Held
      <3>4. \/ row'[d] = row[d]
            \/ \E s \in {"CANCELLED", "SENT"} : row'[d] = Unlocked(d, s, row[d].next)
            \/ \E a \in Admins : retry[a].d = d
                                 /\ row'[d] = Unlocked(d, "PENDING", retry[a].at)
        BY <3>1, <3>2, <3>3, RowStep
      <3>5. "CANCELLED" \notin Deliverable /\ "SENT" \notin Deliverable
        BY DEF Deliverable
      <3> QED BY <3>1, <3>4, <3>5, UnlockedFields
    <2>4. ASSUME NEW d \in Deliveries \ inHand, NEW w \in Workers
          PROVE  w \notin Held(d)'
      <3>1. w \notin Held(d)
        BY <2>1 DEF OutOfReach
      <3>2. CASE job'[w] = job[w]
        BY <3>1, <3>2 DEF Held
      <3>3. CASE job'[w] # job[w]
        <4>1. SUFFICES ASSUME job'[w].d = d,
                              job'[w].stage \in {"sending", "accepted", "failing"}
                       PROVE  FALSE
          BY DEF Held
        <4>2. \/ Claim(w) /\ job[w].d = d
              \/ job[w].stage = "sending" /\ job[w].d = d
          BY <3>3, <4>1, JobStep
        <4>3. ~(job[w].stage = "sending" /\ job[w].d = d)
          BY <3>1 DEF Held
        <4> QED BY <2>1, <4>2, <4>3, NoClaim
      <3> QED BY <3>2, <3>3
    <2>5. ASSUME NEW d \in Deliveries \ inHand, NEW a \in Admins, retry'[a].d = d
          PROVE  retry'[a].at >= expires
      <3>1. CASE retry' = retry
        BY <2>1, <2>5, <3>1 DEF OutOfReach
      <3>2. ASSUME NEW b \in Admins, SaveRetry(b) PROVE retry'[a].at >= expires
        <4>1. a # b
          BY <2>5, <3>2, OutboxAssumption DEF SaveRetry, TypeOK
        <4>2. retry'[a] = retry[a]
          BY <3>2, <4>1 DEF SaveRetry, TypeOK
        <4> QED BY <2>1, <2>5, <4>2 DEF OutOfReach
      <3>3. ASSUME NEW b \in Admins, NEW e \in Deliveries, BeginRetry(b, e)
            PROVE  retry'[a].at >= expires
        <4>1. CASE a = b
          <5>1. retry'[a].at = now
            BY <3>3, <4>1 DEF BeginRetry, TypeOK
          <5> QED BY <2>2, <5>1
        <4>2. CASE a # b
          <5>1. retry'[a] = retry[a]
            BY <3>3, <4>2 DEF BeginRetry, TypeOK
          <5> QED BY <2>1, <2>5, <5>1 DEF OutOfReach
        <4> QED BY <4>1, <4>2
      <3>4. \/ retry' = retry
            \/ \E b \in Admins : SaveRetry(b)
            \/ \E b \in Admins, e \in Deliveries : BeginRetry(b, e)
        BY <1>2 DEF Next, WorkerStep, vars, Tick, Crash, StartInline,
             ReleaseStale, Select, BeginClaim, ClaimNothing, ClaimExpired, Claim,
             SendAccepted, MarkSuccess, SendRaises, MarkFailure
      <3> QED BY <3>1, <3>2, <3>3, <3>4
    <2> QED BY <2>1, <2>2, <2>3, <2>4, <2>5 DEF OutOfReach
  <1> QED BY <1>1, <1>2

-----------------------------------------------------------------------------
(* Theorems *)

LEMMA InitInv ==
    Init => IInv
  <1> SUFFICES ASSUME Init PROVE IInv
    OBVIOUS
  <1>1. TypeOK /\ JobsFit
    BY InitTypes
  <1>2. AllowanceCovers
    <2> SUFFICES ASSUME NEW d \in Deliveries
                 PROVE  acknowledged[d] + Cardinality(Trying(d)) + Waiting(d)
                          <= allowed[d]
      BY DEF AllowanceCovers
    <2>1. Trying(d) = {}
      BY DEF Trying, Init, Idle
    <2>2. acknowledged[d] = 0 /\ Waiting(d) = allowed[d]
      BY DEF Init, Waiting, Deliverable
    <2>3. Waiting(d) \in 0..1
      BY DEF Waiting
    <2> QED BY <2>1, <2>2, <2>3, FS_EmptySet
  <1>3. FailedIsExhausted
    BY DEF FailedIsExhausted, Init
  <1>4. GivingUp /\ OutOfReach
    BY DEF GivingUp, OutOfReach, Init, Idle
  <1> QED BY <1>1, <1>2, <1>3, <1>4 DEF IInv

\* What workers and administrators rely on holds in every reachable state.
THEOREM Invariance ==
    Spec => []IInv
  <1>1. ASSUME IInv, [Next]_vars PROVE IInv'
    <2>1. TypeOK /\ JobsFit /\ AllowanceCovers /\ FailedIsExhausted /\ GivingUp
          /\ OutOfReach
      BY <1>1 DEF IInv
    <2>2. \/ \E w \in Workers : WorkerStep(w) \/ Crash(w)
          \/ Tick
          \/ \E a \in Admins : SaveRetry(a) \/ \E d \in Deliveries : BeginRetry(a, d)
          \/ CancelNotification
          \/ UNCHANGED vars
      BY <1>1 DEF Next
    <2>3. TypeOK' /\ JobsFit'
      BY <2>1, <2>2, WorkerTypes, OtherTypes
    <2>4. AllowanceCovers'
      BY <2>1, <2>2, WorkerAllowance, OtherAllowance
    <2>5. FailedIsExhausted' /\ GivingUp'
      BY <1>1, <2>1, GivingUpStep
    <2>6. OutOfReach'
      BY <1>1, <2>1, OutOfReachStep
    <2> QED BY <2>3, <2>4, <2>5, <2>6 DEF IInv
  <1> QED BY InitInv, <1>1, PTL DEF Spec

\* Every reachable state is well typed.
THEOREM TypeCorrect ==
    Spec => []TypeOK
  <1>1. IInv => TypeOK
    BY DEF IInv
  <1> QED BY Invariance, <1>1, PTL

\* A second copy of a notification is always explained by a lock that timed
\* out or by a manual retry.
THEOREM CopiesSafe ==
    Spec => []CopiesExplained
  <1>1. IInv => CopiesExplained
    <2> SUFFICES ASSUME IInv, NEW d \in Deliveries
                 PROVE  acknowledged[d] <= allowed[d]
      BY DEF CopiesExplained
    <2>1. Trying(d) \in SUBSET Workers
      BY DEF Trying
    <2>2. Cardinality(Trying(d)) \in Nat
      BY <2>1, OutboxAssumption, FS_Subset, FS_CardinalityType
    <2>3. acknowledged[d] + Cardinality(Trying(d)) + Waiting(d) <= allowed[d]
      BY DEF IInv, AllowanceCovers
    <2> QED BY <2>2, <2>3, Counts DEF IInv
  <1> QED BY Invariance, <1>1, PTL

\* No delivery is given up early.
THEOREM FailureSafe ==
    Spec => []FailedIsExhausted
  <1>1. IInv => FailedIsExhausted
    BY DEF IInv
  <1> QED BY Invariance, <1>1, PTL

\* A delivery untouched when its notification is cancelled is not attempted
\* after that.
THEOREM CancellationSafe ==
    Spec => CancelledIsNotAttempted
  <1>1. ASSUME IInv, [Next]_vars
        PROVE  [\A d \in Deliveries :
                  cancelled /\ d \notin inHand
                    => row'[d].attempts = row[d].attempts]_vars
    <2> SUFFICES ASSUME NEW d \in Deliveries, cancelled, d \notin inHand
                 PROVE  row'[d].attempts = row[d].attempts
      OBVIOUS
    <2>1. TypeOK /\ JobsFit /\ OutOfReach
      BY <1>1 DEF IInv
    <2>2. ~\E w \in Workers : Claim(w) /\ job[w].d = d
      BY <2>1, NoClaim
    <2>3. ~\E w \in Workers : Claim(w) /\ job[w].d = d /\ row'[d].status = "PROCESSING"
      BY <2>2
    <2> QED BY <1>1, <2>1, <2>3, RowStep, UnlockedFields
  <1> QED BY Invariance, <1>1, PTL DEF Spec, CancelledIsNotAttempted

==============================================================================
