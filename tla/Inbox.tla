--------------------------------- MODULE Inbox ---------------------------------
(***************************************************************************)
(* The dashboard side of notifications: notify creates a notification with *)
(* its recipients (notifications/services/notifications.py), the users     *)
(* read, archive and dismiss what they see (NotificationInboxViewSet),     *)
(* senders cancel (scheduling.py) and the cleanup command deletes.         *)
(* DeliveryOutbox models the deliveries by e-mail and WhatsApp.            *)
(*                                                                         *)
(* notify and cancel are transactions.  An inbox request is not: it reads  *)
(* the recipient row, saves the fields it changes, and then updates the    *)
(* dashboard delivery, each statement committed by itself.                 *)
(***************************************************************************)
EXTENDS Integers

CONSTANTS
    Rows,        \* NotificationRecipient rows: a user and a notification
    OwnerOf,     \* the user of each row
    KeyOf,       \* deduplication key of the notification of each row
    Disabled,    \* the users who have disabled the dashboard
    Calls,       \* the calls of notify: their mode and the keys of what they create,
                 \* one in SHARED mode, one for each recipient in INDIVIDUAL mode
    Handlers,    \* requests in progress at a time
    MaxNotify,   \* bounds on the calls of notify and on the requests
    MaxInbox,
    NoNote

Notes == {KeyOf[i] : i \in Rows}
Owners == {OwnerOf[i] : i \in Rows}
RowsOf(n) == {i \in Rows : KeyOf[i] = n}

\* scheduled_at is in the past; expires_at is in the past.
NoteRow == [due : BOOLEAN, expired : BOOLEAN]
InboxRow == [seen : BOOLEAN, read : BOOLEAN, archived : {"NO", "RECENT", "LONG"},
             dismissed : BOOLEAN]

ASSUME InboxAssumption ==
    /\ DOMAIN KeyOf = Rows /\ DOMAIN OwnerOf = Rows
    /\ \A call \in Calls : call.mode \in {"SHARED", "INDIVIDUAL"} /\ call.keys \subseteq Notes
    /\ MaxNotify \in Nat /\ MaxInbox \in Nat
    /\ NoNote \notin NoteRow \cup InboxRow

VARIABLES
    notes,     \* Notification rows by key
    inbox,     \* NotificationRecipient
    dashboard, \* status of the dashboard delivery of each row
    handling,  \* what each request is doing
    notified,  \* how many calls and requests there have been
    asked,
    withdrawn  \* the notifications that have been cancelled

inboxVars == <<notes, inbox, dashboard, handling, notified, asked, withdrawn>>

DashboardStatuses == {"NONE", "SKIPPED", "DELIVERED", "READ", "CANCELLED"}
Operations == {"SEEN", "READ", "UNREAD", "ARCHIVE", "RESTORE", "DISMISS"}
NotHandling == [op |-> "NONE"]

\* Calls of notify, requests on a row that was read, updates and deletions of rows.
Handling ==
    [op : {"NOTIFY"}, mode : {"SHARED", "INDIVIDUAL"}, todo : SUBSET Notes, made : SUBSET Notes]
    \cup [op : Operations, id : Rows, row : InboxRow]
    \cup [op : {"MARK"}, rows : SUBSET Rows, as : {"READ", "DELIVERED"}]
    \cup [op : {"ALL", "DELETE"}, rows : SUBSET Rows]
    \cup {NotHandling, [op |-> "DELETE_NOTES"]}

InboxTypeOK ==
    /\ notes \in [Notes -> NoteRow \cup {NoNote}]
    /\ inbox \in [Rows -> InboxRow \cup {NoNote}]
    /\ dashboard \in [Rows -> DashboardStatuses]
    /\ handling \in [Handlers -> Handling]
    /\ notified \in 0 .. MaxNotify /\ asked \in 0 .. MaxInbox
    /\ withdrawn \subseteq Notes

Handle(c, r) == handling' = [handling EXCEPT ![c] = r]

\* get_queryset returns the row to its user.
Visible(i) ==
    /\ inbox[i] # NoNote
    /\ dashboard[i] \in {"DELIVERED", "READ"}
    /\ notes[KeyOf[i]].due /\ ~notes[KeyOf[i]].expired

-----------------------------------------------------------------------------
(* notify.                                                                 *)

\* In SHARED mode the key is looked up before the transaction.
notify(c, call) ==
    /\ handling[c] = NotHandling /\ notified < MaxNotify
    /\ notified' = notified + 1
    /\ Handle(c, IF call.mode = "SHARED" /\ \E n \in call.keys : notes[n] # NoNote
                 THEN NotHandling
                 ELSE [op |-> "NOTIFY", mode |-> call.mode, todo |-> call.keys, made |-> {}])
    /\ UNCHANGED <<notes, inbox, dashboard, asked, withdrawn>>

\* An INSERT waits for the transaction that has inserted the key, and fails when
\* that one has committed: only INDIVIDUAL mode has looked again.
create_notification(c, n) ==
    /\ handling[c].op = "NOTIFY" /\ n \in handling[c].todo
    /\ \A d \in Handlers \ {c} : handling[d].op = "NOTIFY" => n \notin handling[d].made
    /\ \/ /\ notes[n] = NoNote
          /\ Handle(c, [handling[c] EXCEPT !.todo = @ \ {n}, !.made = @ \cup {n}])
       \/ /\ notes[n] # NoNote
          /\ Handle(c, IF handling[c].mode = "SHARED" THEN NotHandling
                       ELSE [handling[c] EXCEPT !.todo = @ \ {n}])
    /\ UNCHANGED <<notes, inbox, dashboard, notified, asked, withdrawn>>

create_recipients(c) ==
    /\ handling[c].op = "NOTIFY" /\ handling[c].todo = {}
    /\ \E due \in BOOLEAN :
           notes' = [n \in Notes |->
               IF n \in handling[c].made THEN [due |-> due, expired |-> FALSE] ELSE notes[n]]
    /\ LET new == {i \in Rows : KeyOf[i] \in handling[c].made} IN
       /\ inbox' = [i \in Rows |->
              IF i \in new
              THEN [seen |-> FALSE, read |-> FALSE, archived |-> "NO", dismissed |-> FALSE]
              ELSE inbox[i]]
       /\ dashboard' = [i \in Rows |->
              IF i \notin new THEN dashboard[i]
              ELSE IF OwnerOf[i] \in Disabled THEN "SKIPPED" ELSE "DELIVERED"]
    /\ Handle(c, NotHandling)
    /\ UNCHANGED <<notified, asked, withdrawn>>

\* A mutation of cancel_scheduled_notification: only the deliveries are cancelled.
cancel_deliveries(n) ==
    /\ notes[n] # NoNote
    /\ dashboard' = [i \in Rows |->
           IF KeyOf[i] = n /\ dashboard[i] \in {"DELIVERED", "READ"} THEN "CANCELLED"
           ELSE dashboard[i]]
    /\ withdrawn' = withdrawn \cup {n}
    /\ UNCHANGED <<notes, inbox, handling, notified, asked>>

cancel_scheduled_notification(n) ==
    /\ notes[n] # NoNote
    /\ notes' = [notes EXCEPT ![n].expired = TRUE]
    /\ dashboard' = [i \in Rows |->
           IF KeyOf[i] = n /\ dashboard[i] \in {"DELIVERED", "READ"} THEN "CANCELLED"
           ELSE dashboard[i]]
    /\ withdrawn' = withdrawn \cup {n}
    /\ UNCHANGED <<inbox, handling, notified, asked>>

-----------------------------------------------------------------------------
(* Inbox requests on one row: read it, save some fields, update the        *)
(* dashboard delivery.                                                     *)

get_object(c, i, op) ==
    /\ handling[c] = NotHandling /\ asked < MaxInbox
    /\ Visible(i)
    /\ asked' = asked + 1
    /\ Handle(c, [op |-> op, id |-> i, row |-> inbox[i]])
    /\ UNCHANGED <<notes, inbox, dashboard, notified, withdrawn>>

\* What save(update_fields=...) writes, given the row that was read.
SavedBy(op, read, now) ==
    CASE op = "SEEN" -> [now EXCEPT !.seen = @ \/ ~read.seen]
      [] op = "READ" -> [now EXCEPT !.seen = @ \/ ~read.seen, !.read = @ \/ ~read.read]
      [] op = "UNREAD" -> [now EXCEPT !.read = FALSE]
      [] op = "ARCHIVE" ->
             [now EXCEPT !.archived = IF read.archived = "NO" THEN "RECENT" ELSE @]
      [] op = "RESTORE" -> [now EXCEPT !.archived = "NO", !.dismissed = FALSE]
      [] op = "DISMISS" ->
             [now EXCEPT !.archived = IF read.archived = "NO" THEN "RECENT" ELSE read.archived,
                         !.dismissed = TRUE]

\* Reading what was seen and read changes nothing and ends the request.
Touches(op, read) ==
    CASE op = "UNREAD" -> TRUE
      [] op = "READ" -> ~read.seen \/ ~read.read
      [] OTHER -> FALSE

save_recipient(c) ==
    LET r == handling[c] IN
    /\ r.op \in Operations
    /\ inbox' = [inbox EXCEPT ![r.id] = SavedBy(r.op, r.row, @)]
    /\ Handle(c, IF ~Touches(r.op, r.row) THEN NotHandling
                 ELSE [op |-> "MARK", rows |-> {r.id},
                       as |-> IF r.op = "READ" THEN "READ" ELSE "DELIVERED"])
    /\ UNCHANGED <<notes, dashboard, notified, asked, withdrawn>>

\* The UPDATE of the dashboard deliveries asks for no status.
update_deliveries(c) ==
    /\ handling[c].op = "MARK"
    /\ dashboard' = [i \in Rows |->
           IF i \in handling[c].rows /\ dashboard[i] # "NONE" THEN handling[c].as
           ELSE dashboard[i]]
    /\ Handle(c, NotHandling)
    /\ UNCHANGED <<notes, inbox, notified, asked, withdrawn>>

-----------------------------------------------------------------------------
(* Requests on all rows of a user.                                         *)

mark_all_read(c, u) ==
    /\ handling[c] = NotHandling /\ asked < MaxInbox
    /\ asked' = asked + 1
    /\ Handle(c, [op |-> "ALL",
                  rows |-> {i \in Rows : OwnerOf[i] = u /\ Visible(i) /\ ~inbox[i].read}])
    /\ UNCHANGED <<notes, inbox, dashboard, notified, withdrawn>>

update_recipients(c) ==
    /\ handling[c].op = "ALL"
    /\ inbox' = [i \in Rows |->
           IF i \in handling[c].rows /\ inbox[i] # NoNote
           THEN [inbox[i] EXCEPT !.seen = TRUE, !.read = TRUE] ELSE inbox[i]]
    /\ Handle(c, [op |-> "MARK", rows |-> handling[c].rows, as |-> "READ"])
    /\ UNCHANGED <<notes, dashboard, notified, asked, withdrawn>>

archive_all_read(u) ==
    /\ asked < MaxInbox
    /\ asked' = asked + 1
    /\ inbox' = [i \in Rows |->
           IF OwnerOf[i] = u /\ Visible(i) /\ inbox[i].read /\ inbox[i].archived = "NO"
           THEN [inbox[i] EXCEPT !.archived = "RECENT"] ELSE inbox[i]]
    /\ UNCHANGED <<notes, dashboard, handling, notified, withdrawn>>

-----------------------------------------------------------------------------
(* The cleanup command: find the rows archived or dismissed long ago,      *)
(* delete them and their deliveries, then the notifications nobody has.    *)

cleanup(c) ==
    /\ handling[c] = NotHandling
    /\ \E i \in Rows : inbox[i] # NoNote /\ inbox[i].archived = "LONG"
    /\ Handle(c, [op |-> "DELETE",
                  rows |-> {i \in Rows : inbox[i] # NoNote /\ inbox[i].archived = "LONG"}])
    /\ UNCHANGED <<notes, inbox, dashboard, notified, asked, withdrawn>>

\* Requests that have read a row find it no longer: an UPDATE changes nothing,
\* the save of a single row fails.
Forgotten(r, rows) ==
    CASE r.op \in Operations -> IF r.id \in rows THEN NotHandling ELSE r
      [] r.op \in {"MARK", "ALL", "DELETE"} -> [r EXCEPT !.rows = @ \ rows]
      [] OTHER -> r

delete_recipients(c) ==
    /\ handling[c].op = "DELETE"
    /\ inbox' = [i \in Rows |-> IF i \in handling[c].rows THEN NoNote ELSE inbox[i]]
    /\ dashboard' = [i \in Rows |-> 
           IF i \in handling[c].rows THEN "NONE" ELSE dashboard[i]]
    /\ handling' = [d \in Handlers |->
           IF d = c THEN [op |-> "DELETE_NOTES"]
           ELSE Forgotten(handling[d], handling[c].rows)]
    /\ UNCHANGED <<notes, notified, asked, withdrawn>>

\* The notifications without recipients.
Abandoned == {n \in Notes : notes[n] # NoNote /\ \A i \in RowsOf(n) : inbox[i] = NoNote}

\* A notification that is not expired must be old itself.
delete_notifications(c) ==
    /\ handling[c].op = "DELETE_NOTES"
    /\ \E old \in SUBSET Abandoned :
          /\ {n \in Abandoned : notes[n].expired} \subseteq old
          /\ notes' = [n \in Notes |-> IF n \in old THEN NoNote ELSE notes[n]]
          /\ withdrawn' = withdrawn \ old
    /\ Handle(c, NotHandling)
    /\ UNCHANGED <<inbox, dashboard, notified, asked>>

\* A failure, or the end of the process: what was committed stays.
give_up(c) ==
    /\ handling[c] # NotHandling
    /\ Handle(c, NotHandling)
    /\ UNCHANGED <<notes, inbox, dashboard, notified, asked, withdrawn>>

\* Time passes: a notification is due or expires, an archived row grows old.
time_passes ==
    /\ \/ \E n \in Notes : /\ notes[n] # NoNote
                           /\ \/ notes' = [notes EXCEPT ![n].due = TRUE]
                              \/ notes' = [notes EXCEPT ![n].due = TRUE, ![n].expired = TRUE]
          /\ UNCHANGED inbox
       \/ /\ \E i \in Rows : /\ inbox[i] # NoNote /\ inbox[i].archived = "RECENT"
                                /\ inbox' = [inbox EXCEPT ![i].archived = "LONG"]
          /\ UNCHANGED notes
    /\ UNCHANGED <<dashboard, handling, notified, asked, withdrawn>>

-----------------------------------------------------------------------------

InboxInit ==
    /\ notes = [n \in Notes |-> NoNote]
    /\ inbox = [i \in Rows |-> NoNote]
    /\ dashboard = [i \in Rows |-> "NONE"]
    /\ handling = [c \in Handlers |-> NotHandling]
    /\ notified = 0 /\ asked = 0 /\ withdrawn = {}

InboxNext ==
    \/ \E c \in Handlers :
           \/ \E call \in Calls : notify(c, call)
           \/ \E n \in Notes : create_notification(c, n)
           \/ create_recipients(c)
           \/ \E i \in Rows, op \in Operations : get_object(c, i, op)
           \/ save_recipient(c) \/ update_deliveries(c)
           \/ \E u \in Owners : mark_all_read(c, u)
           \/ update_recipients(c)
           \/ cleanup(c) \/ delete_recipients(c) \/ delete_notifications(c)
           \/ give_up(c)
    \/ \E n \in Notes : cancel_scheduled_notification(n)
    \/ \E u \in Owners : archive_all_read(u)
    \/ time_passes

InboxSpec == InboxInit /\ [][InboxNext]_inboxVars

-----------------------------------------------------------------------------
(* Properties.                                                             *)

\* "Dashboard notifications are hidden by expiring the Notification event"
\* (notifications/services/scheduling.py:27): nobody sees a cancelled
\* notification again, although a request that has read it before marks its
\* delivery as delivered or read afterwards.
CancelledStaysHidden ==
    \A i \in Rows : KeyOf[i] \in withdrawn => ~Visible(i)

(* Why: a cancelled notification is there and expired until it is deleted, and  *)
(* what a call of notify has made is there for nobody, nor made by another.     *)

WithdrawnExpired == \A n \in withdrawn : notes[n] # NoNote /\ notes[n].expired

MadeIsNew ==
    \A c \in Handlers : handling[c].op = "NOTIFY" =>
        /\ \A n \in handling[c].made : notes[n] = NoNote
        /\ \A d \in Handlers \ {c} : handling[d].op = "NOTIFY" =>
               handling[c].made \cap handling[d].made = {}

\* A request finds the row it has read, unless the cleanup has ended it.
ReadRowExists ==
    \A c \in Handlers : handling[c].op \in Operations => inbox[handling[c].id] # NoNote

InboxInvariant == InboxTypeOK /\ WithdrawnExpired /\ MadeIsNew /\ ReadRowExists

=============================================================================
