--------------------------- MODULE Communication ---------------------------
(***************************************************************************)
(* Meetings that parents and students book with teachers, message threads, *)
(* the notifications these send, preferences, announcements and events.    *)
(*                                                                         *)
(* A slot is looked at, and booked by its id a statement later; who it     *)
(* concerns is notified after the write, in requests of their own.  Time   *)
(* in a thread is the number of its messages.                              *)
(***************************************************************************)
EXTENDS School

CONSTANTS
  MeetingSlots, Threads, Posts,  \* ids of rows; posts are announcements and events
  Linked,       \* parents, teachers and students who have a portal account
  MaxMessages,  \* bound: messages of a thread
  MaxUnread     \* bound: unread notifications of a user

ASSUME CommunicationAssumption == MaxMessages \in Nat \ {0} /\ MaxUnread \in Nat

VARIABLES
  slot,         \* PtmSlot rows
  thread,       \* MessageThread rows with their participants and messages
  unread,       \* Notification rows without readAt, by user
  preferences,  \* NotificationPreference rows: the users who have their own
  post          \* Announcement and Event rows: their classIds

communicationTables == <<slot, thread, unread, preferences, post>>

PtmSlotDto == [ordered : BOOLEAN]
PtmBookDto == [slot : MeetingSlots, student : Students]
NewThreadDto == [type : {"class"}, to : Classes] \cup [type : {"individual"}, to : Parents \cup Teachers]
PostDto == {[audience |-> "school", classes |-> {}]}
             \cup [audience : {"class"}, classes : SUBSET Classes \ {{}}]

PtmSlot == [status : RowStatus, teacher : Teachers \cup {None}, by : Linked \cup {None},
            student : Students \cup {None}, notes : BOOLEAN]
NoSlot == [status |-> "none", teacher |-> None, by |-> None, student |-> None, notes |-> FALSE]

CommunicationInit ==
  /\ slot = [p \in MeetingSlots |-> NoSlot]
  /\ thread = [h \in Threads |-> None]
  /\ unread = [u \in Linked |-> 0]
  /\ preferences = {}
  /\ post = [q \in Posts |-> None]

-----------------------------------------------------------------------------
(* NotificationsService                                                     *)

\* notifyUser, called by the handlers below, one recipient after the other.
NotifyOne(r) ==
  /\ At(r, "Notify")
  /\ \E u \in req[r].recipients :
       /\ unread[u] < MaxUnread
       /\ unread' = [unread EXCEPT ![u] = @ + 1]
       /\ IF req[r].recipients = {u} THEN Ends(r)
          ELSE Goes(r, [op |-> "Notify", recipients |-> req[r].recipients \ {u}])
  /\ UNCHANGED <<slot, thread, preferences, post, schoolTables>>

NotifyOrEnd(r, recipients) ==
  IF recipients = {} THEN Ends(r) ELSE Goes(r, [op |-> "Notify", recipients |-> recipients])

MarkRead(u) ==
  /\ AtOnce /\ unread[u] > 0
  /\ unread' = [unread EXCEPT ![u] = @ - 1]
  /\ UNCHANGED <<slot, thread, preferences, post, schoolTables>>

MarkAllRead(u) ==
  /\ AtOnce /\ unread' = [unread EXCEPT ![u] = 0]
  /\ UNCHANGED <<slot, thread, preferences, post, schoolTables>>

\* The unique key of user and type refuses a second submission that overlaps.
UpdatePreferences(u) ==
  /\ AtOnce /\ preferences' \in {preferences \cup {u}, preferences \ {u}}
  /\ UNCHANGED <<slot, thread, unread, post, schoolTables>>

NotificationsController ==
  \E u \in Linked : MarkRead(u) \/ MarkAllRead(u) \/ UpdatePreferences(u)

-----------------------------------------------------------------------------
(* PtmService                                                               *)

CreateSlot(p) ==
  /\ AtOnce /\ slot[p].status = "none"
  /\ \E dto \in PtmSlotDto, t \in Teachers \cap Linked :
       /\ dto.ordered /\ teacher[t] = "kept"
       /\ slot' = [slot EXCEPT ![p] = [NoSlot EXCEPT !.status = "kept", !.teacher = t]]
  /\ UNCHANGED <<thread, unread, preferences, post, schoolTables>>

\* By its teacher, booked or not.
DeleteSlot(p) ==
  /\ AtOnce /\ slot[p].status = "kept"
  /\ slot' = [slot EXCEPT ![p] = [NoSlot EXCEPT !.status = "deleted"]]
  /\ UNCHANGED <<thread, unread, preferences, post, schoolTables>>

MayBookFor(u, s) == u = s \/ (u \in Parents /\ <<u, s>> \in link)

\* Mutant: a slot that is taken is not refused.
BookReadTaken(r, u) ==
  /\ \E dto \in PtmBookDto :
       /\ MayBookFor(u, dto.student) /\ Placed(dto.student)
       /\ slot[dto.slot].status = "kept"
       /\ Starts(r, [op |-> "Book", user |-> u, dto |-> dto])
  /\ UNCHANGED <<communicationTables, schoolTables>>

BookRead(r, u) ==
  /\ \E dto \in PtmBookDto :
       /\ MayBookFor(u, dto.student) /\ Placed(dto.student)
       /\ slot[dto.slot].status = "kept" /\ slot[dto.slot].by = None
       /\ Starts(r, [op |-> "Book", user |-> u, dto |-> dto])
  /\ UNCHANGED <<communicationTables, schoolTables>>

\* By id: whoever booked meanwhile is replaced.
BookWrite(r) ==
  /\ At(r, "Book") /\ slot[req[r].dto.slot].status = "kept"
  /\ slot' = [slot EXCEPT ![req[r].dto.slot].by = req[r].user,
                          ![req[r].dto.slot].student = req[r].dto.student]
  /\ NotifyOrEnd(r, {slot[req[r].dto.slot].teacher})
  /\ UNCHANGED <<thread, unread, preferences, post, schoolTables>>

\* By who booked it or by its teacher.
CancelRead(r, u) ==
  /\ \E p \in MeetingSlots :
       /\ slot[p].status = "kept" /\ slot[p].by # None /\ u \in {slot[p].by, slot[p].teacher}
       /\ Starts(r, [op |-> "Cancel", slot |-> p])
  /\ UNCHANGED <<communicationTables, schoolTables>>

CancelWrite(r) ==
  /\ At(r, "Cancel") /\ slot[req[r].slot].status = "kept"
  /\ slot' = [slot EXCEPT ![req[r].slot].by = None, ![req[r].slot].student = None,
                          ![req[r].slot].notes = FALSE]
  /\ Ends(r) /\ UNCHANGED <<thread, unread, preferences, post, schoolTables>>

\* Also of a slot that is not booked.
UpdateNotes(p) ==
  /\ AtOnce /\ slot[p].status = "kept"
  /\ slot' = [slot EXCEPT ![p].notes = TRUE]
  /\ UNCHANGED <<thread, unread, preferences, post, schoolTables>>

\* Mutant: the slots stay.
RemoveTeacherOnly(t) == RemoveTeacher(t) /\ UNCHANGED communicationTables

\* The teacher's slots go with the teacher.
RemoveTeacherWithSlots(t) ==
  /\ RemoveTeacher(t)
  /\ slot' = [p \in MeetingSlots |-> IF slot[p].teacher = t
                THEN [NoSlot EXCEPT !.status = "deleted"] ELSE slot[p]]
  /\ UNCHANGED <<thread, unread, preferences, post>>

PtmController ==
  \/ \E p \in MeetingSlots : CreateSlot(p) \/ DeleteSlot(p) \/ UpdateNotes(p)
  \/ \E r \in Requests : \/ BookWrite(r) \/ CancelWrite(r) \/ NotifyOne(r)
                         \/ \E u \in Linked : BookRead(r, u) \/ CancelRead(r, u)
  \/ \E t \in Teachers : RemoveTeacherWithSlots(t)

-----------------------------------------------------------------------------
(* MessagesService                                                          *)

ParentsOf(class) ==
  {p \in Parents : \E s \in Students : /\ <<p, s>> \in link
                                       /\ Placed(s) /\ student[s].placement.class = class}

\* Parents of a class who have no account are left out; a single recipient needs one.
Recipients(dto) ==
  IF dto.type = "class" THEN ParentsOf(dto.to) \cap Linked
  ELSE IF dto.to \in Parents THEN {p \in Linked : p = dto.to /\ parent[p] = "kept"}
  ELSE {t \in Linked : t = dto.to /\ teacher[t] = "kept"}

\* Thread, participants and the first message, in one transaction.
CreateThread(r, u, h) ==
  /\ thread[h] = None
  /\ \E dto \in NewThreadDto :
       LET others == Recipients(dto) \ {u}
       IN /\ dto.type = "class" => schoolClass[dto.to] = "kept"
          /\ others # {}
          /\ thread' = [thread EXCEPT ![h] = [messages |-> <<u>>,
               lastReadAt |-> [v \in others \cup {u} |-> IF v = u THEN 1 ELSE None]]]
          /\ Starts(r, [op |-> "Notify", recipients |-> others])
  /\ UNCHANGED <<slot, unread, preferences, post, schoolTables>>

Participates(u, h) == thread[h] # None /\ u \in DOMAIN thread[h].lastReadAt

\* One transaction: whoever replies has read the thread.
Reply(r, u, h) ==
  /\ Participates(u, h) /\ Len(thread[h].messages) < MaxMessages
  /\ thread' = [thread EXCEPT ![h] =
       [messages |-> Append(thread[h].messages, u),
        lastReadAt |-> [thread[h].lastReadAt EXCEPT ![u] = Len(thread[h].messages) + 1]]]
  /\ Starts(r, [op |-> "Notify", recipients |-> DOMAIN thread[h].lastReadAt \ {u}])
  /\ UNCHANGED <<slot, unread, preferences, post, schoolTables>>

MarkThreadRead(u, h) ==
  /\ AtOnce /\ Participates(u, h)
  /\ thread' = [thread EXCEPT ![h].lastReadAt[u] = Len(thread[h].messages)]
  /\ UNCHANGED <<slot, unread, preferences, post, schoolTables>>

MessagesController ==
  \/ \E u \in Linked, h \in Threads :
       MarkThreadRead(u, h) \/ \E r \in Requests : CreateThread(r, u, h) \/ Reply(r, u, h)
  \/ \E r \in Requests : NotifyOne(r)

-----------------------------------------------------------------------------
(* AnnouncementsService and EventsService                                   *)

SavePost(q) ==
  \E dto \in PostDto : /\ \A k \in dto.classes : schoolClass[k] = "kept"
                       /\ post' = [post EXCEPT ![q] = dto.classes]

CreatePost(q) ==
  AtOnce /\ post[q] = None /\ SavePost(q)
    /\ UNCHANGED <<slot, thread, unread, preferences, schoolTables>>

UpdatePost(q) ==
  AtOnce /\ post[q] # None /\ SavePost(q)
    /\ UNCHANGED <<slot, thread, unread, preferences, schoolTables>>

RemovePost(q) ==
  /\ AtOnce /\ post[q] # None /\ post' = [post EXCEPT ![q] = None]
  /\ UNCHANGED <<slot, thread, unread, preferences, schoolTables>>

PostsControllers == \E q \in Posts : CreatePost(q) \/ UpdatePost(q) \/ RemovePost(q)

CommunicationDies(r) == Dies(r) /\ UNCHANGED <<communicationTables, schoolTables>>

-----------------------------------------------------------------------------
(* Properties                                                               *)

\* Whoever is to meet is still there.
CommunicationTypeOK ==
  /\ slot \in [MeetingSlots -> PtmSlot]
  /\ \A p \in MeetingSlots : slot[p].status = "kept" => teacher[slot[p].teacher] = "kept"
  /\ \A h \in Threads : thread[h] # None =>
       /\ thread[h].messages \in Seq(Linked) /\ Len(thread[h].messages) \in 1..MaxMessages
       /\ \A u \in DOMAIN thread[h].lastReadAt :
            u \in Linked /\ thread[h].lastReadAt[u] \in (1..MaxMessages) \cup {None}
  /\ unread \in [Linked -> 0..MaxUnread]
  /\ preferences \subseteq Linked
  /\ post \in [Posts -> (SUBSET Classes) \cup {None}]

\* One request at a time a meeting that someone booked stays theirs until it is
\* cancelled or its slot is removed: nobody books over it.
BookingStands ==
  [][\A p \in MeetingSlots :
       ~overlap /\ slot[p].by # None =>
         \/ slot'[p].by = None
         \/ slot'[p].by = slot[p].by /\ slot'[p].student = slot[p].student]_slot
=============================================================================
