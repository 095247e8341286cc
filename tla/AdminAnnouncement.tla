------------------------- MODULE AdminAnnouncement -------------------------
(***************************************************************************)
(* The announcement an admin sends to all webhooks: a request in memory,   *)
(* a text written in a modal and confirmed with a keyword, a button that   *)
(* sends it and one that cancels, and ten minutes for all of it.           *)
(*                                                                         *)
(* Buttons and modals reach the program as interactions, which arrive some *)
(* time after the admin used what the message showed, and which are        *)
(* handled one beside the other.  Only the admin who made the request sees *)
(* its message.  A step runs from one await to the next.                   *)
(***************************************************************************)
EXTENDS Naturals, FiniteSets

CONSTANTS
  Requests,          \* tokens of /notice-batch, all without dry_run
  Clicks,            \* interactions with the button that sends
  Texts,             \* what the admin may write
  Receivers,         \* rows of webhooks
  AnnounceFaults     \* bound of failing calls

ASSUME AnnounceAssumption ==
  /\ AnnounceFaults \in Nat /\ IsFiniteSet(Clicks) /\ IsFiniteSet(Receivers)
  /\ Requests # {} /\ "none" \notin Texts

VARIABLES
  request,     \* whether it is in pendingAnnouncements and expired, and its draft
  message,     \* what the admin sees: nothing, an offer to write, a text to be sent,
               \* or that it is being sent, was sent or was cancelled
  modal,       \* open at the admin, or the text whose summary is still to be shown
  cancel,      \* a click on cancel is on its way
  click,       \* pc, the request, the text, receivers left, those found gone
  receiver,    \* active, inactive, or gone at Discord and still active
  failedFlags, \* permanentlyFailedWebhooks
  told,        \* how often a request reached a receiver, 2 for more than once (history)
  confirmed,   \* texts submitted with the keyword (history)
  inHand,      \* clicks that were being handled when the request ended (history)
  ended,       \* requests that were cancelled, expired or sent (history)
  overlapped,  \* those with two clicks handled at the same time (history)
  announceFaults

pastRequests == <<told, confirmed, inHand, ended, overlapped>>
announceVars == <<request, message, modal, cancel, click, receiver, failedFlags,
                  pastRequests, announceFaults>>

Free == [pc |-> "free", of |-> CHOOSE t \in Requests : TRUE, text |-> "none",
         left |-> {}, perm |-> {}]

AnnounceInit ==
  /\ request = [t \in Requests |-> [pending |-> FALSE, expired |-> FALSE, draft |-> "none"]]
  /\ message = [t \in Requests |-> [shows |-> "nothing", text |-> "none"]]
  /\ modal = [t \in Requests |-> "closed"]
  /\ cancel = [t \in Requests |-> FALSE]
  /\ click = [c \in Clicks |-> Free]
  /\ receiver \in [Receivers -> {"active", "gone"}] /\ failedFlags = {}
  /\ told = [t \in Requests |-> [h \in Receivers |-> 0]]
  /\ confirmed = [t \in Requests |-> {}] /\ inHand = [t \in Requests |-> {}]
  /\ ended = {} /\ overlapped = {} /\ announceFaults = 0

Active == {h \in Receivers : receiver[h] # "inactive"}
Handling(t) == {c \in Clicks : click[c].of = t /\ click[c].pc \notin {"free", "pressed", "over"}}
Shows(t, what) == message' = [message EXCEPT ![t] = [shows |-> what, text |-> "none"]]
AnnounceFails == announceFaults < AnnounceFaults /\ announceFaults' = announceFaults + 1

\* The request is over for whoever comes from now on.
Over(t) ==
  /\ ended' = ended \cup {t}
  /\ inHand' = IF t \in ended THEN inHand ELSE [inHand EXCEPT ![t] = Handling(t)]

\* Mutant of Deleted: the request stays.
Undeleted(t) == request

Deleted(t) == [request EXCEPT ![t].pending = FALSE]

\* getPendingAnnouncement, after cleanupExpiredAnnouncements
Pending(t) == request[t].pending /\ ~request[t].expired

-----------------------------------------------------------------------------
(* What the admin does                                                     *)

\* cmdNoticeBatch
Asks(t) ==
  /\ message[t].shows = "nothing" /\ Active # {}
  /\ request' = [request EXCEPT ![t].pending = TRUE]
  /\ Shows(t, "offer")
  /\ UNCHANGED <<modal, cancel, click, receiver, failedFlags, pastRequests, announceFaults>>

\* The button that opens the modal, which may stay open for as long as it likes.
OpensModal(t) ==
  /\ message[t].shows \in {"offer", "text"} /\ Pending(t) /\ modal[t] = "closed"
  /\ modal' = [modal EXCEPT ![t] = "open"]
  /\ UNCHANGED <<request, message, cancel, click, receiver, failedFlags, pastRequests, announceFaults>>

PressesCancel(t) ==
  /\ message[t].shows \in {"offer", "text"} /\ ~cancel[t]
  /\ cancel' = [cancel EXCEPT ![t] = TRUE]
  /\ UNCHANGED <<request, message, modal, click, receiver, failedFlags, pastRequests, announceFaults>>

PressesSend(c, t) ==
  /\ message[t].shows = "text" /\ click[c].pc = "free"
  /\ click' = [click EXCEPT ![c].pc = "pressed", ![c].of = t]
  /\ UNCHANGED <<request, message, modal, cancel, receiver, failedFlags, pastRequests, announceFaults>>

Expires(t) ==
  /\ Pending(t) /\ request' = [request EXCEPT ![t].expired = TRUE]
  /\ Over(t)
  /\ UNCHANGED <<message, modal, cancel, click, receiver, failedFlags,
                 told, confirmed, overlapped, announceFaults>>

-----------------------------------------------------------------------------
(* handleNoticeBatchModal and the cancel button                            *)

\* A request that has ended gets an answer of its own, and the message stays.
RefusedModal(t) ==
  /\ modal[t] = "open" /\ ~Pending(t)
  /\ modal' = [modal EXCEPT ![t] = "closed"]
  /\ UNCHANGED <<request, message, cancel, click, receiver, failedFlags, pastRequests, announceFaults>>

Draft(t, text, keyword) == IF keyword THEN text ELSE request[t].draft

\* With the right keyword the text becomes the draft at once; with another one the
\* message offers to write again.
Submits(t, text, keyword) ==
  /\ modal[t] = "open" /\ Pending(t)
  /\ request' = [request EXCEPT ![t].draft = Draft(t, text, keyword)]
  /\ IF keyword
     THEN /\ modal' = [modal EXCEPT ![t] = text]
          /\ confirmed' = [confirmed EXCEPT ![t] = @ \cup {text}]
          /\ UNCHANGED message
     ELSE /\ modal' = [modal EXCEPT ![t] = "closed"]
          /\ Shows(t, "offer") /\ UNCHANGED confirmed
  /\ UNCHANGED <<cancel, click, receiver, failedFlags,
                 told, inHand, ended, overlapped, announceFaults>>

\* The summary, with the buttons to send, to write again and to cancel.
ShowsSummary(t) ==
  /\ modal[t] \in Texts
  /\ message' = [message EXCEPT ![t] = [shows |-> "text", text |-> modal[t]]]
  /\ modal' = [modal EXCEPT ![t] = "closed"]
  /\ UNCHANGED <<request, cancel, click, receiver, failedFlags, pastRequests, announceFaults>>

Cancels(t) ==
  /\ cancel[t]
  /\ cancel' = [cancel EXCEPT ![t] = FALSE]
  /\ IF Pending(t)
     THEN /\ request' = Deleted(t)
          /\ Shows(t, "cancelled")
          /\ Over(t)
     ELSE UNCHANGED <<request, message, inHand, ended>>
  /\ UNCHANGED <<modal, click, receiver, failedFlags, told, confirmed, overlapped, announceFaults>>

-----------------------------------------------------------------------------
(* The button that sends: dispatchAdminAnnouncement and sendDiscordEmbedBatch *)

\* A click that finds no request is told that it expired or was processed already.
Accepts(c) ==
  LET t == click[c].of IN
  /\ click[c].pc = "pressed"
  /\ IF Pending(t) /\ request[t].draft # "none"
     THEN /\ click' = [click EXCEPT ![c].pc = "defer"]
          /\ overlapped' = IF Handling(t) = {} THEN overlapped ELSE overlapped \cup {t}
     ELSE /\ click' = [click EXCEPT ![c].pc = "over"]
          /\ UNCHANGED overlapped
  /\ UNCHANGED <<request, message, modal, cancel, receiver, failedFlags,
                 told, confirmed, inHand, ended, announceFaults>>

\* The buttons are taken away.  The draft is read only now.
ShowsBusy(c) ==
  LET t == click[c].of IN
  /\ click[c].pc = "defer"
  /\ Shows(t, "busy")
  /\ click' = [click EXCEPT ![c].pc = "list", ![c].text = request[t].draft]
  /\ UNCHANGED <<request, modal, cancel, receiver, failedFlags, pastRequests, announceFaults>>

\* findAll.  When it fails the request stays, though without buttons.
Lists(c) ==
  LET t == click[c].of IN
  /\ click[c].pc = "list"
  /\ \/ /\ click' = [click EXCEPT ![c].pc = "send", ![c].left = Active]
        /\ UNCHANGED <<message, announceFaults>>
     \/ /\ AnnounceFails /\ Shows(t, "error")
        /\ click' = [click EXCEPT ![c].pc = "over"]
  /\ UNCHANGED <<request, modal, cancel, receiver, failedFlags, pastRequests>>

\* One receiver: left out because of its flag, reached, rejected for good, or not
\* reached for now.
Sends(c) ==
  LET t == click[c].of IN
  /\ click[c].pc = "send"
  /\ \E h \in click[c].left :
       \/ /\ h \in failedFlags
          /\ click' = [click EXCEPT ![c].left = @ \ {h}, ![c].perm = @ \cup {h}]
          /\ UNCHANGED <<failedFlags, told, announceFaults>>
       \/ /\ h \notin failedFlags /\ receiver[h] = "gone"
          /\ click' = [click EXCEPT ![c].left = @ \ {h}, ![c].perm = @ \cup {h}]
          /\ failedFlags' = failedFlags \cup {h}
          /\ UNCHANGED <<told, announceFaults>>
       \/ /\ h \notin failedFlags /\ receiver[h] # "gone"
          /\ click' = [click EXCEPT ![c].left = @ \ {h}]
          /\ \/ /\ told' = [told EXCEPT ![t][h] = IF @ < 2 THEN @ + 1 ELSE @]
                /\ failedFlags' = failedFlags \ {h} /\ UNCHANGED announceFaults
             \/ AnnounceFails /\ UNCHANGED <<told, failedFlags>>
  /\ UNCHANGED <<request, message, modal, cancel, receiver,
                 confirmed, inHand, ended, overlapped>>

\* clearPermanentFailureFlag
Unflagged(h) == failedFlags \ {h}

\* One receiver that was rejected for good: its row is made inactive, unless that
\* fails, and its flag goes in any case.
Removes(c) ==
  /\ click[c].pc = "send" /\ click[c].left = {}
  /\ \E h \in click[c].perm :
       /\ \/ receiver' = [receiver EXCEPT ![h] = "inactive"] /\ UNCHANGED announceFaults
          \/ AnnounceFails /\ UNCHANGED receiver
       /\ failedFlags' = Unflagged(h)
       /\ click' = [click EXCEPT ![c].perm = @ \ {h}]
  /\ UNCHANGED <<request, message, modal, cancel, pastRequests>>

\* Only now is the request deleted.
Finishes(c) ==
  LET t == click[c].of IN
  /\ click[c].pc = "send" /\ click[c].left = {} /\ click[c].perm = {}
  /\ request' = Deleted(t)
  /\ click' = [click EXCEPT ![c].pc = "over"]
  /\ Shows(t, "sent") /\ Over(t)
  /\ UNCHANGED <<modal, cancel, receiver, failedFlags,
                 told, confirmed, overlapped, announceFaults>>

ClickStep(c) ==
  Accepts(c) \/ ShowsBusy(c) \/ Lists(c) \/ Sends(c) \/ Removes(c) \/ Finishes(c)

AnnounceNext ==
  \/ \E t \in Requests :
       \/ Asks(t) \/ OpensModal(t) \/ PressesCancel(t) \/ Expires(t)
       \/ RefusedModal(t) \/ ShowsSummary(t) \/ Cancels(t)
       \/ \E text \in Texts, keyword \in BOOLEAN : Submits(t, text, keyword)
       \/ \E c \in Clicks : PressesSend(c, t)
  \/ \E c \in Clicks : ClickStep(c)

AnnounceSpec == AnnounceInit /\ [][AnnounceNext]_announceVars
-----------------------------------------------------------------------------
AnnounceTypeOK ==
  /\ request \in [Requests -> [pending : BOOLEAN, expired : BOOLEAN, draft : Texts \cup {"none"}]]
  /\ message \in [Requests -> [shows : {"nothing", "offer", "text", "busy", "error", "sent",
                                        "cancelled"}, text : Texts \cup {"none"}]]
  /\ modal \in [Requests -> Texts \cup {"closed", "open"}] /\ cancel \in [Requests -> BOOLEAN]
  /\ click \in [Clicks -> [pc : {"free", "pressed", "defer", "list", "send", "over"},
                           of : Requests, text : Texts \cup {"none"},
                           left : SUBSET Receivers, perm : SUBSET Receivers]]
  /\ receiver \in [Receivers -> {"active", "gone", "inactive"}]
  /\ failedFlags \subseteq Receivers /\ announceFaults \in Nat
  /\ told \in [Requests -> [Receivers -> 0 .. 2]]
  /\ confirmed \in [Requests -> SUBSET Texts] /\ inHand \in [Requests -> SUBSET Clicks]
  /\ ended \subseteq Requests /\ overlapped \subseteq Requests

\* A request reaches a receiver twice only if two clicks on its button were handled
\* at the same time: a dispatch that fails sent nothing, and one that ends takes the
\* request with it.
TwiceOnlyByOverlap ==
  \A t \in Requests, h \in Receivers : told[t][h] = 2 => t \in overlapped

\* Once a request was cancelled, has expired or was sent, no click but those that
\* were being handled then sends anything (getPendingAnnouncement).
EndedIsFinal == \A t \in ended : Handling(t) \subseteq inHand[t]

\* Whatever is sent was submitted with the keyword, for this request, although the
\* draft may be replaced while a click on an older one is handled.
SentIsConfirmed ==
  \A c \in Clicks : click[c].pc \in {"list", "send"} => click[c].text \in confirmed[click[c].of]

\* A webhook is flagged as failed for good only while a click is about to remove its
\* row and the flag (permanentlyFailedWebhooks outlives every dispatch).
FlagsAreTended == \A h \in failedFlags : \E c \in Clicks : h \in click[c].perm

\* What the admin confirmed is what goes out, for as long as the request stands, and
\* no receiver is blamed for good on the way.
AnnouncementsSound == TwiceOnlyByOverlap /\ EndedIsFinal /\ SentIsConfirmed /\ FlagsAreTended

=============================================================================
