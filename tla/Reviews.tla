------------------------------ MODULE Reviews ------------------------------
(***************************************************************************)
(* What follows a check-out: the request for a review that the customer is *)
(* sent, the review, the store's response; and which check-outs lead to    *)
(* one. A booking is one or more rows, any of which may be checked out.    *)
(*                                                                         *)
(* A handler that reads and then writes by id is a Begin step and a Commit *)
(* step, as in Reservations.                                               *)
(***************************************************************************)
EXTENDS ReservationStatus, Integers, FiniteSets

CONSTANTS
    Row,            \* rows of reservations
    Group,          \* bookings
    GroupOf,        \* Row -> Group         (reservation_group_id)
    RepOf,          \* Group -> Row         (the row with id = group id)
    WithLink,       \* bookings with a qr_code, the token of the review link
    OfCustomer,     \* bookings of a customer who is signed in
    NoReservation,
    REVIEW_WINDOW,  \* REVIEW_WINDOW_DAYS, in ticks
    LastDay,        \* bound on the clock
    Caller          \* requests served at the same time

ASSUME ReviewsAssumption ==
    /\ GroupOf \in [Row -> Group] /\ RepOf \in [Group -> Row]
    /\ \A g \in Group : GroupOf[RepOf[g]] = g
    /\ NoReservation \notin Row
    /\ REVIEW_WINDOW \in Nat /\ LastDay \in Nat \ {0}

VARIABLES
    status,     \* reservations.status
    ended,      \* actual_end_time; 0 is NULL
    asked,      \* rows for which the customer was sent the review link
    review,     \* reviews, by the reservation_id they are stored with
    crossed,    \* rows a cancelling write found closed since its read
    handling,   \* what each caller's request is in the middle of
    today

\* crossed is auxiliary: no action depends on it.
reviewVars == <<status, ended, asked, review, crossed, handling, today>>

RowsOf(g) == {r \in Row : GroupOf[r] = g}

Handling == [op : {"idle", "status", "customerCheckout", "checkOut", "ask",
                   "review", "respond"},
             row : Row \union {NoReservation},
             to : {"completed", "cancelled"},
             was : Status, ended : 0..LastDay]

AtRest == [op |-> "idle", row |-> NoReservation, to |-> "completed",
           was |-> "confirmed", ended |-> 0]

ReviewsTypeOK ==
    /\ status \in [Row -> Status]
    /\ ended \in [Row -> 0..LastDay]
    /\ {asked, crossed} \subseteq SUBSET Row
    /\ review \in [Row -> {"none", "pending", "responded"}]
    /\ handling \in [Caller -> Handling]
    /\ today \in 1..LastDay

ReviewsInit ==
    /\ status = [r \in Row |-> "in_progress"]
    /\ ended = [r \in Row |-> 0]
    /\ asked = {} /\ crossed = {}
    /\ review = [r \in Row |-> "none"]
    /\ handling = [w \in Caller |-> AtRest]
    /\ today = 1

----------------------------------------------------------------------------

Take(w, op, r, to) ==
    /\ handling[w].op = "idle"
    /\ handling' = [handling EXCEPT ![w] =
          [op |-> op, row |-> r, to |-> to, was |-> status[r], ended |-> ended[r]]]

Proceed(w, op) == handling' = [handling EXCEPT ![w].op = op]

Finish(w) == handling' = [handling EXCEPT ![w] = AtRest]

\* actual_end_time ?? new Date()
EndOf(t) == IF t = 0 THEN today ELSE t

\* PUT /status by the store, with completed or cancelled.
BeginStatus(w, r, to) ==
    /\ assertCanTransition(status[r], to)
    /\ Take(w, "status", r, to)
    /\ UNCHANGED <<status, ended, asked, review, crossed, today>>

\* Faulty: the time of the hand-over is left to others.
CommitStatusOnly(w) ==
    LET r == handling[w] IN
    /\ r.op = "status"
    /\ status' = [status EXCEPT ![r.row] = r.to]
    /\ IF r.to = "completed" /\ r.was # "completed" THEN Proceed(w, "ask")
       ELSE Finish(w)
    /\ UNCHANGED <<ended, asked, review, crossed, today>>

\* The customer is asked if the status read was not completed.
CommitStatus(w) ==
    LET r == handling[w] IN
    /\ r.op = "status"
    /\ status' = [status EXCEPT ![r.row] = r.to]
    /\ ended' = IF r.to = "completed" THEN [ended EXCEPT ![r.row] = EndOf(r.ended)]
                ELSE ended
    /\ crossed' = IF r.to = "cancelled" /\ status[r.row] # r.was
                  THEN crossed \union {r.row} ELSE crossed
    /\ IF r.to = "completed" /\ r.was # "completed" THEN Proceed(w, "ask")
       ELSE Finish(w)
    /\ UNCHANGED <<asked, review, today>>

\* Checked out by the customer: nobody asks for a review.
BeginCustomerCheckout(w, r) ==
    /\ GroupOf[r] \in OfCustomer
    /\ assertCanCheckout(status[r])
    /\ Take(w, "customerCheckout", r, "completed")
    /\ UNCHANGED <<status, ended, asked, review, crossed, today>>

CommitCustomerCheckout(w) ==
    LET r == handling[w] IN
    /\ r.op = "customerCheckout"
    /\ status' = [status EXCEPT ![r.row] = "completed"]
    /\ ended' = [ended EXCEPT ![r.row] = EndOf(r.ended)]
    /\ Finish(w)
    /\ UNCHANGED <<asked, review, crossed, today>>

\* The owner's link checks out the whole booking, if all of its rows still are
\* in one of CHECK_OUT_FROM, and asks once, for the representative.
CommitCheckOut(w, g) ==
    /\ handling[w].op = "idle"
    /\ \A r \in RowsOf(g) : status[r] \in CHECK_OUT_FROM
    /\ status' = [r \in Row |-> IF GroupOf[r] = g THEN "completed" ELSE status[r]]
    /\ ended' = [r \in Row |-> IF GroupOf[r] = g THEN today ELSE ended[r]]
    /\ handling' = [handling EXCEPT ![w] = [AtRest EXCEPT !.op = "ask", !.row = RepOf[g]]]
    /\ UNCHANGED <<asked, review, crossed, today>>

\* The hourly job completes rows without an actual_end_time.
AutoComplete(R) ==
    /\ R # {}
    /\ R \subseteq {r \in Row : status[r] \in AUTO_COMPLETE_FROM}
    /\ status' = [r \in Row |-> IF r \in R THEN "completed" ELSE status[r]]
    /\ UNCHANGED <<ended, asked, review, crossed, handling, today>>

\* Not awaited, and not sent without a qr_code.
notifyCheckoutReview(w) ==
    /\ handling[w].op = "ask"
    /\ asked' = asked \union
          (IF GroupOf[handling[w].row] \in WithLink THEN {handling[w].row} ELSE {})
    /\ Finish(w)
    /\ UNCHANGED <<status, ended, review, crossed, today>>

----------------------------------------------------------------------------
\* Faulty: the row that was reviewed.
rowItself(r) == r

representativeId(r) == RepOf[GroupOf[r]]

\* Faulty: every completed reservation may be reviewed.
CompletedIsEligible(r) == status[r] = "completed"

Eligible(r) ==
    /\ status[r] = "completed"
    /\ ended[r] # 0
    /\ today - ended[r] <= REVIEW_WINDOW

\* createReview, with the token of the booking: its checks, and the INSERT,
\* which reviews' unique reservation_id may refuse.
BeginReview(w, r) ==
    /\ GroupOf[r] \in WithLink
    /\ Eligible(r)
    /\ review[representativeId(r)] = "none"
    /\ Take(w, "review", r, "completed")
    /\ UNCHANGED <<status, ended, asked, review, crossed, today>>

CommitReview(w) ==
    LET id == representativeId(handling[w].row) IN
    /\ handling[w].op = "review"
    /\ review[id] = "none"
    /\ review' = [review EXCEPT ![id] = "pending"]
    /\ Finish(w)
    /\ UNCHANGED <<status, ended, asked, crossed, today>>

\* respondToReview: a response may be written over.
BeginRespond(w, r) ==
    /\ review[r] # "none"
    /\ Take(w, "respond", r, "completed")
    /\ UNCHANGED <<status, ended, asked, review, crossed, today>>

CommitRespond(w) ==
    /\ handling[w].op = "respond"
    /\ review' = [review EXCEPT ![handling[w].row] = "responded"]
    /\ Finish(w)
    /\ UNCHANGED <<status, ended, asked, crossed, today>>

\* A check or a statement fails, a message is lost, or the process stops.
AbortHandling(w) ==
    /\ handling[w].op # "idle"
    /\ Finish(w)
    /\ UNCHANGED <<status, ended, asked, review, crossed, today>>

NextDay ==
    /\ today < LastDay
    /\ today' = today + 1
    /\ UNCHANGED <<status, ended, asked, review, crossed, handling>>

ReviewsNext ==
    \/ \E w \in Caller :
          \/ \E r \in Row :
                \/ \E to \in {"completed", "cancelled"} : BeginStatus(w, r, to)
                \/ BeginCustomerCheckout(w, r)
                \/ BeginReview(w, r) \/ BeginRespond(w, r)
          \/ \E g \in Group : CommitCheckOut(w, g)
          \/ CommitStatus(w) \/ CommitCustomerCheckout(w)
          \/ notifyCheckoutReview(w) \/ CommitReview(w) \/ CommitRespond(w)
          \/ AbortHandling(w)
    \/ \E R \in SUBSET Row : AutoComplete(R)
    \/ NextDay

ReviewsSpec == ReviewsInit /\ [][ReviewsNext]_reviewVars

----------------------------------------------------------------------------
\* A booking is reviewed once, through whichever of its rows and however many
\* requests do it at once (docs/README.md:366; guest-review.service.ts).
OneReviewPerBooking ==
    \A g \in Group : Cardinality({r \in RowsOf(g) : review[r] # "none"}) <= 1

\* A booking is reviewed only if the store or the customer confirmed that the
\* luggage was handed over: the hourly job alone does not lead to a review,
\* whatever it overlaps with (guest-review.service.ts, createReview).
ReviewNeedsHandover ==
    \A g \in Group : (\E r \in RowsOf(g) : review[r] # "none") =>
        \E r \in RowsOf(g) : ended[r] # 0

\* Who is sent the link may write a review: the row is completed and has the
\* time of the hand-over, unless a cancellation that had read it before the
\* check-out was written over it (reservation-command.service.ts,
\* updateReservationStatus; owner-actions.service.ts, checkOut).
AskedCanReview ==
    \A r \in asked : ended[r] # 0 /\ (status[r] = "completed" \/ r \in crossed)

\* The hand-over of the luggage, and nothing less, leads to a review.
ReviewsFollowHandover == ReviewNeedsHandover /\ AskedCanReview
=============================================================================
