--------------------------- MODULE Notifications ---------------------------
(***************************************************************************)
(* What one event (a booking made or cancelled, a check-out, a review, new *)
(* photos) makes the server send: to the operators' Discord channel, to    *)
(* the owner and the additional recipients by Kakao, to their phones, and  *)
(* to the customer by Kakao, text message or e-mail.                       *)
(*                                                                         *)
(* Nobody awaits these messages and nothing of them is stored. The calls   *)
(* of an event go out together; each is answered in its own time, and may  *)
(* have been delivered although the answer is an error.                    *)
(***************************************************************************)
EXTENDS Integers, FiniteSets, Sequences

CONSTANTS
    Holder,         \* holders of phone numbers
    Customer,       \* one of them
    OwnerLists,     \* what owner_phone and notification_phones may be
    NoPhone,        \* a phone field without a number
    Address         \* a customer's e-mail address, in the phone field too

\* A number as it was typed: 010-..., +82-10-..., or of another country.
Form == {"local", "plus82", "abroad"}
Phone == [form : Form, of : Holder]

ASSUME NotificationsAssumption ==
    /\ NoPhone # Address /\ {NoPhone, Address} \cap Phone = {}
    /\ Customer \in Holder
    /\ OwnerLists \subseteq Seq(Phone \union {NoPhone})

VARIABLES
    env,        \* the channels whose keys and templates are configured
    event,      \* what happened, and the reservation's contacts
    flight,     \* calls that were not answered yet
    made,       \* calls made
    got,        \* calls whose message was delivered
    failed,     \* calls answered with an error
    stopped     \* the process stopped before the event was dealt with

messageVars == <<env, event, flight, made, got, failed, stopped>>

Channel == {"discord", "kakao_owner", "push_store", "alimtalk", "sms", "email"}
ToCustomer == {"alimtalk", "sms", "email"}

\* The line a number leads to: the holder's, or whoever has the digits with a 0
\* in front of the country code.
Line == {"right", "wrong"} \X Holder

\* at: the place of an owner's number in the list. link: the message holds the
\* link of the owner's actions.
Call == [channel : Channel, to : Line \union {NoPhone, Address}, at : Nat]

Kind == {"create", "cancel", "checkout", "review", "photos"}

\* phone, the locale and the e-mail address are the customer's.
Event == [kind : Kind, ko : BOOLEAN, email : BOOLEAN, owners : OwnerLists,
          phone : [form : Form, of : {Customer}] \union {NoPhone, Address}]

Nothing == [kind |-> "none"]

MessagesTypeOK ==
    /\ env \in SUBSET Channel
    /\ event \in Event \union {Nothing}
    /\ {flight, made, got, failed} \subseteq SUBSET Call
    /\ stopped \in BOOLEAN

MessagesInit ==
    /\ env \in {Channel, {}} \union {Channel \ {c} : c \in Channel}
    /\ event = Nothing
    /\ flight = {} /\ made = {} /\ got = {} /\ failed = {}
    /\ stopped = FALSE

----------------------------------------------------------------------------

isKoreanPhone(p) == p \in Phone /\ p.form \in {"local", "plus82"}

\* +82 goes; whatever does not begin with 0 then is given one.
normalizePhoneForSolapi(p) ==
    <<IF p.form = "abroad" THEN "wrong" ELSE "right", p.of>>

\* Faulty: what is compared are the numbers as they were typed.
UniqueAsTyped(list) ==
    {i \in DOMAIN list :
        /\ list[i] # NoPhone
        /\ \A k \in 1..i - 1 : list[k] # list[i]}

\* The owner's number and the additional ones, each line once, by their places
\* in the list. An empty number is too short.
ownerRecipients(list) ==
    {i \in DOMAIN list :
        /\ list[i] # NoPhone
        /\ \A k \in 1..i - 1 : list[k] # NoPhone =>
              normalizePhoneForSolapi(list[k]) # normalizePhoneForSolapi(list[i])}

\* A channel that is not configured makes no call.
Via(channel, to, at) ==
    IF channel \in env THEN {[channel |-> channel, to |-> to, at |-> at]} ELSE {}

sendDiscordEmbed == Via("discord", NoPhone, 0)

sendPushToStore == Via("push_store", NoPhone, 0)

sendKakaoAlimtalkToOwner(e) ==
    UNION {Via("kakao_owner", normalizePhoneForSolapi(e.owners[i]), i) :
              i \in ownerRecipients(e.owners)}

sendAlimtalkToCustomer(e) == Via("alimtalk", normalizePhoneForSolapi(e.phone), 0)

sendSmsToCustomer(e) == Via("sms", normalizePhoneForSolapi(e.phone), 0)

\* Without a template the alimtalk is not sent and the text message goes out.
sendAlimtalkOrSms(e) ==
    IF sendAlimtalkToCustomer(e) # {} THEN sendAlimtalkToCustomer(e)
    ELSE sendSmsToCustomer(e)

sendCustomerCreateNotification(e) ==
    CASE e.phone \in {NoPhone, Address} -> {}
      [] isKoreanPhone(e.phone) /\ e.ko -> sendAlimtalkOrSms(e)
      [] OTHER -> sendSmsToCustomer(e)

\* Without a mail account the attempt fails, which is the same as no call: no
\* other channel takes over from e-mail.
sendReviewRequestEmailSafely == Via("email", Address, 0)

sendCheckoutNotification(e) ==
    CASE e.phone = Address -> sendReviewRequestEmailSafely
      [] isKoreanPhone(e.phone) /\ e.ko -> sendAlimtalkOrSms(e)
      [] OTHER -> IF e.email THEN sendReviewRequestEmailSafely
                  ELSE sendSmsToCustomer(e)

sendCreateNotification(e) ==
    sendDiscordEmbed \union sendKakaoAlimtalkToOwner(e)
        \union sendCustomerCreateNotification(e) \union sendPushToStore

sendCancelNotification(e) ==
    sendDiscordEmbed \union sendKakaoAlimtalkToOwner(e) \union sendPushToStore

sendReviewCreatedNotification == sendDiscordEmbed

sendPhotosNotification == sendDiscordEmbed

CallsOf(e) ==
    CASE e.kind = "create" -> sendCreateNotification(e)
      [] e.kind = "cancel" -> sendCancelNotification(e)
      [] e.kind = "checkout" -> sendCheckoutNotification(e)
      [] e.kind = "review" -> sendReviewCreatedNotification
      [] e.kind = "photos" -> sendPhotosNotification

----------------------------------------------------------------------------
\* What an event does not use is one of its values.
Canonical(e) ==
    /\ e.kind \notin {"create", "cancel"} =>
          e.owners = CHOOSE list \in OwnerLists : TRUE
    /\ e.kind \notin {"create", "checkout"} => e.phone = NoPhone /\ ~e.ko
    /\ e.kind # "checkout" => ~e.email

\* The event, after its transaction. The customer of a luggage that is checked
\* out left a phone number or an address.
Notify(e) ==
    /\ event = Nothing
    /\ Canonical(e)
    /\ e.kind = "checkout" => e.phone # NoPhone
    /\ event' = e
    /\ flight' = CallsOf(e)
    /\ made' = CallsOf(e)
    /\ UNCHANGED <<env, got, failed, stopped>>

Accepted(c) ==
    /\ c \in flight
    /\ flight' = flight \ {c}
    /\ got' = got \union {c}
    /\ UNCHANGED <<env, event, made, failed, stopped>>

\* Faulty: the alimtalk counts as sent whatever the answer.
NoFallback(c) == {}

\* Only a failed alimtalk is followed by another call.
Fallback(c) == IF c.channel = "alimtalk" THEN sendSmsToCustomer(event) ELSE {}

\* An error, after which the message was delivered or not.
Refused(c) ==
    /\ c \in flight
    /\ failed' = failed \union {c}
    /\ got' \in {got, got \union {c}}
    /\ flight' = (flight \ {c}) \union Fallback(c)
    /\ made' = made \union Fallback(c)
    /\ UNCHANGED <<env, event, stopped>>

\* The calls that are still to be answered, or to be made, are lost.
Stop ==
    /\ flight # {}
    /\ flight' = {}
    /\ stopped' = TRUE
    /\ UNCHANGED <<env, event, made, got, failed>>

MessagesNext ==
    \/ \E e \in Event : Notify(e)
    \/ \E c \in flight : Accepted(c) \/ Refused(c)
    \/ Stop

MessagesSpec == MessagesInit /\ [][MessagesNext]_messageVars

----------------------------------------------------------------------------
Customers(calls) == {c \in calls : c.channel \in ToCustomer}

Settled == event # Nothing /\ flight = {} /\ ~stopped

\* A customer gets one message of an event and not another one by another
\* channel, unless the answer to a message that was delivered was an error
\* (notifications.service.ts, sendCustomerCreateNotification and
\* sendCheckoutNotification).
CustomerToldOnce ==
    /\ Cardinality(Customers(got \ failed)) <= 1
    /\ Customers(got \ failed) # {} => Customers(flight) = {}

\* When all calls are answered, a customer with a phone and without an e-mail
\* address was told, or the last resort, the text message, was refused
\* (notifications.service.ts, sendCustomerCreateNotification and
\* sendCheckoutNotification).
LastResortTried ==
    /\ Settled /\ "sms" \in env
    /\ event.kind \in {"create", "checkout"}
    /\ event.phone \in Phone /\ ~event.email
    => \E c \in Customers(made) : c \in got \/ (c \in failed /\ c.channel = "sms")

\* However its numbers are typed, every line of the owner's list rings once,
\* when a booking is made or cancelled (notifications.service.ts,
\* ownerRecipients).
OwnersToldOnce ==
    LET owners == {c \in made : c.channel = "kakao_owner"} IN
    event # Nothing /\ event.kind \in {"create", "cancel"} /\ "kakao_owner" \in env =>
        /\ \A c, d \in owners : c.to = d.to => c = d
        /\ \A i \in DOMAIN event.owners : event.owners[i] # NoPhone =>
              \E c \in owners : c.to = normalizePhoneForSolapi(event.owners[i])

\* Nobody is told of one event twice.
ToldOnce == CustomerToldOnce /\ OwnersToldOnce

\* A text message goes to the number of the customer, in this country or in
\* another ("해외 번호 → 국제 LMS", notifications.service.ts:741).
ForeignNumberReached ==
    \A c \in made : c.channel = "sms" => c.to = <<"right", event.phone.of>>
=============================================================================
