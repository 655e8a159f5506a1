----------------------------- MODULE MCServices -----------------------------
(***************************************************************************)
(* The services beside reservations, coupons and storages, for TLC:        *)
(* signing in (customers with Kakao, owners and administrators with a      *)
(* password, the codes sent to an e-mail address), the phones that get     *)
(* pushes, the messages of an event, reviews, photos and opening hours.    *)
(*                                                                         *)
(* They share no state: a behaviour is one of one of them, which part      *)
(* names, and the variables of the others stay as they are at first.       *)
(***************************************************************************)
EXTENDS CustomerAccounts, Credentials, EmailVerification, PushDevices, Reviews,
        Notifications, LuggagePhotos, StoreHours, TLC

CONSTANTS
    w1, w2,
    p1, p2, r1, r2,
    A, B, C, ownerA, ownerC, d1, f, g,
    x, y,
    l1, l2,
    mon, sun,
    Parts       \* the parts that run

VARIABLE part

services ==
    <<part, vars, credentialVars, emailVars, deviceVars, reviewVars, messageVars,
      photoVars, hoursVars>>

(* For PushDevices: an owner with the stores A and B and another one with   *)
(* C; f works at A, g at C.                                                 *)
Owners == [s \in {A, B, C} |-> IF s = C THEN ownerC ELSE ownerA]
Works == [s \in {f, g} |-> IF s = f THEN A ELSE C]

(* For Reviews: one booking of two rows, made by a customer who is signed   *)
(* in.                                                                      *)
OneGroup == [r \in {l1, l2} |-> A]
Representative == [b \in {A} |-> l1]

(* For Notifications: one number; one number typed in two ways and another  *)
(* person's; a store without a number of its own.                           *)
Number(form, p) == [form |-> form, of |-> p]
Lists == {<<Number("local", x)>>,
          <<Number("local", x), Number("plus82", x), Number("local", y)>>,
          <<NoPhone, Number("local", y)>>}

(* For StoreHours: saves of parts of the hours, right ones and wrong ones.  *)
None == [open |-> Keep, close |-> Keep, operating |-> Keep]
All(v) == [d \in {mon, sun} |-> v]
Blank == [days |-> All(None), breaks |-> Keep, holiday |-> Keep, is24 |-> Keep]
Dtos ==
    {[Blank EXCEPT !.days[mon] = [open |-> 1, close |-> 2, operating |-> Keep]],
     [Blank EXCEPT !.days[mon].operating = FALSE],
     [Blank EXCEPT !.days[sun] = [open |-> 2, close |-> Null, operating |-> TRUE],
                   !.is24 = TRUE],
     [Blank EXCEPT !.breaks =
        [All([start |-> 1, end |-> 2]) EXCEPT ![mon] = [start |-> 2, end |-> Null]]],
     [Blank EXCEPT !.breaks = All([start |-> 2, end |-> 2])],
     [Blank EXCEPT !.holiday = [open |-> 1, close |-> 2, operating |-> Keep]]}

----------------------------------------------------------------------------
PartsInit ==
    /\ part \in Parts
    /\ Init /\ EmailInit /\ DevicesInit /\ ReviewsInit /\ HoursInit
    /\ CredentialsInit /\ (part # "passwords" => kind = "owner")
    /\ MessagesInit /\ (part # "messages" => env = {})
    /\ PhotosInit /\ (part # "photos" => uploaded = 0)

\* A step of one part leaves the other parts alone.
CustomersStep ==
    /\ part = "customers" /\ Next
    /\ UNCHANGED <<credentialVars, emailVars, deviceVars, reviewVars,
                   messageVars, photoVars, hoursVars>>
CredentialsStep ==
    /\ part = "passwords" /\ CredentialsNext
    /\ UNCHANGED <<vars, emailVars, deviceVars, reviewVars,
                   messageVars, photoVars, hoursVars>>
EmailStep ==
    /\ part = "codes" /\ EmailNext
    /\ UNCHANGED <<vars, credentialVars, deviceVars, reviewVars,
                   messageVars, photoVars, hoursVars>>
DevicesStep ==
    /\ part = "devices" /\ DevicesNext
    /\ UNCHANGED <<vars, credentialVars, emailVars, reviewVars,
                   messageVars, photoVars, hoursVars>>
ReviewsStep ==
    /\ part = "reviews" /\ ReviewsNext
    /\ UNCHANGED <<vars, credentialVars, emailVars, deviceVars,
                   messageVars, photoVars, hoursVars>>
MessagesStep ==
    /\ part = "messages" /\ MessagesNext
    /\ UNCHANGED <<vars, credentialVars, emailVars, deviceVars,
                   reviewVars, photoVars, hoursVars>>
PhotosStep ==
    /\ part = "photos" /\ PhotosNext
    /\ UNCHANGED <<vars, credentialVars, emailVars, deviceVars,
                   reviewVars, messageVars, hoursVars>>
HoursStep ==
    /\ part = "hours" /\ HoursNext
    /\ UNCHANGED <<vars, credentialVars, emailVars, deviceVars,
                   reviewVars, messageVars, photoVars>>
PartsNext ==
    /\ UNCHANGED part
    /\ \/ CustomersStep \/ CredentialsStep \/ EmailStep \/ DevicesStep
       \/ ReviewsStep \/ MessagesStep \/ PhotosStep \/ HoursStep

PartsSpec == PartsInit /\ [][PartsNext]_services

----------------------------------------------------------------------------
\* Every part keeps the types of its variables (schema.prisma, models customers,
\* owners, email_verifications, store_push_devices, reviews,
\* store_operating_hours).
TypesOK ==
    CASE part = "customers" -> TypeOK
      [] part = "passwords" -> CredentialsTypeOK
      [] part = "codes" -> EmailTypeOK
      [] part = "devices" -> DevicesTypeOK
      [] part = "reviews" -> ReviewsTypeOK
      [] part = "messages" -> MessagesTypeOK
      [] part = "photos" -> PhotosTypeOK
      [] part = "hours" -> HoursTypeOK

Symmetry ==
    Permutations(Person) \union Permutations(CustomerId) \union Permutations(Worker)
=============================================================================
