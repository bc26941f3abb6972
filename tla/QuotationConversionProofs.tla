------------------------- MODULE QuotationConversionProofs -------------------------
(***************************************************************************)
(* What QuotationConversion guarantees for any number of quotations and    *)
(* requests and any prices, from one inductive invariant.                  *)
(*                                                                         *)
(* And that the rates of an agent (AgentRates), by which quotations are      *)
(* priced, are saved as they were shown: what changed is on file, or among    *)
(* the requests that are still to be sent.                                   *)
(***************************************************************************)
EXTENDS AgentRates, Sums, QuotationConversion, SequenceTheorems, TLAPS

-----------------------------------------------------------------------------
(* Prices are natural numbers.                                               *)

\* A product of naturals is one.
LEMMA Product == ASSUME NEW m \in Nat, NEW n \in Nat PROVE m * n \in Nat
OBVIOUS

\* What is insured for is a natural number.
LEMMA InsuredType ==
    ASSUME NEW mode, NEW key \in Nat, NEW car \in Vehicles, NEW period \in Periods
    PROVE  Insured(mode, key, car, period) \in Nat
<1>1. car.value \in Values /\ car.seats \in SeatCounts
  BY DEF Vehicles
<1>2. car.value \in Nat /\ car.seats \in Nat
  BY <1>1, QuotationAssumption
<1>3. ValueAt[car.value][period] \in Nat
  BY <1>1, QuotationAssumption
<1>4. car.seats * key \in Nat
  BY <1>2, Product
<1> QED
  BY <1>2, <1>3, <1>4 DEF Insured

\* What is owed is a natural number.
LEMMA OwedType ==
    ASSUME NEW mode, NEW amount \in Nat, NEW r \in Rates
    PROVE  Owed(mode, amount, r) \in Nat
<1> USE QuotationAssumption
<1>1. r \in Nat /\ amount * r \in Nat
  BY Product
<1>2. Brackets(amount) \in Nat
  <2>1. CASE amount <= Threshold
    BY <2>1 DEF Brackets
  <2>2. CASE ~(amount <= Threshold)
    <3>1. amount - Threshold + Bracket - 1 \in Nat
      BY <2>2
    <3> QED
      BY <2>2, <3>1 DEF Brackets
  <2> QED
    BY <2>1, <2>2
<1>3. Brackets(amount) * r \in Nat
  BY <1>1, <1>2, Product
<1> QED
  BY <1>1, <1>3 DEF Owed

-----------------------------------------------------------------------------
(* What a request has in hand is what its next step needs.                   *)

Editing    == {"insert", "lock", "check", "write"}
Submitting == {"reprice", "lockSubmit", "create"}

\* A payable that is that of the terms, at a rate, and not below the premium.
Priced(t, payable) ==
    /\ t.mode # "FLAT_TIER" => t.premium >= payable
    /\ \E n \in Rates : payable = Owed(t.mode, t.amount, n)

InHand(x) ==
    /\ x.pc \in {"price"} \cup Editing \cup Submitting => x.quotation \in Quotations
    /\ x.pc \in {"price", "reprice", "vehicle"} => x.car \in Vehicles
    /\ x.pc \in Editing \cup Submitting => x.terms \in Terms
    /\ x.pc \in {"lockSubmit", "create"} => Priced(x.terms, x.payable)

LocalOK == TypeOK /\ \A r \in Reqs : InHand(req[r])

\* A request that has not begun holds nothing.
LEMMA IdleInHand == Idle \in Request /\ InHand(Idle)
BY DEF Idle, Request, Steps, InHand, Editing, Submitting, UnreadCar, Unfiled

\* One request's move to a well-formed record leaves all of them so.
LEMMA RequestsInHand ==
    ASSUME LocalOK, NEW r \in Reqs, NEW x \in Request, InHand(x), Goes(r, x)
    PROVE  req' \in [Reqs -> Request] /\ \A s \in Reqs : InHand(req'[s])
<1>1. /\ req' \in [Reqs -> Request]
      /\ \A s \in Reqs : req'[s] = IF s = r THEN x ELSE req[s]
  BY DEF LocalOK, TypeOK, Goes
<1> QED
  BY <1>1 DEF LocalOK

\* Nor does one that has ended.
LEMMA EndsInHand ==
    ASSUME LocalOK, NEW r \in Reqs, Ends(r)
    PROVE  req' \in [Reqs -> Request] /\ \A s \in Reqs : InHand(req'[s])
BY IdleInHand, RequestsInHand DEF Ends, Goes

\* The requests are well formed at first.
LEMMA LocalInit == Init => LocalOK
<1> SUFFICES ASSUME Init PROVE LocalOK
  OBVIOUS
<1>1. TypeOK
  <2> USE DEF Init
  <2>1. applications \in Seq(Application)
    OBVIOUS
  <2>2. vehicle \in Vehicles
    BY DEF Vehicles
  <2>3. req \in [Reqs -> Request]
    BY IdleInHand
  <2>4. quotation \in [Quotations -> Terms \cup {Unfiled}] /\ lock \in [Quotations -> Reqs \cup {None}]
    OBVIOUS
  <2>5. rate \in Rates /\ changes \in 0..MaxChanges
    BY QuotationAssumption
  <2> QED
    BY <2>1, <2>2, <2>3, <2>4, <2>5 DEF TypeOK
<1>2. \A r \in Reqs : req[r] = Idle
  BY DEF Init
<1> QED
  BY <1>1, <1>2, IdleInHand DEF LocalOK

\* What a submission adds.
LEMMA OneCreated ==
    ASSUME LocalOK, NEW r \in Reqs, SubmitCreate(r), applications' # applications
    PROVE  /\ ~Converted(req[r].quotation)
           /\ applications' \in Seq(Application)
           /\ \E a \in Application :
                /\ a.source = req[r].quotation
                /\ Priced(a, a.payable)
                /\ DOMAIN applications' = DOMAIN applications \cup {Len(applications) + 1}
                /\ Len(applications) + 1 \notin DOMAIN applications
                /\ \A i \in DOMAIN applications : applications'[i] = applications[i]
                /\ applications'[Len(applications) + 1] = a
<1> DEFINE t == req[r].terms
           a == [source |-> req[r].quotation, mode |-> t.mode, period |-> t.period,
                 amount |-> t.amount, premium |-> t.premium, payable |-> req[r].payable]
<1>1. /\ req[r] \in Request /\ req[r].quotation \in Quotations /\ t \in Terms
      /\ Priced(t, req[r].payable)
  BY DEF SubmitCreate, LocalOK, TypeOK, InHand, Submitting
<1>2. a \in Application /\ a.source = req[r].quotation /\ Priced(a, a.payable)
  BY <1>1 DEF Terms, Application, Request, Priced
<1>3. ~Converted(req[r].quotation) /\ applications' = Append(applications, a)
  BY DEF SubmitCreate, SourceTaken
<1>4. applications \in Seq(Application)
  BY DEF LocalOK, TypeOK
<1>5. /\ applications' \in Seq(Application)
      /\ Len(applications') = Len(applications) + 1
      /\ \A i \in 1..Len(applications) : applications'[i] = applications[i]
      /\ applications'[Len(applications) + 1] = a
  BY <1>2, <1>3, <1>4, AppendProperties
<1>6. /\ DOMAIN applications = 1..Len(applications) /\ Len(applications) \in Nat
      /\ DOMAIN applications' = 1..Len(applications')
  BY <1>4, <1>5
<1> HIDE DEF a
<1>7. /\ DOMAIN applications' = DOMAIN applications \cup {Len(applications) + 1}
      /\ Len(applications) + 1 \notin DOMAIN applications
  BY <1>5, <1>6
<1> QED
  BY <1>2, <1>3, <1>5, <1>6, <1>7

\* A step keeps the requests well formed.
LEMMA LocalStep == LocalOK /\ [Next]_vars => LocalOK'
<1> SUFFICES ASSUME LocalOK, [Next]_vars PROVE LocalOK'
  OBVIOUS
<1> DEFINE Rest == req' \in [Reqs -> Request] /\ \A s \in Reqs : InHand(req'[s])
<1>0. CASE UNCHANGED vars
  BY <1>0 DEF vars, LocalOK, TypeOK
<1>1. ASSUME NEW r \in Reqs, NEW q \in Quotations, QuoteRead(r, q)
      PROVE  LocalOK'
  <2> DEFINE x == [Idle EXCEPT !.pc = "price", !.quotation = q, !.car = vehicle]
  <2>1. x \in Request /\ InHand(x)
    BY DEF LocalOK, TypeOK, Idle, Request, Steps, InHand, Editing, Submitting, Unfiled
  <2>2. Rest
    BY <1>1, <2>1, RequestsInHand DEF QuoteRead
  <2> QED
    BY <1>1, <2>2 DEF QuoteRead, LocalOK, TypeOK
<1>2. ASSUME NEW r \in Reqs, NEW mode \in Modes, NEW period \in Periods, NEW key \in Keys,
             NEW premium \in Premiums, QuotePrice(r, mode, period, key, premium)
      PROVE  LocalOK'
  <2> DEFINE amount == Insured(mode, key, req[r].car, period)
             owed   == Owed(mode, amount, rate)
             t      == [mode |-> mode, period |-> period, amount |-> amount,
                        premium |-> Charged(mode, premium, owed)]
             x      == [req[r] EXCEPT !.pc = IF Filed(req[r].quotation) THEN "lock" ELSE "insert",
                                      !.car = UnreadCar, !.terms = t]
  <2>1. req[r] \in Request /\ req[r].pc = "price" /\ req[r].car \in Vehicles
                           /\ req[r].quotation \in Quotations
    BY <1>2 DEF QuotePrice, LocalOK, TypeOK, InHand
  <2>2. amount \in Nat
    BY <2>1, InsuredType, QuotationAssumption
  <2>3. owed \in Nat
    BY <2>2, OwedType DEF LocalOK, TypeOK
  <2>4. t \in Terms
    BY <2>2, <2>3, QuotationAssumption DEF Terms, Charged
  <2>5. x \in Request /\ InHand(x)
    BY <2>1, <2>4 DEF Request, Steps, InHand, Editing, Submitting
  <2>6. Ends(r) \/ Goes(r, x)
    BY <1>2 DEF QuotePrice
  <2>7. Rest
    BY <2>5, <2>6, EndsInHand, RequestsInHand
  <2> QED
    BY <1>2, <2>7 DEF QuotePrice, LocalOK, TypeOK
<1>3. ASSUME NEW r \in Reqs, QuoteInsert(r)
      PROVE  LocalOK'
  <2>1. req[r].terms \in Terms
    BY <1>3 DEF QuoteInsert, LocalOK, InHand, Editing
  <2>2. Rest
    BY <1>3, EndsInHand DEF QuoteInsert
  <2> QED
    BY <1>3, <2>1, <2>2 DEF QuoteInsert, LocalOK, TypeOK
<1>4. ASSUME NEW r \in Reqs, EditLock(r) \/ SubmitLock(r)
      PROVE  LocalOK'
  <2>1. PICK next \in {"check", "create"} :
            /\ Lock(r, IF next = "check" THEN "lock" ELSE "lockSubmit", next)
    BY <1>4 DEF EditLock, SubmitLock
  <2> DEFINE x == [req[r] EXCEPT !.pc = next]
  <2>2. x \in Request /\ InHand(x)
    BY <2>1 DEF Lock, LocalOK, TypeOK, Request, Steps, InHand, Editing, Submitting
  <2>3. Rest
    BY <2>1, <2>2, RequestsInHand DEF Lock
  <2> QED
    BY <2>1, <2>3 DEF Lock, LocalOK, TypeOK
<1>5. ASSUME NEW r \in Reqs, EditCheck(r)
      PROVE  LocalOK'
  <2> DEFINE x == [req[r] EXCEPT !.pc = "write"]
  <2>1. x \in Request /\ InHand(x)
    BY <1>5 DEF EditCheck, LocalOK, TypeOK, Request, Steps, InHand, Editing, Submitting
  <2>2. Ends(r) \/ Goes(r, x)
    BY <1>5 DEF EditCheck
  <2>3. Rest
    BY <2>1, <2>2, EndsInHand, RequestsInHand
  <2> QED
    BY <1>5, <2>3 DEF EditCheck, LocalOK, TypeOK
<1>6. ASSUME NEW r \in Reqs, EditWrite(r)
      PROVE  LocalOK'
  <2>1. req[r].terms \in Terms
    BY <1>6 DEF EditWrite, LocalOK, InHand, Editing
  <2>2. Rest
    BY <1>6, EndsInHand DEF EditWrite
  <2> QED
    BY <1>6, <2>1, <2>2 DEF EditWrite, LocalOK, TypeOK
<1>7. ASSUME NEW r \in Reqs, NEW q \in Quotations, SubmitRead(r, q)
      PROVE  LocalOK'
  <2> DEFINE x == [Idle EXCEPT !.pc = "reprice", !.quotation = q, !.terms = quotation[q],
                               !.car = vehicle]
  <2>1. x \in Request /\ InHand(x)
    BY <1>7 DEF SubmitRead, Filed, LocalOK, TypeOK, Idle, Request, Steps, InHand, Editing, Submitting
  <2>2. Rest
    BY <1>7, <2>1, RequestsInHand DEF SubmitRead
  <2> QED
    BY <1>7, <2>2 DEF SubmitRead, LocalOK, TypeOK
<1>8. ASSUME NEW r \in Reqs, SubmitPrice(r)
      PROVE  LocalOK'
  <2> DEFINE terms == req[r].terms
             mode  == terms.mode
             car   == req[r].car
             fresh == Insured(mode, AsPicked(mode, terms.amount, car), car, terms.period)
             owed  == Owed(mode, fresh, rate)
             x     == [req[r] EXCEPT !.pc = "lockSubmit", !.car = UnreadCar, !.payable = owed]
  <2>1. CASE Ends(r)
    BY <1>8, <2>1, EndsInHand DEF SubmitPrice, LocalOK, TypeOK
  <2>2. CASE ~Ends(r)
    <3>1. /\ Goes(r, x) /\ fresh = terms.amount /\ ~BelowFloor(mode, terms.premium, owed)
          /\ req[r].pc = "reprice"
      BY <1>8, <2>2 DEF SubmitPrice, Moved
    <3>2. req[r] \in Request /\ terms \in Terms /\ req[r].quotation \in Quotations
      BY <3>1 DEF LocalOK, TypeOK, InHand, Submitting
    <3>3. owed \in Nat
      BY <3>1, <3>2, OwedType DEF LocalOK, TypeOK, Terms
    <3>4. Priced(terms, owed)
      BY <3>1, <3>2, <3>3 DEF Priced, BelowFloor, LocalOK, TypeOK, Terms
    <3>5. x \in Request /\ InHand(x)
      BY <3>2, <3>3, <3>4 DEF Request, Steps, InHand, Editing, Submitting
    <3>6. Rest
      BY <3>1, <3>5, RequestsInHand
    <3> QED
      BY <1>8, <3>6 DEF SubmitPrice, LocalOK, TypeOK
  <2> QED
    BY <2>1, <2>2
<1>9. ASSUME NEW r \in Reqs, SubmitCreate(r)
      PROVE  LocalOK'
  <2>3. applications' \in Seq(Application)
    BY <1>9, OneCreated DEF LocalOK, TypeOK
  <2>4. Rest
    BY <1>9, EndsInHand DEF SubmitCreate
  <2> QED
    BY <1>9, <2>3, <2>4 DEF SubmitCreate, LocalOK, TypeOK
<1>10. ASSUME NEW r \in Reqs, Fail(r)
      PROVE  LocalOK'
  <2>1. Rest
    BY <1>10, EndsInHand DEF Fail
  <2> QED
    BY <1>10, <2>1 DEF Fail, LocalOK, TypeOK
<1>11. ASSUME NEW r \in Reqs, VehicleRead(r)
      PROVE  LocalOK'
  <2> DEFINE x == [Idle EXCEPT !.pc = "vehicle", !.car = vehicle]
  <2>1. x \in Request /\ InHand(x)
    BY DEF LocalOK, TypeOK, Idle, Request, Steps, InHand, Editing, Submitting, Unfiled
  <2>2. Rest
    BY <1>11, <2>1, RequestsInHand DEF VehicleRead
  <2> QED
    BY <1>11, <2>2, QuotationAssumption DEF VehicleRead, LocalOK, TypeOK
<1>12. ASSUME NEW r \in Reqs, NEW value \in Values, NEW seats \in SeatCounts,
              VehicleWrite(r, value, seats)
      PROVE  LocalOK'
  <2>1. vehicle' \in Vehicles
    BY <1>12 DEF VehicleWrite, LocalOK, InHand, Vehicles
  <2>2. Rest
    BY <1>12, EndsInHand DEF VehicleWrite
  <2>3. UNCHANGED <<quotation, applications, lock, rate, changes>>
    BY <1>12 DEF VehicleWrite
  <2> QED
    BY <2>1, <2>2, <2>3 DEF LocalOK, TypeOK
<1>13. CASE AssessVehicle
  <2>1. vehicle' \in Vehicles
    BY <1>13 DEF AssessVehicle, LocalOK, TypeOK, Vehicles
  <2>2. UNCHANGED <<quotation, applications, lock, rate, req>> /\ changes' \in 0..MaxChanges
    BY <1>13, QuotationAssumption DEF AssessVehicle, LocalOK, TypeOK
  <2> QED
    BY <2>1, <2>2 DEF LocalOK, TypeOK
<1>14. ASSUME NEW n \in Rates, ChangeRate(n)
      PROVE  LocalOK'
  BY <1>14, QuotationAssumption DEF ChangeRate, LocalOK, TypeOK
<1> QED
  BY <1>0, <1>1, <1>2, <1>3, <1>4, <1>5, <1>6, <1>7, <1>8, <1>9, <1>10, <1>11, <1>12, <1>13,
     <1>14 DEF Next

-----------------------------------------------------------------------------
(* The lock of a row and who may file it.                                    *)

\* A request past the lock holds it.
LocksHeld ==
    \A r \in Reqs : req[r].pc \in {"check", "write", "create"} => lock[req[r].quotation] = r

\* A quotation that is edited or submitted is on file; one on its way in is
\* not, and nobody else is at work on it.
FiledFirst ==
    /\ \A r \in Reqs :
          /\ req[r].pc \in {"lock", "check", "write"} \cup Submitting => Filed(req[r].quotation)
          /\ req[r].pc = "insert" => ~Filed(req[r].quotation)
          /\ (req[r].pc = "price" /\ ~Filed(req[r].quotation)) \/ req[r].pc = "insert" =>
                \A s \in Reqs \ {r} : req[s].quotation # req[r].quotation
    /\ \A q \in Quotations : Converted(q) => Filed(q)

\* What is about to be written has not been converted.
WritesUnconverted ==
    \A r \in Reqs : req[r].pc = "write" => ~Converted(req[r].quotation)

Protocol == LocksHeld /\ FiledFirst /\ WritesUnconverted

IInv == LocalOK /\ Protocol

\* Terms on file are not those of a quotation that is not filed.
LEMMA TermsAreFiled == \A t \in Terms : t # Unfiled
BY QuotationAssumption DEF Terms, Unfiled, NoPeriod

\* How the requests move.
LEMMA MovesOne ==
    ASSUME LocalOK, NEW r \in Reqs, NEW x, Goes(r, x)
    PROVE  \A s \in Reqs : req'[s] = IF s = r THEN x ELSE req[s]
BY DEF LocalOK, TypeOK, Goes

\* Ending a request touches that request only.
LEMMA EndsOne ==
    ASSUME LocalOK, NEW r \in Reqs, Ends(r)
    PROVE  \A s \in Reqs : req'[s] = IF s = r THEN Idle ELSE req[s]
BY DEF LocalOK, TypeOK, Ends

\* A request that ends leaves the protocol as it was, if the tables and the
\* locks of the others are.
LEMMA EndsProtocol ==
    ASSUME IInv, NEW r \in Reqs, Ends(r), UNCHANGED <<quotation, applications>>,
           \A s \in Reqs \ {r} : req[s].pc \in {"check", "write", "create"} =>
                lock'[req[s].quotation] = lock[req[s].quotation]
    PROVE  Protocol'
<1>1. \A s \in Reqs : req'[s] = IF s = r THEN Idle ELSE req[s]
  BY EndsOne DEF IInv
<1>2. \A q \in Quotations : (Filed(q)' <=> Filed(q)) /\ (Converted(q)' <=> Converted(q))
  BY DEF Filed, Converted
<1>3. LocksHeld'
  BY <1>1 DEF IInv, Protocol, LocksHeld, Idle
<1>4. \A s \in Reqs : req[s].pc \in {"price"} \cup Editing \cup Submitting => req[s].quotation \in Quotations
  BY DEF IInv, LocalOK, InHand
<1>5. None \notin Quotations
  BY QuotationAssumption
<1>6. FiledFirst'
  BY <1>1, <1>2, <1>4, <1>5 DEF IInv, Protocol, FiledFirst, Idle, Editing, Submitting
<1>7. WritesUnconverted'
  BY <1>1, <1>2, <1>4 DEF IInv, Protocol, WritesUnconverted, Idle, Editing
<1> QED
  BY <1>3, <1>6, <1>7 DEF Protocol

\* The protocol is kept before anyone asks.
LEMMA ProtocolInit == Init => Protocol
<1> SUFFICES ASSUME Init PROVE Protocol
  OBVIOUS
<1>1. \A r \in Reqs : req[r].pc = "idle"
  BY DEF Init, Idle
<1>2. \A q \in Quotations : ~Converted(q)
  BY DEF Init, Converted
<1> QED
  BY <1>1, <1>2 DEF Protocol, LocksHeld, FiledFirst, WritesUnconverted, Submitting

\* Every step keeps the protocol.
LEMMA ProtocolStep == IInv /\ [Next]_vars => Protocol'
<1> SUFFICES ASSUME IInv, [Next]_vars PROVE Protocol'
  OBVIOUS
<1> USE DEF IInv, Protocol
<1>q. \A s \in Reqs : req[s].pc \in {"price"} \cup Editing \cup Submitting => req[s].quotation \in Quotations
  BY DEF LocalOK, InHand
<1> DEFINE Same == UNCHANGED <<quotation, applications>>
<1>s. Same => \A q \in Quotations : (Filed(q)' <=> Filed(q)) /\ (Converted(q)' <=> Converted(q))
  BY DEF Filed, Converted
<1>0. ASSUME UNCHANGED <<quotation, applications, lock, req>>
      PROVE  Protocol'
  BY <1>0 DEF LocksHeld, FiledFirst, WritesUnconverted, Filed, Converted
<1>1. ASSUME NEW r \in Reqs, NEW q \in Quotations, QuoteRead(r, q)
      PROVE  Protocol'
  <2> DEFINE x == [Idle EXCEPT !.pc = "price", !.quotation = q, !.car = vehicle]
  <2>1. \A s \in Reqs : req'[s] = IF s = r THEN x ELSE req[s]
    BY <1>1, MovesOne DEF QuoteRead
  <2>2. x.pc = "price" /\ x.quotation = q /\ req[r].pc = "idle" /\ lock' = lock /\ Same
    BY <1>1 DEF QuoteRead, Idle
  <2>3. Filed(q) \/ \A s \in Reqs : req[s].quotation # q
    BY <1>1 DEF QuoteRead
  <2> HIDE DEF x
  <2>4. LocksHeld'
    BY <2>1, <2>2 DEF LocksHeld
  <2>5. FiledFirst'
    BY <1>q, <1>s, <2>1, <2>2, <2>3 DEF FiledFirst, Editing, Submitting
  <2>6. WritesUnconverted'
    BY <1>q, <1>s, <2>1, <2>2 DEF WritesUnconverted, Editing
  <2> QED
    BY <2>4, <2>5, <2>6
<1>2. ASSUME NEW r \in Reqs, NEW mode \in Modes, NEW period \in Periods, NEW key \in Keys,
             NEW premium \in Premiums, QuotePrice(r, mode, period, key, premium)
      PROVE  Protocol'
  <2>1. Same /\ lock' = lock /\ req[r].pc = "price"
    BY <1>2 DEF QuotePrice
  <2>2. CASE Ends(r)
    BY <2>1, <2>2, EndsProtocol
  <2>3. CASE ~Ends(r)
    <3>1. PICK t : Goes(r, [req[r] EXCEPT !.pc = IF Filed(req[r].quotation) THEN "lock" ELSE "insert",
                                          !.car = UnreadCar, !.terms = t])
      BY <1>2, <2>3 DEF QuotePrice
    <3> DEFINE x == [req[r] EXCEPT !.pc = IF Filed(req[r].quotation) THEN "lock" ELSE "insert",
                                   !.car = UnreadCar, !.terms = t]
    <3>2. \A s \in Reqs : req'[s] = IF s = r THEN x ELSE req[s]
      BY <3>1, MovesOne
    <3>3. req[r] \in Request
      BY DEF LocalOK, TypeOK
    <3>4. x.pc = (IF Filed(req[r].quotation) THEN "lock" ELSE "insert") /\ x.quotation = req[r].quotation
      BY <3>3 DEF Request
    <3> HIDE DEF x
    <3>5. LocksHeld'
      BY <2>1, <3>2, <3>4 DEF LocksHeld
    <3>6. FiledFirst'
      BY <1>q, <1>s, <2>1, <3>2, <3>4 DEF FiledFirst, Editing, Submitting
    <3>7. WritesUnconverted'
      BY <1>q, <1>s, <2>1, <3>2, <3>4 DEF WritesUnconverted, Editing
    <3> QED
      BY <3>5, <3>6, <3>7
  <2> QED
    BY <2>2, <2>3
<1>3. ASSUME NEW r \in Reqs, QuoteInsert(r)
      PROVE  Protocol'
  <2> DEFINE p == req[r].quotation
  <2>1. /\ \A s \in Reqs : req'[s] = IF s = r THEN Idle ELSE req[s]
        /\ req[r].pc = "insert" /\ lock' = lock /\ applications' = applications
    BY <1>3, EndsOne DEF QuoteInsert
  <2>2. /\ p \in Quotations /\ req[r].terms # Unfiled
        /\ quotation' = [quotation EXCEPT ![p] = req[r].terms]
    BY <1>3, TermsAreFiled DEF QuoteInsert, LocalOK, InHand, Editing
  <2>3. \A q \in Quotations : /\ Filed(q)' <=> Filed(q) \/ q = p
                              /\ Converted(q)' <=> Converted(q)
    BY <2>1, <2>2 DEF LocalOK, TypeOK, Filed, Converted
  <2>4. \A s \in Reqs \ {r} : req[s].quotation # p
    BY <2>1 DEF FiledFirst
  <2>5. LocksHeld'
    BY <2>1 DEF LocksHeld, Idle
  <2>6. FiledFirst'
    BY <1>q, <2>1, <2>2, <2>3, <2>4, QuotationAssumption DEF FiledFirst, Idle, Editing, Submitting
  <2>7. WritesUnconverted'
    BY <1>q, <2>1, <2>3 DEF WritesUnconverted, Idle, Editing
  <2> QED
    BY <2>5, <2>6, <2>7
<1>4. ASSUME NEW r \in Reqs, EditLock(r) \/ SubmitLock(r)
      PROVE  Protocol'
  <2>1. PICK next \in {"check", "create"} :
            Lock(r, IF next = "check" THEN "lock" ELSE "lockSubmit", next)
    BY <1>4 DEF EditLock, SubmitLock
  <2> DEFINE x == [req[r] EXCEPT !.pc = next]
             p == req[r].quotation
  <2>2. \A s \in Reqs : req'[s] = IF s = r THEN x ELSE req[s]
    BY <2>1, MovesOne DEF Lock
  <2>3. x.pc = next /\ x.quotation = p
    BY DEF LocalOK, TypeOK, Request
  <2>4. /\ req[r].pc \in {"lock", "lockSubmit"} /\ Same
        /\ lock[p] = None /\ lock' = [lock EXCEPT ![p] = r]
    BY <2>1 DEF Lock
  <2>5. p \in Quotations /\ lock' \in [Quotations -> Reqs \cup {None}] /\ None \notin Reqs
    BY <1>q, <2>4, QuotationAssumption DEF Editing, Submitting, LocalOK, TypeOK
  <2> HIDE DEF x
  <2>6. LocksHeld'
    BY <1>q, <2>2, <2>3, <2>4, <2>5 DEF LocksHeld, LocalOK, TypeOK, Editing, Submitting
  <2>7. FiledFirst'
    BY <1>q, <1>s, <2>2, <2>3, <2>4 DEF FiledFirst, Editing, Submitting
  <2>8. WritesUnconverted'
    BY <1>q, <1>s, <2>2, <2>3, <2>4 DEF WritesUnconverted, Editing
  <2> QED
    BY <2>6, <2>7, <2>8
<1>5. ASSUME NEW r \in Reqs, EditCheck(r)
      PROVE  Protocol'
  <2> DEFINE p == req[r].quotation
  <2>1. Same /\ req[r].pc = "check" /\ lock[p] = r
    BY <1>5 DEF EditCheck, LocksHeld
  <2>2. CASE Converted(p)
    <3>1. Ends(r) /\ lock' = [lock EXCEPT ![p] = None]
      BY <1>5, <2>2 DEF EditCheck, ConvertedMeanwhile
    <3>2. \A s \in Reqs \ {r} : req[s].pc \in {"check", "write", "create"} =>
              lock'[req[s].quotation] = lock[req[s].quotation]
      BY <1>q, <2>1, <3>1 DEF LocksHeld, LocalOK, TypeOK, Editing, Submitting
    <3> QED
      BY <2>1, <3>1, <3>2, EndsProtocol
  <2>3. CASE ~Converted(p)
    <3> DEFINE x == [req[r] EXCEPT !.pc = "write"]
    <3>1. \A s \in Reqs : req'[s] = IF s = r THEN x ELSE req[s]
      BY <1>5, <2>3, MovesOne DEF EditCheck, ConvertedMeanwhile
    <3>2. x.pc = "write" /\ x.quotation = p /\ lock' = lock
      BY <1>5, <2>3 DEF EditCheck, ConvertedMeanwhile, LocalOK, TypeOK, Request
    <3> HIDE DEF x
    <3>3. LocksHeld'
      BY <2>1, <3>1, <3>2 DEF LocksHeld
    <3>4. FiledFirst'
      BY <1>q, <1>s, <2>1, <3>1, <3>2 DEF FiledFirst, Editing, Submitting
    <3>5. WritesUnconverted'
      BY <1>q, <1>s, <2>1, <2>3, <3>1, <3>2 DEF WritesUnconverted, Editing
    <3> QED
      BY <3>3, <3>4, <3>5
  <2> QED
    BY <2>2, <2>3
<1>6. ASSUME NEW r \in Reqs, EditWrite(r)
      PROVE  Protocol'
  <2> DEFINE p == req[r].quotation
  <2>1. /\ \A s \in Reqs : req'[s] = IF s = r THEN Idle ELSE req[s]
        /\ req[r].pc = "write" /\ lock[p] = r
        /\ lock' = [lock EXCEPT ![p] = None] /\ applications' = applications
    BY <1>6, EndsOne DEF EditWrite, LocksHeld
  <2>2. /\ p \in Quotations /\ req[r].terms # Unfiled /\ Filed(p)
        /\ quotation' = [quotation EXCEPT ![p] = req[r].terms]
    BY <1>6, <1>q, TermsAreFiled DEF EditWrite, LocalOK, InHand, FiledFirst, Editing
  <2>3. \A q \in Quotations : (Filed(q)' <=> Filed(q)) /\ (Converted(q)' <=> Converted(q))
    BY <2>1, <2>2 DEF LocalOK, TypeOK, Filed, Converted
  <2>4. LocksHeld'
    BY <1>q, <2>1 DEF LocksHeld, LocalOK, TypeOK, Idle, Editing, Submitting
  <2>5. FiledFirst'
    BY <1>q, <2>1, <2>3, QuotationAssumption DEF FiledFirst, Idle, Editing, Submitting
  <2>6. WritesUnconverted'
    BY <1>q, <2>1, <2>3 DEF WritesUnconverted, Idle, Editing
  <2> QED
    BY <2>4, <2>5, <2>6
<1>7. ASSUME NEW r \in Reqs, NEW q \in Quotations, SubmitRead(r, q)
      PROVE  Protocol'
  <2> DEFINE x == [Idle EXCEPT !.pc = "reprice", !.quotation = q, !.terms = quotation[q],
                               !.car = vehicle]
  <2>1. \A s \in Reqs : req'[s] = IF s = r THEN x ELSE req[s]
    BY <1>7, MovesOne DEF SubmitRead
  <2>2. x.pc = "reprice" /\ x.quotation = q /\ req[r].pc = "idle" /\ lock' = lock /\ Same /\ Filed(q)
    BY <1>7 DEF SubmitRead, Idle
  <2> HIDE DEF x
  <2>3. LocksHeld'
    BY <2>1, <2>2 DEF LocksHeld
  <2>4. FiledFirst'
    <3>1. ASSUME NEW s \in Reqs,
                 (req[s].pc = "price" /\ ~Filed(req[s].quotation)) \/ req[s].pc = "insert"
          PROVE  req[s].quotation # q
      BY <2>2, <3>1 DEF FiledFirst
    <3> QED
      BY <1>q, <1>s, <2>1, <2>2, <3>1 DEF FiledFirst, Editing, Submitting
  <2>5. WritesUnconverted'
    BY <1>q, <1>s, <2>1, <2>2 DEF WritesUnconverted, Editing
  <2> QED
    BY <2>3, <2>4, <2>5
<1>8. ASSUME NEW r \in Reqs, SubmitPrice(r)
      PROVE  Protocol'
  <2>1. Same /\ lock' = lock /\ req[r].pc = "reprice"
    BY <1>8 DEF SubmitPrice
  <2>2. CASE Ends(r)
    BY <2>1, <2>2, EndsProtocol
  <2>3. CASE ~Ends(r)
    <3>1. PICK owed : Goes(r, [req[r] EXCEPT !.pc = "lockSubmit", !.car = UnreadCar, !.payable = owed])
      BY <1>8, <2>3 DEF SubmitPrice
    <3> DEFINE x == [req[r] EXCEPT !.pc = "lockSubmit", !.car = UnreadCar, !.payable = owed]
    <3>2. \A s \in Reqs : req'[s] = IF s = r THEN x ELSE req[s]
      BY <3>1, MovesOne
    <3>3. x.pc = "lockSubmit" /\ x.quotation = req[r].quotation
      BY DEF LocalOK, TypeOK, Request
    <3> HIDE DEF x
    <3>4. LocksHeld'
      BY <2>1, <3>2, <3>3 DEF LocksHeld
    <3>5. FiledFirst'
      BY <1>q, <1>s, <2>1, <3>2, <3>3 DEF FiledFirst, Editing, Submitting
    <3>6. WritesUnconverted'
      BY <1>q, <1>s, <2>1, <3>2, <3>3 DEF WritesUnconverted, Editing
    <3> QED
      BY <3>4, <3>5, <3>6
  <2> QED
    BY <2>2, <2>3
<1>9. ASSUME NEW r \in Reqs, SubmitCreate(r)
      PROVE  Protocol'
  <2> DEFINE p == req[r].quotation
  <2>1. /\ \A s \in Reqs : req'[s] = IF s = r THEN Idle ELSE req[s]
        /\ req[r].pc = "create" /\ lock[p] = r
        /\ lock' = [lock EXCEPT ![p] = None] /\ quotation' = quotation
    BY <1>9, EndsOne DEF SubmitCreate, LocksHeld
  <2>2. \A q \in Quotations : Converted(q)' => Converted(q) \/ q = p
    <3>1. CASE applications' = applications
      BY <3>1 DEF Converted
    <3>2. CASE applications' # applications
      BY <1>9, <3>2, OneCreated DEF Converted
    <3> QED
      BY <3>1, <3>2
  <2>3. \A q \in Quotations : Filed(q)' <=> Filed(q)
    BY <2>1 DEF Filed
  <2>4. p \in Quotations /\ Filed(p)
    BY <1>q, <2>1 DEF FiledFirst, Submitting
  <2>5. LocksHeld'
    BY <1>q, <2>1 DEF LocksHeld, LocalOK, TypeOK, Idle, Editing, Submitting
  <2>6. FiledFirst'
    BY <1>q, <2>1, <2>2, <2>3, <2>4, QuotationAssumption DEF FiledFirst, Idle, Editing, Submitting
  <2>7. WritesUnconverted'
    BY <1>q, <2>1, <2>2 DEF WritesUnconverted, LocksHeld, Idle, Editing
  <2> QED
    BY <2>5, <2>6, <2>7
<1>10. ASSUME NEW r \in Reqs, Fail(r)
      PROVE  Protocol'
  <2>1. \A s \in Reqs \ {r} : req[s].pc \in {"check", "write", "create"} =>
            lock'[req[s].quotation] = lock[req[s].quotation]
    BY <1>10, <1>q DEF Fail, LocksHeld, Editing, Submitting
  <2> QED
    BY <1>10, <2>1, EndsProtocol DEF Fail
<1>11. ASSUME NEW r \in Reqs, VehicleRead(r)
      PROVE  Protocol'
  <2> DEFINE x == [Idle EXCEPT !.pc = "vehicle", !.car = vehicle]
  <2>1. \A s \in Reqs : req'[s] = IF s = r THEN x ELSE req[s]
    BY <1>11, MovesOne DEF VehicleRead
  <2>2. x.pc = "vehicle" /\ x.quotation = None /\ lock' = lock /\ Same
    BY <1>11 DEF VehicleRead, Idle
  <2> HIDE DEF x
  <2>3. LocksHeld'
    BY <2>1, <2>2 DEF LocksHeld
  <2>4. FiledFirst'
    BY <1>q, <1>s, <2>1, <2>2, QuotationAssumption DEF FiledFirst, Editing, Submitting
  <2>5. WritesUnconverted'
    BY <1>q, <1>s, <2>1, <2>2 DEF WritesUnconverted, Editing
  <2> QED
    BY <2>3, <2>4, <2>5
<1>12. ASSUME NEW r \in Reqs, NEW value \in Values, NEW seats \in SeatCounts,
              VehicleWrite(r, value, seats)
      PROVE  Protocol'
  <2>1. Ends(r) /\ lock' = lock /\ Same
    BY <1>12 DEF VehicleWrite
  <2> QED
    BY <2>1, EndsProtocol
<1>13. CASE AssessVehicle
  BY <1>0, <1>13 DEF AssessVehicle
<1>14. ASSUME NEW n \in Rates, ChangeRate(n)
      PROVE  Protocol'
  BY <1>0, <1>14 DEF ChangeRate
<1>15. CASE UNCHANGED vars
  BY <1>0, <1>15 DEF vars
<1> QED
  BY <1>1, <1>2, <1>3, <1>4, <1>5, <1>6, <1>7, <1>8, <1>9, <1>10, <1>11, <1>12, <1>13, <1>14,
     <1>15 DEF Next

-----------------------------------------------------------------------------
(* The theorems.                                                             *)

\* What the applications have in common, with what the requests need for it.
Outcome == ConvertedOnce /\ \A i \in DOMAIN applications : Priced(applications[i], applications[i].payable)

\* Only a submission adds an application; only an edit writes a quotation.
LEMMA WhoWrites ==
    ASSUME [Next]_vars
    PROVE  /\ applications' # applications => \E r \in Reqs : SubmitCreate(r)
           /\ quotation' # quotation => \E r \in Reqs : QuoteInsert(r) \/ EditWrite(r)
<1> DEFINE Same == UNCHANGED <<quotation, applications>>
<1>1. \A r, q : QuoteRead(r, q) \/ SubmitRead(r, q) => Same
  BY DEF QuoteRead, SubmitRead
<1>2. \A r, mode, period, key, premium : QuotePrice(r, mode, period, key, premium) => Same
  BY DEF QuotePrice
<1>3. \A r : EditLock(r) \/ EditCheck(r) \/ SubmitPrice(r) \/ SubmitLock(r) \/ Fail(r) \/ VehicleRead(r) => Same
  BY DEF EditLock, Lock, EditCheck, SubmitPrice, SubmitLock, Fail, VehicleRead
<1>4. \A r, value, seats : VehicleWrite(r, value, seats) => Same
  BY DEF VehicleWrite
<1>5. \A n : AssessVehicle \/ ChangeRate(n) => Same
  BY DEF AssessVehicle, ChangeRate
<1>6. \A r : /\ QuoteInsert(r) \/ EditWrite(r) => applications' = applications
             /\ SubmitCreate(r) => quotation' = quotation
  BY DEF QuoteInsert, EditWrite, SubmitCreate
<1>7. UNCHANGED vars => Same
  BY DEF vars
<1> QED
  BY <1>1, <1>2, <1>3, <1>4, <1>5, <1>6, <1>7 DEF Next

\* Every step keeps what the conversion came to.
LEMMA OutcomeStep == IInv /\ Outcome /\ [Next]_vars => Outcome'
<1> SUFFICES ASSUME IInv, Outcome, [Next]_vars PROVE Outcome'
  OBVIOUS
<1>1. CASE applications' = applications
  BY <1>1 DEF Outcome, ConvertedOnce
<1>2. CASE applications' # applications
  <2>1. PICK r \in Reqs : SubmitCreate(r)
    BY <1>2, WhoWrites
  <2>2. PICK a \in Application :
           /\ a.source = req[r].quotation
           /\ Priced(a, a.payable)
           /\ DOMAIN applications' = DOMAIN applications \cup {Len(applications) + 1}
           /\ Len(applications) + 1 \notin DOMAIN applications
           /\ \A i \in DOMAIN applications : applications'[i] = applications[i]
           /\ applications'[Len(applications) + 1] = a
    BY <1>2, <2>1, OneCreated DEF IInv
  <2>3. \A i \in DOMAIN applications : applications[i].source # a.source
    BY <1>2, <2>1, <2>2, OneCreated DEF IInv, Converted
  <2>4. ConvertedOnce'
    BY <2>2, <2>3 DEF Outcome, ConvertedOnce
  <2>5. (\A i \in DOMAIN applications : Priced(applications[i], applications[i].payable))'
    BY <2>2 DEF Outcome
  <2> QED
    BY <2>4, <2>5 DEF Outcome
<1> QED
  BY <1>1, <1>2

\* IInv and what follows from it, of every reachable state.
LEMMA Invariance == Spec => [](IInv /\ Outcome)
<1>1. Init => IInv /\ Outcome
  BY LocalInit, ProtocolInit DEF IInv, Outcome, ConvertedOnce, Init
<1>2. IInv /\ Outcome /\ [Next]_vars => (IInv /\ Outcome)'
  BY LocalStep, ProtocolStep, OutcomeStep DEF IInv
<1> QED
  BY <1>1, <1>2, PTL DEF Spec

\* Tables and requests keep their types for any quotations, requests and prices.
THEOREM TypeCorrect == Spec => []TypeOK
<1>1. IInv => TypeOK
  BY DEF IInv, LocalOK
<1> QED
  BY <1>1, Invariance, PTL

\* However many requests submit a quotation, one application comes of it.
THEOREM OneApplication == Spec => []ConvertedOnce
<1>1. Outcome => ConvertedOnce
  BY DEF Outcome
<1> QED
  BY <1>1, Invariance, PTL

\* No application that is not priced by tier charges less than it owes.
THEOREM NeverBelowFloor == Spec => []FloorHolds
<1>1. Outcome => FloorHolds
  BY DEF Outcome, FloorHolds, Priced
<1> QED
  BY <1>1, Invariance, PTL

\* What an application owes is what its own insured amount costs at some rate,
\* though the amount is the quotation's and the payable is computed anew.
THEOREM OneCoverage == Spec => []HalvesAgree
<1>1. Outcome => HalvesAgree
  BY DEF Outcome, HalvesAgree, Priced
<1> QED
  BY <1>1, Invariance, PTL

\* An edit never changes a quotation that has become an application.
THEOREM EditsStopAtConversion == Spec => NeverRepricedOnceConverted
<1>1. IInv /\ [Next]_vars => [\A q \in Quotations : Converted(q) => quotation'[q] = quotation[q]]_vars
  <2> SUFFICES ASSUME IInv, Next, NEW q \in Quotations, Converted(q)
               PROVE  quotation'[q] = quotation[q]
    OBVIOUS
  <2>1. CASE quotation' = quotation
    BY <2>1
  <2>2. CASE quotation' # quotation
    <3>1. PICK r \in Reqs : QuoteInsert(r) \/ EditWrite(r)
      BY <2>2, WhoWrites
    <3>2. quotation' = [quotation EXCEPT ![req[r].quotation] = req[r].terms]
      BY <3>1 DEF QuoteInsert, EditWrite
    <3>3. req[r].quotation # q
      BY <3>1 DEF QuoteInsert, EditWrite, IInv, Protocol, FiledFirst, WritesUnconverted
    <3> QED
      BY <3>2, <3>3 DEF IInv, LocalOK, TypeOK
  <2> QED
    BY <2>1, <2>2
<1> QED
  BY <1>1, Invariance, PTL DEF Spec, NeverRepricedOnceConverted

-----------------------------------------------------------------------------
(* An agent's rates.                                                         *)

\* Tables are scalars, tiers or both; net rates are what a coverage priced by
\* percentage has, and all it has.
LEMMA PartsAre ==
    ASSUME NEW c
    PROVE  /\ ModeOf[c] = "PERCENTAGE" => ToSet(PartsOf(c)) = {"net rate"}
           /\ ModeOf[c] # "PERCENTAGE" => "net rate" \notin ToSet(PartsOf(c))
<1>1. ToSet(<<"net rate">>) = {"net rate"}
  BY OneItem
<1>2. "net rate" \notin ToSet(<<"tiers">>)
  <2>1. ToSet(<<"tiers">>) = {"tiers"}
    BY OneItem
  <2> QED
    BY <2>1
<1>3. "net rate" \notin ToSet(<<"scalars", "tiers">>)
  <2> DEFINE two == <<"scalars", "tiers">>
  <2>1. DOMAIN two = {1, 2} /\ two[1] = "scalars" /\ two[2] = "tiers"
    OBVIOUS
  <2> HIDE DEF two
  <2>2. ToSet(two) = {two[i] : i \in DOMAIN two}
    BY DEF ToSet
  <2>3. "net rate" \notin ToSet(two)
    BY <2>1, <2>2
  <2> QED
    BY <2>3 DEF two
<1> QED
  BY <1>1, <1>2, <1>3 DEF PartsOf

TableParts == {"scalars", "tiers"}

SaveSteps == {AllNetRates} \cup (ToSet(InOrder) \X TableParts)

\* What is sent for a coverage: each table of it that changed.
LEMMA TablesAreSent ==
    ASSUME NEW s, NEW c \in ToSet(InOrder)
    PROVE  /\ TablesOf(s, c) \in Seq(SaveSteps)
           /\ \A p \in TableParts : c \in DOMAIN s.loaded /\ TableChanged(s, <<c, p>>)
                                   => <<c, p>> \in ToSet(TablesOf(s, c))
<1> DEFINE Part(p) == IfChanged(s, <<c, p>>)
<1>1. ASSUME NEW p \in TableParts
      PROVE  /\ Part(p) \in Seq(SaveSteps)
             /\ TableChanged(s, <<c, p>>) => <<c, p>> \in ToSet(Part(p))
  <2>1. <<c, p>> \in SaveSteps
    BY DEF SaveSteps
  <2>2. <<<<c, p>>>> \in Seq(SaveSteps) /\ ToSet(<<<<c, p>>>>) = {<<c, p>>}
    BY <2>1, OneItem
  <2>3. << >> \in Seq(SaveSteps)
    OBVIOUS
  <2> QED
    BY <2>2, <2>3 DEF IfChanged
<1>2. "scalars" \in TableParts /\ "tiers" \in TableParts /\ \A p \in TableParts : p = "scalars" \/ p = "tiers"
  BY DEF TableParts
<1>3. /\ Part("scalars") \in Seq(SaveSteps) /\ Part("tiers") \in Seq(SaveSteps)
      /\ \A p \in TableParts : TableChanged(s, <<c, p>>) => <<c, p>> \in ToSet(Part(p))
  BY <1>1, <1>2
<1>4. TablesOf(s, c) = IF c \in DOMAIN s.loaded THEN Part("scalars") \o Part("tiers") ELSE << >>
  BY DEF TablesOf
<1> HIDE DEF Part
<1>5. /\ Part("scalars") \o Part("tiers") \in Seq(SaveSteps)
      /\ ToSet(Part("scalars") \o Part("tiers")) = ToSet(Part("scalars")) \cup ToSet(Part("tiers"))
  BY <1>3, ConcatHas
<1>6. << >> \in Seq(SaveSteps)
  OBVIOUS
<1> QED
  BY <1>2, <1>3, <1>4, <1>5, <1>6

\* A save sends the net rates, and each table that changed.
LEMMA ChangesAreSent ==
    ASSUME NEW s
    PROVE  /\ StepsOf(s) \in Seq(SaveSteps)
           /\ AllNetRates \in ToSet(StepsOf(s))
           /\ \A c \in ToSet(InOrder), p \in TableParts :
                 c \in DOMAIN s.loaded /\ TableChanged(s, <<c, p>>) => <<c, p>> \in ToSet(StepsOf(s))
<1> DEFINE lists == [i \in DOMAIN InOrder |-> TablesOf(s, InOrder[i])]
<1>1. \A i \in DOMAIN InOrder : InOrder[i] \in ToSet(InOrder)
  BY DEF ToSet
<1>2. \A i \in DOMAIN lists : lists[i] \in Seq(SaveSteps)
  BY <1>1, TablesAreSent
<1>3. lists \in Seq(Seq(SaveSteps))
  <2>1. InOrder \in Seq(ToSet(InOrder))
    BY RatesAssumption
  <2>2. Len(InOrder) \in Nat /\ DOMAIN InOrder = 1..Len(InOrder)
    BY <2>1
  <2>3. DOMAIN lists = 1..Len(InOrder) /\ lists = [i \in 1..Len(InOrder) |-> lists[i]]
    BY <2>2
  <2> HIDE DEF lists
  <2> QED
    BY <1>2, <2>2, <2>3
<1>4. \A c \in ToSet(InOrder), p \in TableParts :
         c \in DOMAIN s.loaded /\ TableChanged(s, <<c, p>>)
            => \E i \in DOMAIN lists : <<c, p>> \in ToSet(lists[i])
  <2> SUFFICES ASSUME NEW c \in ToSet(InOrder), NEW p \in TableParts,
                      c \in DOMAIN s.loaded, TableChanged(s, <<c, p>>)
               PROVE  \E i \in DOMAIN lists : <<c, p>> \in ToSet(lists[i])
    OBVIOUS
  <2>1. PICK i \in DOMAIN InOrder : InOrder[i] = c
    BY DEF ToSet
  <2>2. lists[i] = TablesOf(s, c)
    BY <2>1
  <2>3. <<c, p>> \in ToSet(TablesOf(s, c))
    BY TablesAreSent
  <2> QED
    BY <2>1, <2>2, <2>3
<1>5. StepsOf(s) = <<AllNetRates>> \o FlattenSeq(lists)
  BY DEF StepsOf
<1>6. AllNetRates \in SaveSteps
  BY DEF SaveSteps
<1> HIDE DEF lists
<1>7. /\ FlattenSeq(lists) \in Seq(SaveSteps)
      /\ ToSet(FlattenSeq(lists)) = UNION {ToSet(lists[i]) : i \in DOMAIN lists}
  BY <1>3, FlattenHas
<1>8. <<AllNetRates>> \in Seq(SaveSteps) /\ ToSet(<<AllNetRates>>) = {AllNetRates}
  BY <1>6, OneItem
<1>9. /\ StepsOf(s) \in Seq(SaveSteps)
      /\ ToSet(StepsOf(s)) = {AllNetRates} \cup ToSet(FlattenSeq(lists))
  <2> DEFINE first == <<AllNetRates>>
             others == FlattenSeq(lists)
  <2>1. first \in Seq(SaveSteps) /\ others \in Seq(SaveSteps)
    BY <1>7, <1>8
  <2>2. StepsOf(s) = first \o others /\ ToSet(first) = {AllNetRates}
    BY <1>5, <1>8
  <2> HIDE DEF first, others
  <2>3. first \o others \in Seq(SaveSteps) /\ ToSet(first \o others) = ToSet(first) \cup ToSet(others)
    BY <2>1, ConcatHas
  <2>4. StepsOf(s) \in Seq(SaveSteps) /\ ToSet(StepsOf(s)) = {AllNetRates} \cup ToSet(others)
    BY <2>2, <2>3
  <2> QED
    BY <2>4 DEF others
<1> QED
  BY <1>4, <1>7, <1>9

-----------------------------------------------------------------------------
(* The invariant.                                                            *)

\* There is a figure for every part of every coverage on offer.
FileShape ==
    /\ DOMAIN onFile = Agents
    /\ \A a \in Agents : DOMAIN onFile[a] = RatedDays
    /\ \A a \in Agents, d \in RatedDays : DOMAIN onFile[a][d] = OnOffer[d]
    /\ \A a \in Agents, d \in RatedDays : \A c \in OnOffer[d] : DOMAIN onFile[a][d][c] = ToSet(PartsOf(c))

\* Employees have no figures of their own.
BlankForEmployees ==
    \A e \in Employed, d \in RatedDays : \A c \in OnOffer[d] : onFile[e][d][c] = Entry(c, NoRate)

DialogShape ==
    /\ rates = [agent |-> rates.agent, open |-> rates.open, days |-> rates.days,
                loading |-> rates.loading, inherited |-> rates.inherited, of |-> rates.of,
                loaded |-> rates.loaded, shown |-> rates.shown]
    /\ rates.agent \in Agents \cup {NoAgent} /\ rates.days \in RatedDays \cup {NoDays}
    /\ rates.open => rates.agent \in Agents
    /\ rates.days = NoDays => rates.loading
    /\ asked # {} => rates.days # NoDays

\* A save is of an agent's rates for a period.
SaveShape(s) ==
    /\ s = [agent |-> s.agent, days |-> s.days, shown |-> s.shown, loaded |-> s.loaded, todo |-> s.todo]
    /\ s.agent \in Agents /\ s.days \in RatedDays /\ s.todo \in Seq(SaveSteps)

\* Net rates are on file as they were shown or still to be sent; a table also
\* if it was shown as it had been loaded.
NetRatesKept(s, file) ==
    \A c \in OnOffer[s.days] :
        ModeOf[c] = "PERCENTAGE" =>
            \/ AllNetRates \in ToSet(s.todo)
            \/ file[c]["net rate"] = ShownIn(s, c, "net rate")

TablesKept(s, file) ==
    \A c \in OnOffer[s.days], p \in TableParts :
        p \in ToSet(PartsOf(c)) /\ c \in DOMAIN s.loaded =>
            \/ <<c, p>> \in ToSet(s.todo)
            \/ file[c][p] = ShownIn(s, c, p)
            \/ ShownIn(s, c, p) = s.loaded[c][p]

SaveKept(s) ==
    /\ SaveShape(s)
    /\ NetRatesKept(s, onFile[s.agent][s.days])
    /\ TablesKept(s, onFile[s.agent][s.days])

RatesInv == FileShape /\ BlankForEmployees /\ DialogShape /\ (Saves => SaveKept(saving))

\* What is promised follows.
LEMMA RatesInvSuffices == RatesInv => RatesAreWrittenAsShown
<1> SUFFICES ASSUME RatesInv PROVE SavedAsShown /\ EmployeesFollowTheirCompany
  BY DEF RatesAreWrittenAsShown
<1> USE DEF RatesInv
<1>1. SavedAsShown
  <2> SUFFICES ASSUME Saves, saving.todo = << >>,
                      NEW c \in DOMAIN onFile[saving.agent][saving.days],
                      NEW p \in {"net rate", "scalars", "tiers"},
                      p \in DOMAIN onFile[saving.agent][saving.days][c],
                      p = "net rate" \/ c \in DOMAIN saving.loaded
               PROVE  \/ onFile[saving.agent][saving.days][c][p] = ShownIn(saving, c, p)
                      \/ p # "net rate" /\ ShownIn(saving, c, p) = saving.loaded[c][p]
    BY DEF SavedAsShown
  <2>1. SaveKept(saving)
    OBVIOUS
  <2> DEFINE file == onFile[saving.agent][saving.days]
  <2>2. saving.agent \in Agents /\ saving.days \in RatedDays
    BY <2>1 DEF SaveKept, SaveShape
  <2>3. c \in OnOffer[saving.days] /\ DOMAIN file[c] = ToSet(PartsOf(c))
    <3>1. DOMAIN file = OnOffer[saving.days]
      BY <2>2 DEF FileShape
    <3>2. c \in OnOffer[saving.days]
      BY <3>1
    <3>3. \A k \in OnOffer[saving.days] : DOMAIN file[k] = ToSet(PartsOf(k))
      BY <2>2 DEF FileShape
    <3> QED
      BY <3>2, <3>3
  <2>4. ToSet(saving.todo) = {}
    BY EmptyHasNone
  <2>5. CASE p = "net rate"
    <3>1. ModeOf[c] = "PERCENTAGE"
      BY <2>3, <2>5, PartsAre
    <3> QED
      BY <2>1, <2>3, <2>4, <2>5, <3>1 DEF SaveKept, NetRatesKept
  <2>6. CASE p # "net rate"
    <3>1. p \in TableParts /\ p \in ToSet(PartsOf(c)) /\ c \in DOMAIN saving.loaded
      BY <2>3, <2>6 DEF TableParts
    <3> QED
      BY <2>1, <2>3, <2>4, <2>6, <3>1 DEF SaveKept, TablesKept
  <2> QED
    BY <2>5, <2>6
<1>2. EmployeesFollowTheirCompany
  <2> SUFFICES ASSUME NEW e \in Employed, NEW d \in RatedDays PROVE FormOf(onFile[e][d]) = << >>
    BY DEF EmployeesFollowTheirCompany
  <2>1. e \in Agents
    BY RatesAssumption
  <2>2. DOMAIN onFile[e][d] = OnOffer[d]
    BY <2>1 DEF FileShape
  <2> DEFINE own == {c \in DOMAIN onFile[e][d] : onFile[e][d][c] # Entry(c, NoRate)}
             form == [c \in own |-> onFile[e][d][c]]
  <2>3. own = {}
    BY <2>2 DEF BlankForEmployees
  <2>4. FormOf(onFile[e][d]) = form
    BY DEF FormOf
  <2>5. form = << >>
    BY <2>3
  <2> QED
    BY <2>4, <2>5
<1> QED
  BY <1>1, <1>2

\* It holds to begin with.
LEMMA RatesInvInit == RatesInit => RatesInv
<1> SUFFICES ASSUME RatesInit PROVE RatesInv
  OBVIOUS
<1>1. FileShape
  BY DEF RatesInit, FileShape, Entry
<1>2. BlankForEmployees
  <2> SUFFICES ASSUME NEW e \in Employed, NEW d \in RatedDays, NEW c \in OnOffer[d]
               PROVE  onFile[e][d][c] = Entry(c, NoRate)
    BY DEF BlankForEmployees
  <2>1. e \in Agents /\ ~ \E x \in Employed : CompanyOf[x] = e
    BY RatesAssumption
  <2> QED
    BY <2>1 DEF RatesInit
<1>3. DialogShape
  BY DEF RatesInit, DialogShape
<1>4. ~Saves
  BY DEF RatesInit, Saves
<1> QED
  BY <1>1, <1>2, <1>3, <1>4 DEF RatesInv

\* The dialog keeps its shape whatever is done in it.
LEMMA DialogShapeKept ==
    ASSUME DialogShape, [RatesNext]_ratesVars
    PROVE  DialogShape'
<1> USE DEF DialogShape
<1>0. UsualDays \in RatedDays /\ NoDays \notin RatedDays /\ NoAgent \notin Agents
  BY RatesAssumption
<1>1. ASSUME NEW a \in Agents, ManageRates(a) PROVE DialogShape'
  <2>1. CASE a # rates.agent /\ rates.days # NoDays
    BY <1>0, <1>1, <2>1 DEF ManageRates
  <2>2. CASE ~(a # rates.agent /\ rates.days # NoDays)
    BY <1>0, <1>1, <2>2 DEF ManageRates
  <2> QED
    BY <2>1, <2>2
<1>2. ASSUME PeriodsArriveFirst PROVE DialogShape'
  BY <1>0, <1>2 DEF PeriodsArriveFirst
<1>3. ASSUME NEW d \in RatedDays, ChoosePeriod(d) PROVE DialogShape'
  BY <1>0, <1>3 DEF ChoosePeriod
<1>4. ASSUME NEW q \in asked, ReadNetrates(q) PROVE DialogShape'
  BY <1>4 DEF ReadNetrates
<1>5. ASSUME NEW q \in asked, NetratesArrive(q) PROVE DialogShape'
  BY <1>5 DEF NetratesArrive
<1>6. ASSUME NEW q \in asked, NetratesFail(q) PROVE DialogShape'
  BY <1>6 DEF NetratesFail
<1>7. ASSUME NEW c, ToggleOverride(c) PROVE DialogShape'
  <2>1. PICK shown : rates' = [rates EXCEPT !.shown = shown]
    BY <1>7 DEF ToggleOverride
  <2>2. asked' = asked
    BY <1>7 DEF ToggleOverride, Enters
  <2> QED
    BY <2>1, <2>2
<1>8. ASSUME NEW c, NEW p, NEW figure, EnterRate(c, p, figure) PROVE DialogShape'
  <2>1. PICK shown : rates' = [rates EXCEPT !.shown = shown]
    BY <1>8 DEF EnterRate
  <2>2. asked' = asked
    BY <1>8 DEF EnterRate, Enters
  <2> QED
    BY <2>1, <2>2
<1>9. ASSUME LeaveRates PROVE DialogShape'
  BY <1>9 DEF LeaveRates
<1>10. ASSUME SaveSucceeds PROVE DialogShape'
  BY <1>10 DEF SaveSucceeds
<1>11. ASSUME SaveRates \/ SaveRequest \/ SaveFails \/ UNCHANGED ratesVars PROVE DialogShape'
  BY <1>11 DEF SaveRates, SaveRequest, SaveFails, ratesVars
<1> QED
  BY <1>1, <1>2, <1>3, <1>4, <1>5, <1>6, <1>7, <1>8, <1>9, <1>10, <1>11 DEF RatesNext

\* A request of a save that is not refused leaves other rates alone, and the
\* net rates or the table it is for as they were shown.
LEMMA WritesAre ==
    ASSUME FileShape, SaveShape(saving), saving.todo # << >>,
           ~Refused(saving, Head(saving.todo)), Writes
    PROVE  /\ FileShape'
           /\ \A a \in Agents, d \in RatedDays :
                 <<a, d>> # <<saving.agent, saving.days>> => onFile'[a][d] = onFile[a][d]
           /\ onFile'[saving.agent][saving.days]
                 = Replacing(onFile[saving.agent][saving.days], saving, Head(saving.todo))
<1> DEFINE a == saving.agent
           d == saving.days
           of == onFile[a][d]
           step == Head(saving.todo)
           new == Replacing(of, saving, step)
<1>1. a \in Agents /\ d \in RatedDays /\ step \in SaveSteps
  BY HeadAndTail DEF SaveShape
<1>2. /\ DOMAIN onFile = Agents /\ DOMAIN onFile[a] = RatedDays /\ DOMAIN of = OnOffer[d]
      /\ \A c \in OnOffer[d] : DOMAIN of[c] = ToSet(PartsOf(c))
  BY <1>1 DEF FileShape
<1>3. onFile' = [onFile EXCEPT ![a][d] = new]
  BY DEF Writes
<1>4. DOMAIN new = OnOffer[d] /\ \A c \in OnOffer[d] : DOMAIN new[c] = ToSet(PartsOf(c))
  <2>1. CASE step = AllNetRates
    BY <1>2, <2>1 DEF Replacing, Entry
  <2>2. CASE step # AllNetRates
    BY <1>2, <2>2 DEF Replacing
  <2> QED
    BY <2>1, <2>2
<1> HIDE DEF new, of, step
<1>5. onFile'[a][d] = new /\ \A x \in Agents, y \in RatedDays : <<x, y>> # <<a, d>> => onFile'[x][y] = onFile[x][y]
  BY <1>1, <1>2, <1>3 DEF FileShape
<1>6. DOMAIN onFile' = Agents /\ \A x \in Agents : DOMAIN onFile'[x] = RatedDays
  BY <1>1, <1>2, <1>3 DEF FileShape
<1>7. ASSUME NEW x \in Agents, NEW y \in RatedDays
      PROVE  DOMAIN onFile'[x][y] = OnOffer[y] /\ \A c \in OnOffer[y] : DOMAIN onFile'[x][y][c] = ToSet(PartsOf(c))
  <2>1. CASE <<x, y>> = <<a, d>>
    BY <1>4, <1>5, <2>1
  <2>2. CASE <<x, y>> # <<a, d>>
    BY <1>5, <2>2 DEF FileShape
  <2> QED
    BY <2>1, <2>2
<1>8. FileShape'
  BY <1>6, <1>7 DEF FileShape
<1> QED
  BY <1>5, <1>8 DEF new, of, step

\* One part of one entry is replaced.
LEMMA PartReplaced ==
    ASSUME NEW of, NEW i, NEW j, NEW x, NEW c \in DOMAIN of, NEW p \in DOMAIN of[c]
    PROVE  [of EXCEPT ![i][j] = x][c][p] = IF c = i /\ p = j THEN x ELSE of[c][p]
<1>1. CASE c = i
  BY <1>1
<1>2. CASE c # i
  BY <1>2
<1> QED
  BY <1>1, <1>2

\* What is still to be sent, and what was shown, are on file after a request as
\* they were before; what it was for is as it was shown.
LEMMA RequestKeepsSave ==
    ASSUME FileShape, SaveKept(saving), SaveRequest
    PROVE  SaveKept(saving)'
<1> DEFINE d == saving.days
           of == onFile[saving.agent][d]
           step == Head(saving.todo)
           rest == Tail(saving.todo)
           new == Replacing(of, saving, step)
           next == saving'
<1>1. /\ SaveShape(saving) /\ saving.todo # << >> /\ ~Refused(saving, step) /\ Writes
      /\ saving' = [saving EXCEPT !.todo = rest]
  BY DEF SaveKept, SaveRequest
<1>2. /\ step \in SaveSteps /\ rest \in Seq(SaveSteps)
      /\ ToSet(saving.todo) = {step} \cup ToSet(rest)
      /\ saving.agent \in Agents /\ d \in RatedDays
  BY <1>1, HeadAndTail DEF SaveShape
<1>3. /\ DOMAIN of = OnOffer[d]
      /\ \A c \in OnOffer[d] : DOMAIN of[c] = ToSet(PartsOf(c))
  BY <1>2 DEF FileShape
<1>4. /\ next = [agent |-> saving.agent, days |-> saving.days, shown |-> saving.shown,
                 loaded |-> saving.loaded, todo |-> rest]
      /\ next.agent = saving.agent /\ next.days = d /\ next.shown = saving.shown
      /\ next.loaded = saving.loaded /\ next.todo = rest
  BY <1>1 DEF SaveShape
<1>5. SaveShape(next)
  BY <1>2, <1>4 DEF SaveShape
<1>6. onFile'[saving.agent][d] = new
  BY <1>1, WritesAre
<1>7. \A c, p : ShownIn(next, c, p) = ShownIn(saving, c, p)
  BY <1>4 DEF ShownIn
<1>8. \A c \in OnOffer[d], p \in TableParts : p \in ToSet(PartsOf(c)) => ModeOf[c] # "PERCENTAGE" /\ p # "net rate"
  BY PartsAre DEF TableParts
<1>9. /\ step = AllNetRates => new = [c \in DOMAIN of |-> IF c \in Percent(d)
                                          THEN Entry(c, ShownIn(saving, c, "net rate")) ELSE of[c]]
      /\ step # AllNetRates => new = [of EXCEPT ![step[1]][step[2]] = ShownIn(saving, step[1], step[2])]
  BY DEF Replacing
<1> HIDE DEF next, new, of, step, rest
<1>10. ASSUME step # AllNetRates, NEW c \in OnOffer[d], NEW p \in ToSet(PartsOf(c))
      PROVE  new[c][p] = IF c = step[1] /\ p = step[2] THEN ShownIn(saving, c, p) ELSE of[c][p]
  <2>1. PICK i, j, x : /\ new = [of EXCEPT ![i][j] = x]
                       /\ i = step[1] /\ j = step[2] /\ x = ShownIn(saving, step[1], step[2])
    BY <1>9, <1>10
  <2>2. c \in DOMAIN of /\ p \in DOMAIN of[c]
    BY <1>3
  <2>3. [of EXCEPT ![i][j] = x][c][p] = IF c = i /\ p = j THEN x ELSE of[c][p]
    BY <2>2, PartReplaced
  <2> QED
    BY <2>1, <2>3
<1>11. NetRatesKept(next, new)
  <2> SUFFICES ASSUME NEW c \in OnOffer[d], ModeOf[c] = "PERCENTAGE", AllNetRates \notin ToSet(rest)
               PROVE  new[c]["net rate"] = ShownIn(saving, c, "net rate")
    BY <1>4, <1>7 DEF NetRatesKept
  <2>1. CASE step = AllNetRates
    <3>1. c \in Percent(d) /\ "net rate" \in ToSet(PartsOf(c))
      BY PartsAre DEF Percent
    <3>2. new[c] = Entry(c, ShownIn(saving, c, "net rate"))
      BY <1>3, <1>9, <2>1, <3>1
    <3> QED
      BY <3>1, <3>2 DEF Entry
  <2>2. CASE step # AllNetRates
    <3>1. of[c]["net rate"] = ShownIn(saving, c, "net rate")
      BY <1>2, <2>2 DEF SaveKept, NetRatesKept, of
    <3>2. step[2] # "net rate"
      BY <1>2, <2>2 DEF SaveSteps, TableParts
    <3>3. new[c]["net rate"] = of[c]["net rate"]
      <4>1. "net rate" \in ToSet(PartsOf(c))
        BY PartsAre
      <4> QED
        BY <1>10, <2>2, <3>2, <4>1
    <3> QED
      BY <3>1, <3>3
  <2> QED
    BY <2>1, <2>2
<1>12. ASSUME NEW c \in OnOffer[d], NEW p \in TableParts, p \in ToSet(PartsOf(c)),
              c \in DOMAIN saving.loaded, <<c, p>> \notin ToSet(rest)
       PROVE  new[c][p] = ShownIn(saving, c, p) \/ ShownIn(saving, c, p) = saving.loaded[c][p]
  <2>0. ModeOf[c] # "PERCENTAGE" /\ p # "net rate" /\ c \in DOMAIN of /\ p \in DOMAIN of[c]
    BY <1>3, <1>8, <1>12
  <2>1. CASE step = <<c, p>>
    <3>1. step # AllNetRates /\ step[1] = c /\ step[2] = p
      BY <2>0, <2>1 DEF AllNetRates
    <3>2. new[c][p] = ShownIn(saving, c, p)
      BY <1>10, <1>12, <3>1
    <3> QED
      BY <3>2
  <2>2. CASE step # <<c, p>>
    <3>1. of[c][p] = ShownIn(saving, c, p) \/ ShownIn(saving, c, p) = saving.loaded[c][p]
      BY <1>2, <1>12, <2>2 DEF SaveKept, TablesKept, of
    <3>2. new[c][p] = of[c][p]
      <4>1. CASE step = AllNetRates
        <5>1. c \notin Percent(d)
          BY <2>0 DEF Percent
        <5> QED
          BY <1>9, <2>0, <4>1, <5>1
      <4>2. CASE step # AllNetRates
        <5>1. step = <<step[1], step[2]>>
          BY <1>2, <4>2 DEF SaveSteps
        <5>2. step[1] # c \/ step[2] # p
          BY <2>2, <5>1
        <5> QED
          BY <1>10, <1>12, <4>2, <5>2
      <4> QED
        BY <4>1, <4>2
    <3> QED
      BY <3>1, <3>2
  <2> QED
    BY <2>1, <2>2
<1>13. TablesKept(next, new)
  BY <1>4, <1>7, <1>12 DEF TablesKept
<1> QED
  BY <1>4, <1>5, <1>6, <1>11, <1>13 DEF SaveKept, next

\* When Save is clicked everything that changed is still to be sent.
LEMMA SaveStarts ==
    ASSUME DialogShape, SaveRates
    PROVE  SaveKept(saving)'
<1> DEFINE s == [agent |-> rates.agent, days |-> rates.days, shown |-> rates.shown,
                 loaded |-> rates.loaded, todo |-> << >>]
<1>1. saving' = [s EXCEPT !.todo = StepsOf(s)] /\ rates.open /\ ~rates.loading
  BY DEF SaveRates
<1>2. /\ StepsOf(s) \in Seq(SaveSteps) /\ AllNetRates \in ToSet(StepsOf(s))
      /\ \A c \in ToSet(InOrder), p \in TableParts :
            c \in DOMAIN s.loaded /\ TableChanged(s, <<c, p>>) => <<c, p>> \in ToSet(StepsOf(s))
  BY ChangesAreSent
<1>3. /\ saving' = [agent |-> s.agent, days |-> s.days, shown |-> s.shown, loaded |-> s.loaded, todo |-> StepsOf(s)]
      /\ saving'.agent = s.agent /\ saving'.days = s.days /\ saving'.shown = s.shown
      /\ saving'.loaded = s.loaded /\ saving'.todo = StepsOf(s)
  BY <1>1
<1>4. s.agent \in Agents /\ s.days \in RatedDays
  BY <1>1 DEF DialogShape
<1> HIDE DEF s
<1>5. SaveShape(saving')
  BY <1>2, <1>3, <1>4 DEF SaveShape
<1>6. \A file : NetRatesKept(saving', file)
  BY <1>2, <1>3 DEF NetRatesKept
<1>7. \A c, p : ShownIn(saving', c, p) = ShownIn(s, c, p)
  BY <1>3 DEF ShownIn
<1>8. ASSUME NEW c \in OnOffer[s.days], NEW p \in TableParts, p \in ToSet(PartsOf(c)), c \in DOMAIN s.loaded
      PROVE  <<c, p>> \in ToSet(StepsOf(s)) \/ ShownIn(s, c, p) = s.loaded[c][p]
  <2>1. c \in ToSet(InOrder)
    BY <1>4, RatesAssumption
  <2>2. <<c, p>>[1] = c /\ <<c, p>>[2] = p
    OBVIOUS
  <2>3. TableChanged(s, <<c, p>>) \/ ShownIn(s, c, p) = s.loaded[c][p]
    BY <1>8, <2>2 DEF TableChanged
  <2> QED
    BY <1>2, <1>8, <2>1, <2>3
<1>9. \A file : TablesKept(saving', file)
  BY <1>3, <1>7, <1>8 DEF TablesKept
<1> QED
  BY <1>5, <1>6, <1>9 DEF SaveKept

\* It is kept.
LEMMA RatesInvStep ==
    ASSUME RatesInv, [RatesNext]_ratesVars
    PROVE  RatesInv'
<1>1. FileShape /\ BlankForEmployees /\ DialogShape /\ (Saves => SaveKept(saving))
  BY DEF RatesInv
<1>2. DialogShape'
  BY <1>1, DialogShapeKept
<1>3. ASSUME UNCHANGED onFile PROVE (FileShape /\ BlankForEmployees)'
  BY <1>1, <1>3 DEF FileShape, BlankForEmployees
<1>4. ASSUME Saves, saving.todo # << >>, ~Refused(saving, Head(saving.todo)), Writes
      PROVE  (FileShape /\ BlankForEmployees)'
  <2>1. SaveShape(saving)
    BY <1>1, <1>4 DEF SaveKept
  <2>2. /\ FileShape'
        /\ \A a \in Agents, d \in RatedDays :
              <<a, d>> # <<saving.agent, saving.days>> => onFile'[a][d] = onFile[a][d]
    BY <1>1, <1>4, <2>1, WritesAre
  <2>3. saving.agent \notin Employed
    BY <1>4 DEF Refused
  <2>4. \A e \in Employed, d \in RatedDays : onFile'[e][d] = onFile[e][d]
    BY <2>2, <2>3, RatesAssumption
  <2> QED
    BY <1>1, <2>2, <2>4 DEF BlankForEmployees
<1>5. ASSUME UNCHANGED <<onFile, saving>> PROVE RatesInv'
  <2>1. (Saves => SaveKept(saving))'
    BY <1>1, <1>5 DEF Saves, SaveKept
  <2> QED
    BY <1>2, <1>3, <1>5, <2>1 DEF RatesInv
<1>6. ASSUME saving' = NotSaved, (FileShape /\ BlankForEmployees)' PROVE RatesInv'
  BY <1>2, <1>6 DEF RatesInv, Saves
<1>7. ASSUME SaveRates PROVE RatesInv'
  <2>1. SaveKept(saving)' /\ UNCHANGED onFile
    BY <1>1, <1>7, SaveStarts DEF SaveRates
  <2> QED
    BY <1>2, <1>3, <2>1 DEF RatesInv
<1>8. ASSUME SaveRequest PROVE RatesInv'
  <2>1. Saves /\ saving.todo # << >> /\ ~Refused(saving, Head(saving.todo)) /\ Writes
    BY <1>8 DEF SaveRequest
  <2>2. SaveKept(saving)'
    BY <1>1, <1>8, <2>1, RequestKeepsSave
  <2> QED
    BY <1>2, <1>4, <2>1, <2>2 DEF RatesInv
<1>9. ASSUME SaveFails PROVE RatesInv'
  <2>1. Saves /\ saving.todo # << >> /\ saving' = NotSaved
    BY <1>9 DEF SaveFails
  <2>2. CASE UNCHANGED onFile
    BY <1>3, <1>6, <2>1, <2>2
  <2>3. CASE ~Refused(saving, Head(saving.todo)) /\ Writes
    BY <1>4, <1>6, <2>1, <2>3
  <2> QED
    BY <1>9, <2>2, <2>3 DEF SaveFails
<1>10. ASSUME SaveSucceeds PROVE RatesInv'
  BY <1>3, <1>6, <1>10 DEF SaveSucceeds
<1>11. ASSUME NEW a, ManageRates(a) PROVE RatesInv'
  BY <1>5, <1>11 DEF ManageRates
<1>12. ASSUME PeriodsArriveFirst PROVE RatesInv'
  BY <1>5, <1>12 DEF PeriodsArriveFirst
<1>13. ASSUME NEW d, ChoosePeriod(d) PROVE RatesInv'
  BY <1>5, <1>13 DEF ChoosePeriod
<1>14. ASSUME NEW q, ReadNetrates(q) \/ NetratesArrive(q) \/ NetratesFail(q) PROVE RatesInv'
  BY <1>5, <1>14 DEF ReadNetrates, NetratesArrive, NetratesFail
<1>15. ASSUME NEW c, ToggleOverride(c) PROVE RatesInv'
  BY <1>5, <1>15 DEF ToggleOverride, Enters
<1>16. ASSUME NEW c, NEW p, NEW figure, EnterRate(c, p, figure) PROVE RatesInv'
  BY <1>5, <1>16 DEF EnterRate, Enters
<1>17. ASSUME LeaveRates PROVE RatesInv'
  BY <1>5, <1>17 DEF LeaveRates
<1>18. ASSUME UNCHANGED ratesVars PROVE RatesInv'
  BY <1>5, <1>18 DEF ratesVars
<1> QED
  BY <1>7, <1>8, <1>9, <1>10, <1>11, <1>12, <1>13, <1>14, <1>15, <1>16, <1>17, <1>18 DEF RatesNext

\* Once a save of an agent's rates is answered, the agent's net rates are those
\* shown when Save was clicked, and so is every table that was listed, or else
\* it was shown as it had been loaded; and employees have no rates of their own
\* (MyAgents.jsx, save; routes/agents.js, netrates).
THEOREM RatesAreSavedAsShown == RatesSpec => []RatesAreWrittenAsShown
<1>1. RatesInit => RatesInv
  BY RatesInvInit
<1>2. RatesInv /\ [RatesNext]_ratesVars => RatesInv'
  BY RatesInvStep
<1>3. RatesInv => RatesAreWrittenAsShown
  BY RatesInvSuffices
<1> QED
  BY <1>1, <1>2, <1>3, PTL DEF RatesSpec
===============================================================================
