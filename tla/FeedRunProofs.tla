---------------------------- MODULE FeedRunProofs ----------------------------
(***************************************************************************)
(* Proofs about FeedRun for every offer of a provider, every configuration *)
(* of a feed and every size of a batch.                                    *)
(***************************************************************************)
EXTENDS FeedRun, FiniteSetTheorems, TLAPS

-----------------------------------------------------------------------------
(* The type invariant.  Only OTX has pages after the first, and asks for   *)
(* them in their full size.                                                *)
Paged == page > 1 => feed = "otx" /\ choice = 1
Typed == TypeOK /\ Paged

(* What is known of the constants and of the current request.              *)
LEMMA Known ==
  ASSUME Typed
  PROVE  /\ offer \in Seq(Class) /\ Len(offer) \in Nat /\ DOMAIN offer = 1 .. Len(offer)
         /\ setting \in Setting /\ feed \in Feed
         /\ setting.sizes \in Seq(Nat \ {0}) /\ Len(setting.sizes) \in Nat \ {0}
         /\ DOMAIN setting.sizes = 1 .. Len(setting.sizes)
         /\ choice \in 1 .. Len(setting.sizes) /\ size \in Nat \ {0}
         /\ setting.sizes[1] \in Nat \ {0}
         /\ page \in Nat \ {0} /\ Covered \subseteq DOMAIN offer /\ Kept \subseteq Covered
<1>1. offer \in Seq(Class) /\ setting \in Setting /\ setting.sizes # <<>>
  BY OffersAssumption, SettingsAssumption DEF Typed, TypeOK
<1>2. setting.sizes \in Seq(Nat \ {0}) /\ feed \in Feed
  BY <1>1 DEF Setting, feed
<1>3. /\ Len(setting.sizes) \in Nat \ {0} /\ DOMAIN setting.sizes = 1 .. Len(setting.sizes)
      /\ setting.sizes[1] \in Nat \ {0}
  BY <1>1, <1>2
<1>4. choice \in 1 .. Len(setting.sizes) /\ size \in Nat \ {0}
  BY <1>2, <1>3 DEF Typed, TypeOK, size
<1>5. Len(offer) \in Nat /\ DOMAIN offer = 1 .. Len(offer)
  BY <1>1
<1>6. page \in Nat \ {0}
  BY <1>5 DEF Typed, TypeOK
<1> QED
  BY <1>1, <1>2, <1>3, <1>4, <1>5, <1>6 DEF Covered, Kept

LEMMA InitTyped ==
  ASSUME Init
  PROVE  Typed
<1>1. offer \in Seq(Class) /\ setting \in Setting /\ setting.sizes # <<>>
  BY OffersAssumption, SettingsAssumption DEF Init
<1>2. setting.sizes \in Seq(Nat \ {0})
  BY <1>1 DEF Setting
<1>3. 1 \in DOMAIN setting.sizes /\ 1 \in 1 .. Len(offer) + 1
  BY <1>1, <1>2
<1>4. choice = 1 /\ page = 1 /\ ~(page > 1)
  BY DEF Init
<1>5. choice \in DOMAIN setting.sizes /\ page \in 1 .. Len(offer) + 1
  BY <1>3, <1>4
<1>6. Paged
  BY <1>4 DEF Paged
<1>7. error = FALSE /\ warned = FALSE /\ told = FALSE /\ left = FALSE
  BY DEF Init
<1>8. {error, warned, told, left} \subseteq BOOLEAN
  BY <1>7
<1>9. attempt \in 0 .. MaxAttempts - 1
  BY DEF Init, MaxAttempts
<1> QED
  BY <1>5, <1>6, <1>8, <1>9 DEF Init, Typed, TypeOK

(* An exception ends the run, or goes on with a smaller request or with    *)
(* what there is; only the first page is asked for in a smaller size.      *)
LEMMA RaiseCases ==
  ASSUME Typed, Raise
  PROVE  \/ Fail
         \/ Settle
         \/ Fallback /\ page = 1 /\ choice + 1 \in DOMAIN setting.sizes
<1>1. /\ choice \in 1 .. Len(setting.sizes) /\ page \in Nat \ {0}
      /\ DOMAIN setting.sizes = 1 .. Len(setting.sizes) /\ Len(setting.sizes) \in Nat
  BY Known
<1>2. More => choice + 1 \in DOMAIN setting.sizes
  BY <1>1 DEF More
<1>3. page # 1 => feed = "otx"
  BY <1>1 DEF Typed, Paged
<1> QED
  BY <1>1, <1>2, <1>3 DEF Raise

(* What an exception leaves behind is well typed.                          *)
LEMMA RaiseTyped ==
  ASSUME Typed, Fail \/ Settle \/ (Fallback /\ page = 1 /\ choice + 1 \in DOMAIN setting.sizes),
         UNCHANGED <<input, page>>, pc \in {"request", "parse", "save"}
  PROVE  /\ offer' \in Offers /\ setting' \in Settings
         /\ pc' \in {"stix", "request", "parse", "save", "done"}
         /\ choice' \in DOMAIN setting'.sizes /\ page' \in 1 .. Len(offer') + 1
         /\ iocs' \subseteq DOMAIN offer' /\ error' \in BOOLEAN /\ warned' \in BOOLEAN
         /\ Paged'
<1>1. UNCHANGED <<offer, setting, page>>
  BY DEF input
<1>2. CASE Fail \/ Settle
  BY <1>1, <1>2 DEF Typed, TypeOK, Paged, Fail, Settle, feed
<1>3. CASE Fallback /\ page = 1 /\ choice + 1 \in DOMAIN setting.sizes
  <2>1. choice' = choice + 1 /\ warned' = TRUE /\ UNCHANGED <<pc, error, iocs>> /\ ~(page' > 1)
    BY <1>1, <1>3 DEF Fallback
  <2> QED
    BY <1>1, <1>3, <2>1 DEF Typed, TypeOK, Paged
<1> QED
  BY <1>2, <1>3

(* A page that is not the last starts before the end of the offer.         *)
LEMMA NextPage ==
  ASSUME Typed, HasNext
  PROVE  page + 1 \in 1 .. Len(offer) + 1
<1>1. /\ page \in Nat \ {0} /\ size \in Nat \ {0} /\ Len(offer) \in Nat
  BY Known
<1>2. \A p \in Nat, s \in Nat \ {0} : p * s >= p
  <2> SUFFICES ASSUME NEW p \in Nat, NEW s \in Nat \ {0} PROVE p * s >= p
    OBVIOUS
  <2>1. p * (s - 1) >= 0
    OBVIOUS
  <2>2. p * s = p * (s - 1) + p
    OBVIOUS
  <2> QED
    BY <2>1, <2>2
<1>3. page * size >= page
  BY <1>1, <1>2
<1>4. page * size < Len(offer) /\ page * size \in Nat
  BY <1>1 DEF HasNext
<1> QED
  BY <1>1, <1>3, <1>4

(* The steps of a run, and those that leave it where it is.                *)
Steps == \/ CollectStix \/ Request \/ Read \/ SaveBatch \/ SaveFails \/ Report
Waits == Suspend \/ Resume \/ Finished \/ UNCHANGED vars

LEMMA NextCases == [Next]_vars => (Steps /\ UNCHANGED left) \/ Waits
BY DEF Next, Proceeds, Steps, Waits

LEMMA WaitsKeep ==
  ASSUME Waits
  PROVE  /\ UNCHANGED <<offer, setting, pc, attempt, choice, page, iocs, saved, error, warned,
                        requests, seen>>
         /\ told => told'
BY DEF Waits, Suspend, Resume, Finished, vars, input, fetch

LEMMA NextTyped ==
  ASSUME Typed, [Next]_vars
  PROVE  Typed'
<1>0. left' \in BOOLEAN
  BY NextCases DEF Waits, Suspend, Resume, Finished, vars, Typed, TypeOK
<1>1. CASE CollectStix
  BY <1>0, <1>1 DEF CollectStix, Typed, TypeOK, Paged, input, fetch, feed
<1>2. CASE RequestFails
  <2>1. Fail \/ Settle \/ (Fallback /\ page = 1 /\ choice + 1 \in DOMAIN setting.sizes)
    BY <1>2, RaiseCases DEF RequestFails
  <2>2. pc = "request" /\ UNCHANGED <<input, page>>
    BY <1>2 DEF RequestFails
  <2>3. /\ attempt' = 0 /\ requests' = requests + 1 /\ told' \in BOOLEAN
        /\ UNCHANGED <<offer, saved, seen>>
    BY <1>2 DEF RequestFails, input
  <2> QED
    BY <1>0, <2>1, <2>2, <2>3, RaiseTyped DEF Typed, TypeOK, MaxAttempts
<1>3. CASE RetryLater
  BY <1>0, <1>3 DEF RetryLater, Typed, TypeOK, Paged, MaxAttempts, input, run, feed
<1>4. CASE RetriesExhausted
  <2>1. Fail \/ Settle \/ (Fallback /\ page = 1 /\ choice + 1 \in DOMAIN setting.sizes)
    BY <1>4, RaiseCases DEF RetriesExhausted
  <2>2. pc = "request" /\ UNCHANGED <<input, page>>
    BY <1>4 DEF RetriesExhausted
  <2>3. /\ attempt' = 0 /\ requests' = requests + 1
        /\ UNCHANGED <<offer, saved, seen, told>>
    BY <1>4 DEF RetriesExhausted, input
  <2> QED
    BY <1>0, <2>1, <2>2, <2>3, RaiseTyped DEF Typed, TypeOK, MaxAttempts
<1>5. CASE Answered
  BY <1>0, <1>5 DEF Answered, Typed, TypeOK, Paged, MaxAttempts, input, run, feed
<1>6. CASE AnsweredNo
  <2>1. /\ attempt' = 0 /\ requests' = requests + 1 /\ seen' = seen \cup {"no"}
        /\ UNCHANGED <<offer, setting, page, saved, told>> /\ pc = "request"
    BY <1>6 DEF AnsweredNo, input
  <2>2. page = 1 /\ (More => choice + 1 \in DOMAIN setting.sizes)
    <3>1. feed # "otx"
      BY <1>6 DEF AnsweredNo, SaysNo
    <3> QED
      BY <3>1, Known DEF Typed, Paged, More
  <2>3. /\ pc' \in {"request", "save"} /\ choice' \in DOMAIN setting.sizes
        /\ warned' \in BOOLEAN /\ UNCHANGED <<error, iocs>>
    BY <1>6, <2>2 DEF AnsweredNo, Fallback, Typed, TypeOK
  <2> QED
    BY <1>0, <2>1, <2>2, <2>3 DEF Typed, TypeOK, Paged, MaxAttempts
<1>7. CASE ParseFails
  <2>1. /\ Fail /\ UNCHANGED <<input, attempt, page, saved, requests, seen>> /\ told' \in BOOLEAN
        /\ pc = "parse"
    BY <1>7 DEF ParseFails, Typed, TypeOK
  <2> QED
    BY <1>0, <2>1, RaiseTyped DEF Typed, TypeOK, input
<1>8. CASE Parse
  <2>1. /\ iocs' = iocs \cup Kept /\ pc' \in {"save", "request"}
        /\ UNCHANGED <<offer, setting, attempt, saved, error, requests, seen, told>>
    BY <1>8 DEF Parse, input
  <2>2. \/ UNCHANGED <<choice, page>>
        \/ page' = page + 1 /\ choice' = 1 /\ HasNext
    BY <1>8 DEF Parse
  <2>3. warned' \in BOOLEAN
    BY <1>8 DEF Parse, Typed, TypeOK
  <2>4. iocs' \subseteq DOMAIN offer
    BY <2>1, Known DEF Typed, TypeOK
  <2>5. page' \in 1 .. Len(offer) + 1 /\ choice' \in DOMAIN setting.sizes
    BY <2>2, NextPage, Known DEF Typed, TypeOK
  <2>6. Paged'
    BY <2>1, <2>2 DEF Typed, Paged, HasNext, feed
  <2> QED
    BY <1>0, <2>1, <2>3, <2>4, <2>5, <2>6 DEF Typed, TypeOK
<1>9. CASE SaveBatch
  BY <1>0, <1>9 DEF SaveBatch, Stored, InBatch, Typed, TypeOK, Paged, input, fetch, feed
<1>10. CASE SaveFails
  <2>1. /\ Fail /\ UNCHANGED <<input, attempt, page, requests, seen>> /\ told' \in BOOLEAN
        /\ pc = "save" /\ saved' \subseteq DOMAIN offer
    BY <1>10 DEF SaveFails, Stored, InBatch, Typed, TypeOK
  <2> QED
    BY <1>0, <2>1, RaiseTyped DEF Typed, TypeOK, input
<1>11. CASE Report
  BY <1>0, <1>11 DEF Report, Typed, TypeOK, Paged, input, fetch, feed
<1>12. CASE Waits
  <2>1. told' \in BOOLEAN
    BY <1>12 DEF Waits, Suspend, Resume, Finished, vars, Typed, TypeOK
  <2> QED
    BY <1>0, <1>12, <2>1, WaitsKeep DEF Typed, TypeOK, Paged, feed
<1> QED
  BY <1>1, <1>2, <1>3, <1>4, <1>5, <1>6, <1>7, <1>8, <1>9, <1>10, <1>11, <1>12
     , NextCases DEF Steps, Request, Read

(* Every state of a run is well typed: it is at a request of the feed's    *)
(* list, at a page of the offer, and holds and saves records of the offer. *)
THEOREM TypeCorrect == Spec => []TypeOK
<1>1. Init => Typed
  BY InitTyped
<1>2. Typed /\ [Next]_vars => Typed'
  BY NextTyped
<1>3. Typed => TypeOK
  BY DEF Typed
<1> QED
  BY <1>1, <1>2, <1>3, PTL DEF Spec

-----------------------------------------------------------------------------
(* The requests that may precede the present one, each with its attempts:  *)
(* the fallbacks of the first page, then one for each page.                *)
Used == IF page = 1 THEN choice - 1 ELSE Len(setting.sizes) + page - 2
Spent ==
    /\ pc \in {"stix", "request"} => requests =< MaxAttempts * Used + attempt
    /\ requests =< MaxAttempts * (Used + 1)

(* What a run has: unless OTX gave the first page in a smaller size, all   *)
(* good records of the pages before; it saves the first ones first, and    *)
(* loses a whole batch at most where a value in it is refused.             *)
Have   == saved \cup iocs
Small  == feed = "otx" /\ "smaller" \in seen
Before == (page - 1) * setting.sizes[1]
Lost(j) == pc \in {"save", "done"} /\ NearNul(j) /\ \A k \in iocs : j < k
Gathered ==
    /\ pc \in {"stix", "request", "parse"} => saved = {}
    /\ pc \in {"stix", "request", "parse"} /\ ~Small => {i \in Good : i =< Before} \subseteq iocs
    /\ pc = "parse" /\ choice > 1 => "smaller" \in seen
    /\ ~told /\ ~Small =>
        \A i \in Have : \A j \in Good : j < i => j \in Have \/ Lost(j)
    /\ \A i \in saved : \A j \in iocs : i < j

(* What a run that has logged nothing has: everything it wanted.           *)
Silent ==
    /\ pc = "stix" => choice = 1 /\ seen = {}
    /\ ~warned => choice = 1 /\ "smaller" \notin seen
    /\ pc \in {"save", "done"} /\ ~error /\ ~warned =>
           Good \cap Wanted \subseteq Have \/ ("no" \in seen /\ Len(setting.sizes) = 1)
    /\ pc = "done" /\ ~error /\ ~warned => iocs = {}

(* The steps of a run, by what they do.  A request ends the run, lets it   *)
(* go on with what it has, falls back to a smaller one, or is answered.    *)
Ends     == /\ Fail /\ UNCHANGED <<offer, setting, page>>
            /\ saved' = saved \/ (pc = "save" /\ saved' = saved \cup Stored(InBatch))
Settles  == /\ pc' = "save" /\ UNCHANGED <<offer, setting, choice, page, iocs, saved, error>>
            /\ warned' = TRUE \/ (warned' = warned /\ ~More /\ "no" \in seen')
FallsBack == /\ Fallback /\ page = 1 /\ choice + 1 \in DOMAIN setting.sizes
             /\ UNCHANGED <<offer, setting, page, saved>>
Asks ==
    /\ pc = "request" /\ requests' = requests + 1
    /\ seen \subseteq seen' /\ ("smaller" \in seen' => "smaller" \in seen \/ choice > 1)
    /\ told => told'
    /\ \/ /\ attempt < MaxAttempts - 1 /\ attempt' = attempt + 1
          /\ UNCHANGED <<offer, setting, pc, choice, page, iocs, saved, error, warned, seen, told>>
       \/ attempt' = 0 /\ (Ends \/ Settles) /\ seen' \subseteq seen \cup {"no"}
       \/ attempt' = 0 /\ FallsBack /\ seen' \subseteq seen \cup {"no"}
       \/ /\ attempt' = 0 /\ pc' = "parse" /\ (choice > 1 => "smaller" \in seen')
          /\ UNCHANGED <<offer, setting, choice, page, iocs, saved, error, warned, told>>

LEMMA RequestAsks ==
  ASSUME Typed, Request
  PROVE  Asks
<1>1. CASE RequestFails
  <2>1. Fail \/ Settle \/ (Fallback /\ page = 1 /\ choice + 1 \in DOMAIN setting.sizes)
    BY <1>1, RaiseCases DEF RequestFails
  <2>2. /\ pc = "request" /\ attempt' = 0 /\ requests' = requests + 1 /\ (told => told')
        /\ UNCHANGED <<offer, setting, page, saved, seen>>
    BY <1>1 DEF RequestFails, input
  <2>3. Ends \/ Settles \/ FallsBack
    BY <2>1, <2>2 DEF Ends, Settles, FallsBack, Settle
  <2> QED
    BY <2>2, <2>3 DEF Asks
<1>2. CASE RetryLater
  BY <1>2 DEF RetryLater, Asks, input, run
<1>3. CASE RetriesExhausted
  <2>1. Fail \/ Settle \/ (Fallback /\ page = 1 /\ choice + 1 \in DOMAIN setting.sizes)
    BY <1>3, RaiseCases DEF RetriesExhausted
  <2>2. /\ pc = "request" /\ attempt' = 0 /\ requests' = requests + 1
        /\ UNCHANGED <<offer, setting, page, saved, seen, told>>
    BY <1>3 DEF RetriesExhausted, input
  <2>3. Ends \/ Settles \/ FallsBack
    BY <2>1, <2>2 DEF Ends, Settles, FallsBack, Settle
  <2> QED
    BY <2>2, <2>3 DEF Asks
<1>4. CASE Answered
  <2>1. choice \in Nat
    BY Known
  <2> QED
    BY <1>4, <2>1 DEF Answered, Asks, input, run
<1>5. CASE AnsweredNo
  <2>1. /\ pc = "request" /\ attempt' = 0 /\ requests' = requests + 1 /\ seen' = seen \cup {"no"}
        /\ UNCHANGED <<offer, setting, page, saved, told>>
    BY <1>5 DEF AnsweredNo, input
  <2>2. page = 1 /\ (More => choice + 1 \in DOMAIN setting.sizes)
    <3>1. feed # "otx"
      BY <1>5 DEF AnsweredNo, SaysNo
    <3> QED
      BY <3>1, Known DEF Typed, Paged, More
  <2>3. FallsBack \/ Settles
    BY <1>5, <2>1, <2>2 DEF AnsweredNo, FallsBack, Settles
  <2> QED
    BY <2>1, <2>3 DEF Asks
<1> QED
  BY <1>1, <1>2, <1>3, <1>4, <1>5 DEF Request

-----------------------------------------------------------------------------
(* The number of requests.                                                 *)
LEMMA NextSpent ==
  ASSUME Typed, Spent, [Next]_vars
  PROVE  Spent'
<1> DEFINE n == Len(setting.sizes)
<1>1. /\ choice \in 1 .. n /\ n \in Nat \ {0} /\ page \in Nat \ {0} /\ requests \in Nat
      /\ attempt \in 0 .. 2
  BY Known DEF Typed, TypeOK, MaxAttempts
<1>2. page > 1 => choice = 1
  BY DEF Typed, Paged
<1>3. Used \in Nat /\ (page = 1 => Used = choice - 1) /\ (page # 1 => Used = n + page - 2)
  BY <1>1 DEF Used
<1>4. CASE CollectStix
  <2>1. UNCHANGED <<setting, choice, page, requests, attempt>>
    BY <1>4 DEF CollectStix, input, fetch
  <2> QED
    BY <1>4, <2>1 DEF CollectStix, Spent, Used
<1>5. CASE Request
  <2>1. Asks
    BY <1>5, RequestAsks
  <2>2. /\ requests' = requests + 1 /\ requests =< 3 * Used + attempt
    BY <2>1 DEF Asks, Spent, MaxAttempts
  <2>3. CASE UNCHANGED <<setting, choice, page>> /\ (pc' = "request" => attempt' = attempt + 1 /\ attempt < 2)
             /\ pc' # "stix"
    <3>1. Used' = Used
      BY <2>3 DEF Used
    <3> QED
      BY <1>1, <1>3, <2>2, <2>3, <3>1 DEF Spent, MaxAttempts
  <2>4. CASE attempt' = 0 /\ FallsBack
    <3>1. choice' = choice + 1 /\ page = 1 /\ page' = 1
      BY <2>4 DEF FallsBack, Fallback
    <3>2. Used' = Used + 1
      BY <1>1, <3>1 DEF Used
    <3> QED
      BY <1>1, <1>3, <2>2, <2>4, <3>2 DEF Spent, MaxAttempts
  <2> QED
    BY <2>1, <2>3, <2>4 DEF Asks, Ends, Settles, Fail, MaxAttempts
<1>6. CASE Parse
  <2>1. UNCHANGED <<setting, requests, attempt>> /\ pc' \in {"save", "request"}
    BY <1>6 DEF Parse, input
  <2>2. CASE UNCHANGED <<choice, page>> /\ pc' = "save"
    BY <1>1, <2>1, <2>2 DEF Spent, Used
  <2>3. CASE page' = page + 1 /\ choice' = 1
    <3>1. Used' = n + page - 1
      BY <1>1, <2>1, <2>3 DEF Used
    <3>2. Used + 1 =< Used' /\ Used' \in Nat
      BY <1>1, <1>3, <3>1
    <3>3. requests =< 3 * (Used + 1)
      BY DEF Spent, MaxAttempts
    <3>4. \A q, a, b \in Nat : q =< 3 * (a + 1) /\ a + 1 =< b => q =< 3 * b + attempt /\ q =< 3 * (b + 1)
      BY <1>1
    <3>5. requests =< 3 * Used' + attempt /\ requests =< 3 * (Used' + 1)
      BY <1>1, <1>3, <3>2, <3>3, <3>4
    <3> QED
      BY <2>1, <3>5 DEF Spent, MaxAttempts
  <2> QED
    BY <1>6, <2>2, <2>3 DEF Parse
<1>7. CASE ParseFails \/ SaveBatch \/ SaveFails \/ Report \/ Waits
  <2>1. UNCHANGED <<setting, choice, page, requests, attempt>> /\ (pc' = pc \/ pc' = "done")
    BY <1>7, WaitsKeep DEF ParseFails, SaveBatch, SaveFails, Report, input, fetch, Fail
  <2> QED
    BY <2>1 DEF Spent, Used
<1> QED
  BY <1>4, <1>5, <1>6, <1>7, NextCases DEF Steps, Read

(* A run makes no more requests than its attempts times its fallbacks and  *)
(* its pages.                                                              *)
THEOREM RequestsBounded == Spec => []RequestBudget
<1>1. Init => Typed /\ Spent
  <2> SUFFICES ASSUME Init PROVE Spent
    BY InitTyped
  <2>1. pc = "stix" /\ requests = 0 /\ attempt = 0 /\ Used = 0
    BY DEF Init, Used
  <2> QED
    BY <2>1 DEF Spent, MaxAttempts
<1>2. Typed /\ Spent /\ [Next]_vars => (Typed /\ Spent)'
  BY NextTyped, NextSpent
<1>3. Typed /\ Spent => RequestBudget
  <2> SUFFICES ASSUME Typed, Spent PROVE RequestBudget
    OBVIOUS
  <2>1. /\ choice \in 1 .. Len(setting.sizes) /\ Len(setting.sizes) \in Nat \ {0} /\ page \in Nat \ {0}
        /\ requests \in Nat
    BY Known DEF Typed, TypeOK
  <2>2. Used + 1 =< Len(setting.sizes) + page - 1 /\ Used \in Nat
    BY <2>1 DEF Used
  <2> QED
    BY <2>1, <2>2 DEF Spent, RequestBudget, MaxAttempts
<1> QED
  BY <1>1, <1>2, <1>3, PTL DEF Spec

-----------------------------------------------------------------------------
(* A batch is the first of the records that are left.                      *)
LEMMA BatchFirst ==
  ASSUME Typed, NEW i \in InBatch, NEW j \in iocs \ InBatch
  PROVE  i < j
<1>1. /\ IsFiniteSet(iocs) /\ iocs \subseteq Nat /\ i \in iocs /\ j \in iocs
      /\ i \in Nat /\ j \in Nat
  <2>1. iocs \subseteq 1 .. Len(offer) /\ Len(offer) \in Nat
    BY Known DEF Typed, TypeOK
  <2>2. IsFiniteSet(1 .. Len(offer))
    BY <2>1, FS_Interval
  <2>3. IsFiniteSet(iocs)
    BY <2>1, <2>2, FS_Subset
  <2>4. i \in iocs /\ j \in iocs
    BY DEF InBatch
  <2> QED
    BY <2>1, <2>3, <2>4
<1> DEFINE Upto(k) == {x \in iocs : x =< k}
<1>2. SUFFICES ASSUME j =< i PROVE FALSE
  BY <1>1
<1>3. Upto(j) \subseteq Upto(i)
  <2> SUFFICES ASSUME NEW x \in iocs, x =< j PROVE x =< i
    OBVIOUS
  <2>1. x \in Nat
    BY <1>1
  <2> QED
    BY <1>1, <1>2, <2>1
<1>4. IsFiniteSet(Upto(i)) /\ IsFiniteSet(Upto(j))
  BY <1>1, FS_Subset
<1>5. Cardinality(Upto(j)) =< Cardinality(Upto(i))
  BY <1>3, <1>4, FS_Subset
<1>6. Cardinality(Upto(j)) \in Nat /\ Cardinality(Upto(i)) \in Nat
  BY <1>4, FS_CardinalityType
<1>7. Cardinality(Upto(i)) =< BatchSize
  BY DEF InBatch
<1>8. Cardinality(Upto(j)) =< BatchSize
  BY <1>5, <1>6, <1>7, BatchAssumption
<1> QED
  BY <1>1, <1>8 DEF InBatch

(* A good record that is covered is kept.                                  *)
LEMMA GoodKept ==
  ASSUME Typed, NEW i \in Good, (page - 1) * size < i, i =< page * size
  PROVE  i \in Kept
<1>1. offer[i] = "good" /\ i \in DOMAIN offer
  BY DEF Good
<1> QED
  BY <1>1 DEF Kept, Covered, Drops

(* What a run has after it has read an answer, up to the last record the   *)
(* request covers.                                                         *)
LEMMA ParseKeeps ==
  ASSUME Typed, Gathered, pc = "parse", ~Small
  PROVE  /\ {i \in Good : i =< page * size} \subseteq iocs \cup Kept
         /\ feed = "otx" => size = setting.sizes[1]
         /\ feed # "otx" => page = 1
<1>1. /\ choice \in 1 .. Len(setting.sizes) /\ page \in Nat \ {0} /\ size \in Nat \ {0}
      /\ setting.sizes[1] \in Nat \ {0} /\ DOMAIN offer \subseteq Nat
      /\ Good \subseteq Nat \ {0}
  <2>1. DOMAIN offer = 1 .. Len(offer) /\ Len(offer) \in Nat
    BY Known
  <2> QED
    BY <2>1, Known DEF Good
<1>2. feed = "otx" => choice = 1
  BY <1>1 DEF Gathered, Small
<1>3. feed = "otx" => size = setting.sizes[1]
  BY <1>2 DEF size
<1>4. feed # "otx" => page = 1
  BY <1>1 DEF Typed, Paged
<1>5. (page - 1) * size = Before \/ (page - 1) * size = 0
  BY <1>1, <1>3, <1>4 DEF Before
<1>6. ASSUME NEW i \in Good, i =< page * size PROVE i \in iocs \cup Kept
  <2>1. CASE (page - 1) * size < i
    BY <1>6, <2>1, GoodKept
  <2>2. CASE ~((page - 1) * size < i)
    <3>1. i =< (page - 1) * size /\ i \in Nat \ {0}
      BY <1>1, <2>2
    <3>2. i =< Before
      BY <1>1, <1>5, <3>1
    <3> QED
      BY <3>2 DEF Gathered
  <2> QED
    BY <2>1, <2>2
<1> QED
  BY <1>3, <1>4, <1>6

LEMMA ParseGathered ==
  ASSUME Typed, Gathered, Silent, Parse
  PROVE  Gathered' /\ Silent'
<1>1. /\ UNCHANGED <<offer, setting, saved, error, seen, told>> /\ iocs' = iocs \cup Kept
      /\ pc = "parse" /\ saved = {}
  BY DEF Parse, input, Gathered
<1>2. /\ \/ ~HasNext /\ pc' = "save" /\ UNCHANGED <<choice, page, warned>>
         \/ pc' = "save" /\ warned' = TRUE /\ UNCHANGED <<choice, page>>
         \/ HasNext /\ pc' = "request" /\ page' = page + 1 /\ choice' = 1 /\ warned' = warned
  BY DEF Parse
<1>3. UNCHANGED <<feed, Small, Good, Wanted>>
  BY <1>1 DEF feed, Small, Good, Wanted
<1>4. /\ page \in Nat \ {0} /\ size \in Nat \ {0} /\ setting.sizes[1] \in Nat \ {0}
      /\ DOMAIN offer = 1 .. Len(offer) /\ Len(offer) \in Nat /\ Good \subseteq Nat
      /\ iocs \subseteq Nat /\ Kept \subseteq Nat /\ Covered \subseteq Nat
  <2>1. DOMAIN offer = 1 .. Len(offer) /\ Len(offer) \in Nat
    BY Known
  <2> QED
    BY <2>1, Known DEF Good, Typed, TypeOK
<1>5. CASE Small
  <2>1. warned
    BY <1>5 DEF Silent, Small
  <2>2. warned'
    BY <1>2, <2>1
  <2>3. Gathered'
    BY <1>1, <1>2, <1>3, <1>5 DEF Gathered
  <2> QED
    BY <1>2, <2>2, <2>3 DEF Silent
<1>6. CASE ~Small
  <2>1. /\ {i \in Good : i =< page * size} \subseteq iocs \cup Kept
        /\ feed = "otx" => size = setting.sizes[1]
        /\ feed # "otx" => page = 1
    BY <1>1, <1>6, ParseKeeps
  <2>2. Have' = Have \cup Kept /\ Have = iocs
    BY <1>1 DEF Have
  <2>3. ~told => \A i \in Have' : \A j \in Good : j < i => j \in Have'
    <3> SUFFICES ASSUME ~told, NEW i \in Have', NEW j \in Good, j < i PROVE j \in Have'
      OBVIOUS
    <3>1. CASE i \in Have
      BY <1>1, <1>6, <2>2, <3>1 DEF Gathered, Lost
    <3>2. CASE i \in Kept
      <4>1. i =< page * size /\ i \in Nat /\ j \in Nat
        BY <1>4, <3>2 DEF Kept, Covered
      <4>2. page * size \in Nat
        BY <1>4
      <4>3. j =< page * size
        BY <4>1, <4>2
      <4> QED
        BY <2>1, <2>2, <4>3
    <3> QED
      BY <2>2, <3>1, <3>2
  <2>4. pc' = "request" => {i \in Good : i =< Before'} \subseteq iocs'
    <3> SUFFICES ASSUME pc' = "request" PROVE {i \in Good : i =< Before'} \subseteq iocs'
      OBVIOUS
    <3>1. HasNext /\ page' = page + 1
      BY <1>2
    <3>2. Before' = page * size
      BY <1>1, <1>4, <2>1, <3>1 DEF Before, HasNext
    <3> QED
      BY <1>1, <2>1, <3>2
  <2>5. Gathered'
    BY <1>1, <1>2, <1>3, <1>6, <2>3, <2>4 DEF Gathered
  <2>6. ASSUME pc' = "save", ~warned' PROVE Good \cap Wanted \subseteq Have'
    <3>1. ~HasNext /\ choice = 1
      BY <1>2, <2>6 DEF Silent
    <3>2. size = setting.sizes[1]
      BY <3>1 DEF size
    <3>3. ASSUME NEW i \in Good \cap Wanted PROVE i =< page * size
      <4>1. CASE feed = "otx"
        <5>1. page * size \in Nat /\ ~(page * size < Len(offer)) /\ i \in 1 .. Len(offer)
          BY <1>4, <3>1, <4>1 DEF HasNext, Good
        <5> QED
          BY <1>4, <5>1
      <4>2. CASE feed # "otx"
        <5>1. i =< setting.sizes[1] /\ page = 1
          BY <2>1, <4>2 DEF Wanted
        <5> QED
          BY <1>4, <3>2, <5>1
      <4> QED
        BY <4>1, <4>2
    <3> QED
      BY <2>1, <2>2, <3>3
  <2>7. Silent'
    <3>1. ~warned' => choice' = 1 /\ "smaller" \notin seen'
      BY <1>1, <1>2 DEF Silent
    <3> QED
      BY <1>1, <1>2, <1>3, <2>6, <3>1 DEF Silent
  <2> QED
    BY <2>5, <2>7
<1> QED
  BY <1>5, <1>6

(* A run that ends on an exception drops what it had not saved.            *)
LEMMA EndGathered ==
  ASSUME Typed, Gathered, Silent, Ends, told => told', seen \subseteq seen',
         "smaller" \in seen' => "smaller" \in seen \/ choice > 1
  PROVE  Gathered' /\ Silent'
<1>1. /\ pc' = "done" /\ error' /\ iocs' = {} /\ UNCHANGED <<choice, warned>>
      /\ UNCHANGED <<offer, setting, page>>
  BY DEF Ends, Fail
<1>2. UNCHANGED <<feed, Good, Wanted>> /\ (Small => Small') /\ choice \in Nat
  BY <1>1, Known DEF feed, Small, Good, Wanted
<1>3. Have' = saved' /\ \A j \in Good : NearNul(j) => Lost(j)'
  BY <1>1, <1>2 DEF Have, Lost, NearNul
<1>4. ASSUME ~told, ~Small, NEW i \in saved', NEW j \in Good, j < i
      PROVE  j \in saved' \/ Lost(j)'
  <2>1. i \in Have /\ InBatch \subseteq iocs /\ (Stored(InBatch) = InBatch \/ saved' = saved)
    BY DEF Ends, Have, InBatch, Stored
  <2>2. i \in Nat /\ j \in Nat
    <3>1. DOMAIN offer \subseteq Nat
      BY Known
    <3> QED
      BY <2>1, <3>1 DEF Typed, TypeOK, Good, Have
  <2>3. CASE j \in saved
    BY <2>3 DEF Ends
  <2>4. CASE j \in iocs
    <3>1. i \notin saved
      <4>1. ASSUME i \in saved PROVE FALSE
        <5>1. i < j
          BY <2>4, <4>1 DEF Gathered
        <5> QED
          BY <1>4, <2>2, <5>1
      <4> QED
        BY <4>1
    <3>2. i \in InBatch /\ saved' = saved \cup InBatch
      BY <2>1, <3>1 DEF Ends, Stored
    <3>3. j \in InBatch
      <4>1. ASSUME j \notin InBatch PROVE FALSE
        <5>1. i < j
          BY <2>4, <3>2, <4>1, BatchFirst
        <5> QED
          BY <1>4, <2>2, <5>1
      <4> QED
        BY <4>1
    <3> QED
      BY <3>2, <3>3
  <2>5. CASE j \notin Have
    <3>1. Lost(j)
      BY <1>4, <2>1, <2>5 DEF Gathered
    <3> QED
      BY <1>3, <3>1 DEF Lost
  <2> QED
    BY <2>3, <2>4, <2>5 DEF Have
<1>5. Gathered'
  BY <1>1, <1>2, <1>3, <1>4 DEF Gathered
<1>6. Silent'
  BY <1>1, <1>2 DEF Silent
<1> QED
  BY <1>5, <1>6

LEMMA RequestGathered ==
  ASSUME Typed, Gathered, Silent, Asks
  PROVE  Gathered' /\ Silent'
<1>1. /\ pc = "request" /\ seen \subseteq seen' /\ (told => told')
      /\ ("smaller" \in seen' => "smaller" \in seen \/ choice > 1)
  BY DEF Asks
<1>2. choice \in 1 .. Len(setting.sizes) /\ Len(setting.sizes) \in Nat \ {0}
  BY Known
<1>3. CASE Ends
  BY <1>1, <1>3, EndGathered
<1>4. CASE ~Ends
  <2>1. /\ UNCHANGED <<offer, setting, page, iocs, saved, error>>
        /\ pc' \in {"request", "save", "parse"}
        /\ pc' = "parse" => UNCHANGED <<choice, warned>> /\ (choice > 1 => "smaller" \in seen')
        /\ pc' = "save" => /\ choice' = choice
                           /\ warned' = TRUE \/ (warned' = warned /\ ~More /\ "no" \in seen')
        /\ pc' = "request" => UNCHANGED <<choice, warned, seen>> \/ warned' = TRUE
    BY <1>1, <1>4 DEF Asks, Settles, FallsBack, Fallback
  <2>2. UNCHANGED <<feed, Good, Wanted, Before, Have>> /\ (Small => Small')
    BY <1>1, <2>1 DEF feed, Small, Good, Wanted, Before, Have
  <2>3. Gathered'
    BY <1>1, <2>1, <2>2 DEF Gathered, Lost
  <2>4. ~warned' => choice' = 1 /\ "smaller" \notin seen'
    <3>1. ~warned => choice = 1 /\ "smaller" \notin seen
      BY DEF Silent
    <3>2. CASE pc' = "request"
      BY <2>1, <3>1, <3>2
    <3>3. CASE pc' = "parse"
      <4>1. ~warned => "smaller" \notin seen'
        BY <1>1, <3>1
      <4> QED
        BY <2>1, <3>1, <3>3, <4>1
    <3>4. CASE pc' = "save"
      <4>1. ~warned => "smaller" \notin seen'
        BY <1>1, <3>1
      <4> QED
        BY <2>1, <3>1, <3>4, <4>1
    <3> QED
      BY <2>1, <3>2, <3>3, <3>4
  <2>5. pc' = "save" /\ ~warned' => "no" \in seen' /\ Len(setting.sizes) = 1
    <3> SUFFICES ASSUME pc' = "save", ~warned' PROVE "no" \in seen' /\ Len(setting.sizes) = 1
      OBVIOUS
    <3>1. warned' = warned /\ ~More /\ "no" \in seen'
      BY <2>1
    <3>2. ~warned
      BY <3>1
    <3>3. choice = 1
      BY <3>2 DEF Silent
    <3>4. ~(1 < Len(setting.sizes))
      <4>1. ~More
        BY <3>1
      <4> QED
        BY <3>3, <4>1 DEF More
    <3>5. Len(setting.sizes) = 1
      <4>1. \A n \in Nat \ {0} : ~(1 < n) => n = 1
        OBVIOUS
      <4> QED
        BY <1>2, <3>4, <4>1
    <3> QED
      BY <3>1, <3>5
  <2>6. Silent'
    BY <2>1, <2>4, <2>5 DEF Silent
  <2> QED
    BY <2>3, <2>6
<1> QED
  BY <1>3, <1>4

(* A batch that holds a value the server refuses is near that value, as far*)
(* as its good records go: none between them is missing from it.           *)
LEMMA BatchNearNul ==
  ASSUME Typed, Gathered, pc = "save", ~told, ~Small,
         NEW j \in InBatch \cap Good, NEW n \in InBatch, offer[n] = "nul"
  PROVE  NearNul(j)
<1>1. /\ InBatch \subseteq iocs /\ iocs \subseteq DOMAIN offer /\ DOMAIN offer \subseteq Nat
      /\ j \in Nat /\ n \in Nat /\ n \in DOMAIN offer /\ Good \subseteq Nat
  <2>1. DOMAIN offer \subseteq Nat
    BY Known
  <2>2. InBatch \subseteq iocs /\ iocs \subseteq DOMAIN offer
    BY DEF InBatch, Typed, TypeOK
  <2> QED
    BY <2>1, <2>2 DEF Good
<1>2. IsFiniteSet(iocs)
  <2>1. iocs \subseteq 1 .. Len(offer) /\ Len(offer) \in Nat
    BY Known DEF Typed, TypeOK
  <2>2. IsFiniteSet(1 .. Len(offer))
    BY <2>1, FS_Interval
  <2> QED
    BY <2>1, <2>2, FS_Subset
<1> DEFINE Between == {k \in Good : k \in j .. n \cup n .. j}
           Upto(h) == {x \in iocs : x =< h}
<1>3. ASSUME NEW l \in InBatch, NEW h \in InBatch, l =< h, NEW k \in Good, k \in l .. h
      PROVE  k \in Upto(h)
  <2>1. l \in Nat /\ h \in Nat /\ k \in Nat /\ l \in iocs /\ h \in iocs /\ h \in Have
    BY <1>1, <1>3 DEF Have
  <2>2. CASE k = h \/ k = l
    BY <1>3, <2>1, <2>2
  <2>3. CASE k < h /\ l < k
    <3>1. k \in Have \/ Lost(k)
      BY <1>3, <2>1, <2>3 DEF Gathered
    <3>2. ~Lost(k)
      <4>1. ASSUME Lost(k) PROVE FALSE
        <5>1. k < l
          BY <2>1, <4>1 DEF Lost
        <5> QED
          BY <2>1, <2>3, <5>1
      <4> QED
        BY <4>1
    <3>3. k \notin saved
      <4>1. ASSUME k \in saved PROVE FALSE
        <5>1. k < l
          BY <2>1, <4>1 DEF Gathered
        <5> QED
          BY <2>1, <2>3, <5>1
      <4> QED
        BY <4>1
    <3> QED
      BY <2>1, <2>3, <3>1, <3>2, <3>3 DEF Have
  <2> QED
    BY <1>3, <2>1, <2>2, <2>3
<1>4. ASSUME NEW h \in InBatch, Between \subseteq Upto(h)
      PROVE  Cardinality(Between) =< BatchSize
  <2>1. IsFiniteSet(Upto(h))
    BY <1>2, FS_Subset
  <2>2. IsFiniteSet(Between) /\ Cardinality(Between) =< Cardinality(Upto(h))
    BY <1>4, <2>1, FS_Subset
  <2>3. Cardinality(Between) \in Nat /\ Cardinality(Upto(h)) \in Nat
    BY <2>1, <2>2, FS_CardinalityType
  <2>4. Cardinality(Upto(h)) =< BatchSize
    BY DEF InBatch
  <2> QED
    BY <2>2, <2>3, <2>4, BatchAssumption
<1>5. CASE j =< n
  <2>1. Between \subseteq Upto(n)
    <3> SUFFICES ASSUME NEW k \in Between PROVE k \in Upto(n)
      OBVIOUS
    <3>1. k \in j .. n
      <4>1. k \in n .. j => k = j /\ j = n
        BY <1>1, <1>5
      <4> QED
        BY <1>1, <1>5, <4>1
    <3> QED
      BY <1>3, <1>5, <3>1
  <2> QED
    BY <1>1, <1>4, <2>1 DEF NearNul
<1>6. CASE n =< j
  <2>1. Between \subseteq Upto(j)
    <3> SUFFICES ASSUME NEW k \in Between PROVE k \in Upto(j)
      OBVIOUS
    <3>1. k \in n .. j
      <4>1. k \in j .. n => k = j /\ j = n
        BY <1>1, <1>6
      <4> QED
        BY <1>1, <1>6, <4>1
    <3> QED
      BY <1>3, <1>6, <3>1
  <2> QED
    BY <1>1, <1>4, <2>1 DEF NearNul
<1> QED
  BY <1>1, <1>5, <1>6

LEMMA SaveGathered ==
  ASSUME Typed, Gathered, Silent, SaveBatch
  PROVE  Gathered' /\ Silent'
<1>1. /\ pc = "save" /\ UNCHANGED <<offer, setting, pc, choice, page, error, seen>>
      /\ iocs' = iocs \ InBatch /\ InBatch \subseteq iocs /\ saved' \subseteq saved \cup InBatch
      /\ saved \subseteq saved'
      /\ \/ told' /\ warned'
         \/ /\ told' = told /\ saved' = saved \cup Stored(InBatch)
            /\ ~warned' => ~warned /\ Stored(InBatch) = InBatch
  BY DEF SaveBatch, Stored, InBatch, input, fetch
<1>2. UNCHANGED <<feed, Good, Wanted, Small>>
  BY <1>1 DEF feed, Small, Good, Wanted
<1>3. \A i \in saved' : \A j \in iocs' : i < j
  BY <1>1, BatchFirst DEF Gathered
<1>4. ASSUME ~told', ~Small, NEW i \in Have', NEW j \in Good, j < i
      PROVE  j \in Have' \/ Lost(j)'
  <2>1. i \in Have /\ ~told /\ saved' = saved \cup Stored(InBatch)
    BY <1>1, <1>4 DEF Have
  <2>2. j \in Have \/ Lost(j)
    BY <1>4, <2>1 DEF Gathered
  <2>3. NearNul(j)' = NearNul(j)
    BY <1>1, <1>2 DEF NearNul
  <2>4. CASE Lost(j)
    BY <1>1, <2>3, <2>4 DEF Lost
  <2>5. CASE j \in Have /\ j \notin Have'
    <3>1. j \in InBatch /\ Stored(InBatch) # InBatch
      BY <1>1, <2>1, <2>5 DEF Have
    <3>2. PICK n \in InBatch : offer[n] = "nul"
      BY <3>1 DEF Stored
    <3>3. NearNul(j)
      BY <1>1, <1>4, <2>1, <3>1, <3>2, BatchNearNul
    <3>4. \A k \in iocs' : j < k
      BY <1>1, <3>1, BatchFirst
    <3> QED
      BY <1>1, <2>3, <3>3, <3>4 DEF Lost
  <2> QED
    BY <2>2, <2>4, <2>5
<1>5. ~warned' => Have' = Have /\ ~warned
  BY <1>1 DEF Have
<1>6. Gathered'
  BY <1>1, <1>2, <1>3, <1>4 DEF Gathered
<1>7. Silent'
  BY <1>1, <1>2, <1>5 DEF Silent
<1> QED
  BY <1>6, <1>7

LEMMA NextGathered ==
  ASSUME Typed, Gathered, Silent, [Next]_vars
  PROVE  Gathered' /\ Silent'
<1>1. CASE CollectStix
  <2>1. /\ pc = "stix" /\ pc' \in {"request", "done"} /\ (pc' = "done" => warned' = TRUE)
        /\ UNCHANGED <<offer, setting, choice, page, iocs, saved, error, seen>> /\ (told => told')
    BY <1>1 DEF CollectStix, input, fetch
  <2>2. UNCHANGED <<feed, Good, Wanted, Before, Have, Small>>
    BY <2>1 DEF feed, Small, Good, Wanted, Before, Have
  <2> QED
    BY <2>1, <2>2 DEF Gathered, Silent, Lost, NearNul
<1>2. CASE Request
  BY <1>2, RequestAsks, RequestGathered
<1>3. CASE ParseFails \/ SaveFails
  <2>1. Ends /\ (told => told') /\ UNCHANGED seen
    BY <1>3 DEF ParseFails, SaveFails, Ends, input
  <2> QED
    BY <2>1, EndGathered
<1>4. CASE Parse
  BY <1>4, ParseGathered
<1>5. CASE SaveBatch
  BY <1>5, SaveGathered
<1>6. CASE Report
  <2>1. /\ pc = "save" /\ iocs = {} /\ pc' = "done"
        /\ UNCHANGED <<offer, setting, choice, page, iocs, saved, error, warned, seen, told>>
    BY <1>6 DEF Report, input, fetch
  <2>2. UNCHANGED <<feed, Good, Wanted, Before, Have, Small>>
    BY <2>1 DEF feed, Small, Good, Wanted, Before, Have
  <2> QED
    BY <2>1, <2>2 DEF Gathered, Silent, Lost, NearNul
<1>7. CASE Waits
  <2>1. /\ UNCHANGED <<offer, setting, pc, choice, page, iocs, saved, error, warned, seen>>
        /\ told => told'
    BY <1>7, WaitsKeep
  <2>2. UNCHANGED <<feed, Good, Wanted, Before, Have, Small>>
    BY <2>1 DEF feed, Small, Good, Wanted, Before, Have
  <2> QED
    BY <2>1, <2>2 DEF Gathered, Silent, Lost, NearNul
<1> QED
  BY <1>1, <1>2, <1>3, <1>4, <1>5, <1>6, <1>7, NextCases DEF Steps, Read

LEMMA InitGathered ==
  ASSUME Init
  PROVE  Typed /\ Gathered /\ Silent
<1>1. /\ pc = "stix" /\ saved = {} /\ iocs = {} /\ choice = 1 /\ page = 1 /\ seen = {}
  BY DEF Init
<1>2. Typed
  BY InitTyped
<1>3. Before = 0 /\ Good \subseteq Nat \ {0}
  <2>1. DOMAIN offer = 1 .. Len(offer) /\ Len(offer) \in Nat /\ setting.sizes[1] \in Nat
    BY <1>2, Known
  <2>2. Good \subseteq Nat \ {0}
    BY <2>1 DEF Good
  <2>3. \A s \in Nat : (1 - 1) * s = 0
    OBVIOUS
  <2>4. Before = (1 - 1) * setting.sizes[1]
    BY <1>1 DEF Before
  <2> QED
    BY <2>1, <2>2, <2>3, <2>4
<1>4. {i \in Good : i =< Before} = {}
  <2>1. ASSUME NEW i \in Good, i =< Before PROVE FALSE
    <3>1. i \in Nat \ {0} /\ i =< 0
      BY <1>3, <2>1
    <3> QED
      BY <3>1
  <2> QED
    BY <2>1
<1> QED
  BY <1>1, <1>2, <1>4 DEF Gathered, Silent, Have

(* A run that logs neither an error nor a warning has saved every good     *)
(* record it set out to get, unless the provider said no to the only       *)
(* request there is.                                                       *)
THEOREM LossIsLogged == Spec => []NoSilentLoss
<1>1. Init => Typed /\ Gathered /\ Silent
  BY InitGathered
<1>2. Typed /\ Gathered /\ Silent /\ [Next]_vars => (Typed /\ Gathered /\ Silent)'
  BY NextTyped, NextGathered
<1>3. Silent => NoSilentLoss
  BY DEF Silent, NoSilentLoss, Have
<1> QED
  BY <1>1, <1>2, <1>3, PTL DEF Spec

(* What is saved has no gaps but those the soft limit makes, a smaller     *)
(* first page of OTX, or a value the server refuses in a record's batch    *)
(* (create_iocs_bulk goes on after it and its commit keeps nothing).       *)
THEOREM GapsExplained == Spec => []GapsHaveReasons
<1>1. Init => Typed /\ Gathered /\ Silent
  BY InitGathered
<1>2. Typed /\ Gathered /\ Silent /\ [Next]_vars => (Typed /\ Gathered /\ Silent)'
  BY NextTyped, NextGathered
<1>3. Typed /\ Gathered => GapsHaveReasons
  <2> SUFFICES ASSUME Typed, Gathered, NEW i \in saved, NEW j \in Good, j < i, ~told, ~Small
               PROVE  j \in saved \/ NearNul(j)
    BY DEF GapsHaveReasons, Small
  <2>1. j \in Have \/ NearNul(j)
    BY DEF Gathered, Have, Lost
  <2>2. i \in Nat /\ j \in Nat
    <3>1. DOMAIN offer \subseteq Nat
      BY Known
    <3> QED
      BY <3>1 DEF Typed, TypeOK, Good
  <2>3. j \notin iocs
    <3>1. ASSUME j \in iocs PROVE FALSE
      <4>1. i < j
        BY <3>1 DEF Gathered
      <4> QED
        BY <2>2, <4>1
    <3> QED
      BY <3>1
  <2> QED
    BY <2>1, <2>3 DEF Have
<1> QED
  BY <1>1, <1>2, <1>3, PTL DEF Spec
=============================================================================
