-------------------------- MODULE S3ObjectsProofs --------------------------
(***************************************************************************)
(* Proofs, for any bucket, any keys, any page size and any number of       *)
(* changes by other clients: the typing of S3Objects, the date a copy is   *)
(* signed with, the object a request names, what the answers of the        *)
(* functions say of the bucket, and that no call goes on for ever.         *)
(***************************************************************************)
EXTENDS S3Objects, CalendarProofs, FiniteSetTheorems, SequenceTheorems

States == [Keys -> Versions \cup {Absent}]

Typed ==
  /\ bucket \in States /\ edits \in 0 .. MaxEdits
  /\ call \in Calls /\ pc \in Places /\ date \in Dates
  /\ past \subseteq States /\ bucket \in past

(* The arguments of the call, and where it can be.                         *)
Placed ==
  /\ call.kind # "list" => call.key \in Targets
  /\ call.kind = "copy" => call.from \in Targets
  /\ pc \in {"year", "month"} => call.kind = "copy"
  /\ got.outcome # "none" <=> pc = "done"

(* The loops of epoch_days_to_ymd: the days left are counted from the      *)
(* first day of the month reached, which is in the year of the date once   *)
(* the years are counted off.                                              *)
Dated ==
  /\ date.year >= 1970 /\ (pc = "begin" => date.year = 1970)
  /\ date.clock[1] = FirstDay(date.year, date.month) + date.days
  /\ pc \in {"begin", "year"} => date.month = 1
  /\ pc = "month" => date.clock[1] < FirstDay(date.year, 13)
  /\ pc \in {"send", "wait"} /\ call.kind = "copy" =>
       date.month <= 12 /\ date.days < month_lengths(date.year)[date.month]

Outcomes == {"none", "ok", "absent", "notfound", "error"}

(* The answer that has arrived.                                            *)
Readable(a) ==
  a # NoAnswer =>
    /\ a.ver \in Versions \cup {Absent}
    /\ a.next \in Names \cup {NoName}
    /\ Decoded(IF call.dirs THEN a.prefixes ELSE a.contents) \in Seq(Names)

AnswerTyped == Readable(answer)

(* The request under way is the one that Send made of the present state.   *)
Asked ==
  pc = "wait" =>
    /\ call.kind = "list" => request = ListRequest
    /\ call.kind = "copy" => request = CopyRequest
    /\ call.kind \notin {"list", "copy"} => request = ObjectRequest

Inv == Typed /\ Placed /\ Dated /\ got \in Results /\ AnswerTyped /\ Asked

----------------------------------------------------------------------------
(* The date.                                                               *)

LEMMA MonthIsNat ==
  ASSUME NEW y \in Nat, NEW m \in 1 .. 12
  PROVE  month_lengths(y)[m] \in 1 .. 31
  BY DEF month_lengths

LEMMA InstantDay ==
  ASSUME NEW t \in Instants
  PROVE  t[1] \in Nat
  BY DEF Instants

(* What the loops assign, in the terms of the fields.                      *)
LEMMA YearUpdate ==
  ASSUME NEW d \in Dates, NEW e, NEW left \in Nat, NEW next \in Nat,
         e = [d EXCEPT !.days = left, !.year = next]
  PROVE  e \in Dates
  BY Zenon DEF Dates

LEMMA MonthUpdate ==
  ASSUME NEW d \in Dates, NEW e, NEW left \in Nat, NEW next \in 1 .. 13,
         e = [d EXCEPT !.days = left, !.month = next]
  PROVE  e \in Dates
  BY Zenon DEF Dates

LEMMA ClockUpdate ==
  ASSUME NEW d \in Dates, NEW e, NEW now \in Instants, NEW day \in Nat,
         e = [d EXCEPT !.clock = now, !.days = day]
  PROVE  e \in Dates
  BY Zenon DEF Dates

(* The loops keep the days where they are in the calendar.                 *)
LEMMA YearStep ==
  ASSUME Typed, Placed, Dated, YearLoop
  PROVE  date' \in Dates /\ Dated'
  <1>1. /\ date \in Dates /\ date.year \in Nat /\ date.days \in Nat
        /\ date.clock \in Instants
        /\ date.month = 1 /\ date.year >= 1970 /\ pc = "year" /\ call' = call
    BY DEF Typed, Dates, Dated, YearLoop, Goto
  <1> DEFINE y == date.year
             n == days_in_year(y)
  <1>2. n \in Nat /\ n > 0
    BY DEF days_in_year
  <1>3. /\ FirstDay(y, 1) = NewYear(y) /\ FirstDay(y, 13) = NewYear(y + 1)
        /\ NewYear(y + 1) = NewYear(y) + n /\ FirstDay(y + 1, 1) = NewYear(y + 1)
    BY <1>1, MonthLength, YearLength
  <1>4. NewYear(y) \in Int
    BY <1>1 DEF NewYear, LeapDaysBefore
  <1>5. date.clock[1] = NewYear(y) + date.days
    BY <1>1, <1>3 DEF Dated
  <1>9. date.clock[1] \in Nat
    BY <1>1, InstantDay
  <1> HIDE DEF n
  <1>6. CASE date.days < n /\ date' = date /\ pc' = "month"
    BY <1>1, <1>2, <1>3, <1>4, <1>5, <1>9, <1>6 DEF Dated
  <1>7. CASE /\ date.days >= n /\ pc' = "year"
             /\ date' = [date EXCEPT !.days = @ - n, !.year = @ + 1]
    <2>1. /\ date'.days = date.days - n /\ date'.year = y + 1 /\ date'.month = 1
          /\ date'.clock = date.clock
      BY <1>1, <1>7 DEF Dates
    <2>2. /\ date.days - n \in Nat /\ y + 1 \in Nat
          /\ date' = [date EXCEPT !.days = date.days - n, !.year = y + 1]
      BY <1>1, <1>2, <1>7
    <2>3. ASSUME NEW left \in Nat, NEW y1 \in Nat, left = date.days - n, y1 = y + 1
          PROVE  date' \in Dates
      <3>1. date' = [date EXCEPT !.days = left, !.year = y1]
        BY <2>2, <2>3
      <3>2. date \in Dates
        BY <1>1
      <3>3. QED
        BY <3>1, <3>2, YearUpdate, Zenon
    <2>4. date' \in Dates
      BY <2>2, <2>3
    <2>5. QED
      BY <1>1, <1>2, <1>3, <1>4, <1>5, <1>9, <1>7, <2>1, <2>4 DEF Dated
  <1>8. QED
    BY <1>6, <1>7 DEF YearLoop, Goto, n

LEMMA MonthStep ==
  ASSUME Typed, Placed, Dated, MonthLoop
  PROVE  date' \in Dates /\ Dated'
  <1>1. /\ date \in Dates /\ date.year \in Nat /\ date.days \in Nat
        /\ date.month \in 1 .. 13 /\ date.clock \in Instants
        /\ date.year >= 1970 /\ pc = "month" /\ call' = call
    BY DEF Typed, Dates, Dated, MonthLoop, Goto
  <1> DEFINE y == date.year
             m == date.month
             n == month_lengths(y)[m]
  <1>2. /\ date.clock[1] = FirstDay(y, m) + date.days
        /\ date.clock[1] < FirstDay(y, 13)
    BY <1>1 DEF Dated
  <1>10. date.clock[1] \in Nat
    BY <1>1, InstantDay
  <1>3. NewYear(y) \in Int /\ LeapDaysBefore(y + 1) - LeapDaysBefore(y) \in Int
    BY <1>1 DEF NewYear, LeapDaysBefore
  <1>4. FirstDay(y, m) \in Int
    BY <1>1, <1>3 DEF FirstDay, CommonDays
  <1>5. m <= 12
    BY <1>1, <1>2, <1>4, <1>10
  <1>6. n \in Nat /\ FirstDay(y, m + 1) = FirstDay(y, m) + n
    <2>1. m \in 1 .. 12 /\ y \in Nat /\ y >= 1
      BY <1>1, <1>5
    <2>2. n \in 1 .. 31
      BY <2>1, MonthIsNat
    <2>3. QED
      BY <2>1, <2>2, MonthLength
  <1> HIDE DEF n
  <1>7. CASE date.days < n /\ date' = date /\ pc' = "send"
    BY <1>1, <1>2, <1>5, <1>7 DEF Dated, n
  <1>8. CASE /\ date.days >= n /\ pc' = "month"
             /\ date' = [date EXCEPT !.days = @ - n, !.month = @ + 1]
    <2>1. /\ date'.days = date.days - n /\ date'.year = y /\ date'.month = m + 1
          /\ date'.clock = date.clock
      BY <1>1, <1>8 DEF Dates
    <2>2. /\ date.days - n \in Nat /\ m + 1 \in 1 .. 13
          /\ date' = [date EXCEPT !.days = date.days - n, !.month = m + 1]
      BY <1>1, <1>5, <1>6, <1>8
    <2>3. ASSUME NEW left \in Nat, NEW m1 \in 1 .. 13, left = date.days - n, m1 = m + 1
          PROVE  date' \in Dates
      <3>1. date' = [date EXCEPT !.days = left, !.month = m1]
        BY <2>2, <2>3
      <3>2. date \in Dates
        BY <1>1
      <3>3. QED
        BY <3>1, <3>2, MonthUpdate, Zenon
    <2>4. date' \in Dates
      BY <2>2, <2>3
    <2>5. QED
      BY <1>1, <1>2, <1>4, <1>6, <1>8, <1>10, <2>1, <2>4 DEF Dated
  <1>9. QED
    BY <1>1, <1>5, <1>7, <1>8 DEF MonthLoop, Goto, n
LEMMA InstantParts ==
  ASSUME NEW t \in Instants
  PROVE  t[1] \in Nat /\ t[2] \in Seconds
  BY DEF Instants

LEMMA SecondsOf ==
  ASSUME NEW s \in Seconds
  PROVE  s \in Nat /\ s < SecondsPerDay
  <1>1. SecondsPerDay \in Nat
    BY DEF SecondsPerDay
  <1>2. QED
    BY <1>1 DEF Seconds

(* format_timestamp: hours, minutes and seconds.                           *)
LEMMA Clockwork ==
  ASSUME NEW s \in Nat, s < SecondsPerDay
  PROVE  /\ ((s \div 3600) % 24) * 3600 + ((s \div 60) % 60) * 60 + (s % 60) = s
         /\ (s \div 3600) % 24 \in 0 .. 23
         /\ (s \div 60) % 60 \in 0 .. 59 /\ s % 60 \in 0 .. 59
  <1> DEFINE m == s \div 60
             h == s \div 3600
             a == s % 60
             b == m % 60
  <1>1. m \in Nat /\ h \in Nat /\ a \in Nat /\ a < 60
    OBVIOUS
  <1>2. s = 60 * m + a
    OBVIOUS
  <1>3. h = m \div 60
    OBVIOUS
  <1>4. h < 24
    BY DEF SecondsPerDay
  <1> HIDE DEF m, h, a
  <1>5. b \in Nat /\ b < 60
    BY <1>1
  <1>6. m = 60 * (m \div 60) + b
    BY <1>1
  <1>7. h % 24 = h
    BY <1>1, <1>4
  <1> HIDE DEF b
  <1>8. h * 3600 + b * 60 + a = s
    BY <1>1, <1>2, <1>3, <1>5, <1>6
  <1>9. h \in 0 .. 23 /\ b \in 0 .. 59 /\ a \in 0 .. 59
    BY <1>1, <1>4, <1>5
  <1>10. (h % 24) * 3600 + b * 60 + a = s
    BY <1>7, <1>8
  <1>11. h % 24 \in 0 .. 23
    BY <1>7, <1>9
  <1>12. (s \div 60) % 60 = b /\ s \div 3600 = h /\ s % 60 = a
    BY DEF m, h, a, b
  <1>13. QED
    BY <1>9, <1>10, <1>11, <1>12

----------------------------------------------------------------------------
(* What the steps assign to the result of the call.                        *)

Tokens == Names \cup {NoName}

LEMMA ResultOutcome ==
  ASSUME NEW r \in Results, NEW o \in Outcomes
  PROVE  /\ [r EXCEPT !.outcome = o] \in Results
         /\ [r EXCEPT !.outcome = o].outcome = o
  <1>1. [r EXCEPT !.outcome = o] \in Results
    BY Zenon DEF Results, Outcomes
  <1>2. [r EXCEPT !.outcome = o].outcome = o
    BY SMTT(10) DEF Results
  <1>3. QED
    BY <1>1, <1>2

LEMMA ResultFound ==
  ASSUME NEW r \in Results, NEW o \in Outcomes, NEW v \in Versions \cup {Absent}
  PROVE  /\ [r EXCEPT !.found = v, !.outcome = o] \in Results
         /\ [r EXCEPT !.found = v, !.outcome = o].outcome = o
         /\ [r EXCEPT !.found = v, !.outcome = o].found = v
  <1>1. [r EXCEPT !.found = v, !.outcome = o] \in Results
    BY Zenon DEF Results, Outcomes
  <1>2. [r EXCEPT !.found = v, !.outcome = o].outcome = o
    BY SMTT(10) DEF Results
  <1>3. [r EXCEPT !.found = v, !.outcome = o].found = v
    BY SMTT(10) DEF Results
  <1>4. QED
    BY <1>1, <1>2, <1>3

LEMMA ResultUnread ==
  ASSUME NEW r \in Results, NEW o \in Outcomes
  PROVE  /\ [r EXCEPT !.unread = TRUE, !.outcome = o] \in Results
         /\ [r EXCEPT !.unread = TRUE, !.outcome = o].outcome = o
         /\ [r EXCEPT !.unread = TRUE, !.outcome = o].unread = TRUE
  <1>1. [r EXCEPT !.unread = TRUE, !.outcome = o] \in Results
    BY Zenon DEF Results, Outcomes
  <1>2. [r EXCEPT !.unread = TRUE, !.outcome = o].outcome = o
    BY SMTT(10) DEF Results
  <1>3. [r EXCEPT !.unread = TRUE, !.outcome = o].unread = TRUE
    BY SMTT(10) DEF Results
  <1>4. QED
    BY <1>1, <1>2, <1>3

LEMMA ResultCollect ==
  ASSUME NEW r \in Results, NEW o \in Outcomes, NEW s \in Seq(Names), NEW v \in Tokens,
         NEW e, e = [r EXCEPT !.result = s, !.token = v, !.outcome = o]
  PROVE  e \in Results
  BY Zenon DEF Results, Outcomes, Tokens

----------------------------------------------------------------------------
(* Every step keeps Inv.                                                   *)

LEMMA AnswerKept ==
  ASSUME AnswerTyped, UNCHANGED <<call, answer>>
  PROVE  AnswerTyped'
  BY DEF AnswerTyped, Readable, Decoded, decode_s3_path

LEMMA RequestsKept ==
  ASSUME UNCHANGED <<call, date, got>>
  PROVE  /\ ListRequest' = ListRequest /\ CopyRequest' = CopyRequest
         /\ ObjectRequest' = ObjectRequest
  BY DEF ListRequest, CopyRequest, ObjectRequest, Timestamp, fixed_delimiter,
         ObjectUrl, repair_leading_slash_action_url, RustyAction, Signed,
         uses_path_style, PathStyle

LEMMA AskedKept ==
  ASSUME Asked, UNCHANGED <<pc, call, date, got, request>>
  PROVE  Asked'
  <1>1. /\ ListRequest' = ListRequest /\ CopyRequest' = CopyRequest
        /\ ObjectRequest' = ObjectRequest
    BY RequestsKept
  <1>2. pc' = pc /\ call' = call /\ request' = request
    OBVIOUS
  <1>3. QED
    BY <1>1, <1>2, Zenon DEF Asked

LEMMA InitInv == Init => Inv
  <1> SUFFICES ASSUME Init PROVE Inv
    OBVIOUS
  <1>1. call \in Calls /\ (call.kind # "list" => call.key \in Targets)
        /\ (call.kind = "copy" => call.from \in Targets)
    BY DEF Init, AnyCall
  <1>2. date \in Dates /\ Dated
    <2>1. <<0, 0>> \in Instants
      <3>1. 0 \in Seconds
        <4>1. SecondsPerDay \in Nat /\ SecondsPerDay > 0
          BY DEF SecondsPerDay
        <4>2. QED
          BY <4>1 DEF Seconds
      <3>2. QED
        BY <3>1 DEF Instants
    <2>2. FirstDay(1970, 1) = 0
      BY DEF FirstDay, NewYear, CommonDays, LeapDaysBefore
    <2>3. /\ date = [clock |-> <<0, 0>>, days |-> 0, year |-> 1970, month |-> 1]
          /\ pc = "begin"
      BY DEF Init
    <2>4. date \in Dates
      BY <2>1, <2>3 DEF Dates
    <2>5. Dated
      BY <2>2, <2>3 DEF Dated
    <2>6. QED
      BY <2>4, <2>5
  <1>3. got \in Results
    BY DEF Init, Results
  <1>4. Typed
    <2>1. 0 \in 0 .. MaxEdits
      BY BoundsAssumption
    <2>2. QED
      BY <1>1, <1>2, <2>1 DEF Init, Typed, States, Places
  <1>5. Placed
    BY <1>1 DEF Init, Placed
  <1>6. AnswerTyped /\ Asked
    BY DEF Init, AnswerTyped, Readable, Asked
  <1>7. QED
    BY <1>2, <1>3, <1>4, <1>5, <1>6 DEF Inv

LEMMA BeginStep ==
  ASSUME Inv, Begin
  PROVE  Inv'
  <1>1. /\ UNCHANGED <<bucket, edits, request, answer, past, call>>
        /\ pc = "begin" /\ pc' \in {"send", "year", "done"}
        /\ pc' = "year" <=> call.kind = "copy" /\ pc' # "done"
    BY DEF Begin, Goto, Return
  <1>2. date' \in Dates /\ Dated'
    <2>1. /\ date \in Dates /\ date.year = 1970 /\ date.month = 1
          /\ date.clock[1] = FirstDay(date.year, date.month) + date.days
      BY <1>1 DEF Inv, Typed, Dated
    <2>2. CASE date' = date
      BY <1>1, <2>1, <2>2 DEF Dated
    <2>3. ASSUME NEW now \in Clocks, date' = [date EXCEPT !.clock = now, !.days = now[1]]
          PROVE  date' \in Dates /\ Dated'
      <3>1. now \in Instants /\ now[1] \in Nat
        BY BoundsAssumption, InstantDay
      <3>2. date' \in Dates
        <4>1. ASSUME NEW day \in Nat, day = now[1]
              PROVE  date' \in Dates
          <5>1. date' = [date EXCEPT !.clock = now, !.days = day]
            BY <2>3, <4>1
          <5>2. date \in Dates /\ now \in Instants
            BY <2>1, <3>1
          <5>3. QED
            BY <4>1, <5>1, <5>2, ClockUpdate, Zenon
        <4>2. QED
          BY <3>1, <4>1
      <3>3. /\ date'.year = 1970 /\ date'.month = 1 /\ date'.clock = now
            /\ date'.days = now[1]
        BY <2>1, <2>3 DEF Dates
      <3>4. FirstDay(1970, 1) = 0
        BY DEF FirstDay, NewYear, CommonDays, LeapDaysBefore
      <3>5. QED
        BY <1>1, <3>1, <3>2, <3>3, <3>4 DEF Dated
    <2>4. QED
      BY <2>2, <2>3 DEF Begin
  <1>3. got' \in Results /\ (got'.outcome # "none" <=> pc' = "done")
    <2>1. got \in Results /\ got.outcome = "none"
      BY <1>1 DEF Inv, Placed
    <2>2. CASE got' = got /\ pc' # "done"
      BY <2>1, <2>2
    <2>3. CASE got' = [got EXCEPT !.outcome = "error"] /\ pc' = "done"
      BY <2>1, <2>3, ResultOutcome DEF Outcomes
    <2>4. QED
      BY <2>2, <2>3 DEF Begin, Goto, Return
  <1>4. Typed'
    BY <1>1, <1>2 DEF Inv, Typed, Places
  <1>5. Placed'
    BY <1>1, <1>3 DEF Inv, Placed
  <1>6. AnswerTyped' /\ Asked'
    BY <1>1, AnswerKept DEF Inv, Asked
  <1>7. QED
    BY <1>2, <1>3, <1>4, <1>5, <1>6 DEF Inv

LEMMA LoopStep ==
  ASSUME Inv, YearLoop \/ MonthLoop
  PROVE  Inv'
  <1>1. /\ UNCHANGED <<bucket, edits, request, answer, past, call, got>>
        /\ pc \in {"year", "month"} /\ pc' \in {"year", "month", "send"}
    BY DEF YearLoop, MonthLoop, Goto
  <1>2. date' \in Dates /\ Dated'
    BY YearStep, MonthStep DEF Inv
  <1>3. Typed' /\ Placed'
    BY <1>1, <1>2 DEF Inv, Typed, Placed, Places
  <1>4. AnswerTyped' /\ Asked'
    BY <1>1, AnswerKept DEF Inv, Asked
  <1>5. QED
    BY <1>1, <1>2, <1>3, <1>4 DEF Inv

LEMMA SendStep ==
  ASSUME Inv, Send
  PROVE  Inv'
  <1>1. /\ UNCHANGED <<bucket, edits, date, past, call, got>>
        /\ pc = "send" /\ pc' = "wait" /\ answer' = NoAnswer
    BY DEF Send, Goto
  <1>2. Typed' /\ Placed' /\ Dated'
    BY <1>1 DEF Inv, Typed, Placed, Places, Dated
  <1>3. AnswerTyped'
    BY <1>1 DEF AnswerTyped, Readable
  <1>4. Asked'
    <2>1. /\ call.kind = "list" => request' = ListRequest
          /\ call.kind = "copy" => request' = CopyRequest
          /\ call.kind \notin {"list", "copy"} => request' = ObjectRequest
      BY DEF Send
    <2>2. ListRequest' = ListRequest /\ CopyRequest' = CopyRequest
          /\ ObjectRequest' = ObjectRequest
      BY <1>1, RequestsKept
    <2>3. QED
      BY <1>1, <2>1, <2>2 DEF Asked
  <1>5. QED
    BY <1>1, <1>2, <1>3, <1>4 DEF Inv

LEMMA LostStep ==
  ASSUME Inv, Lost
  PROVE  Inv'
  <1>1. /\ UNCHANGED <<bucket, edits, date, past, call, request, answer>>
        /\ pc' = "done" /\ got' = [got EXCEPT !.outcome = "error"]
    BY DEF Lost, Return
  <1>2. got' \in Results /\ got'.outcome = "error"
    BY <1>1, ResultOutcome DEF Inv, Outcomes
  <1>3. Typed' /\ Placed' /\ Dated'
    BY <1>1, <1>2 DEF Inv, Typed, Placed, Places, Dated
  <1>4. AnswerTyped' /\ Asked'
    BY <1>1, AnswerKept DEF Inv, Asked
  <1>5. QED
    BY <1>2, <1>3, <1>4 DEF Inv

LEMMA EditStep ==
  ASSUME Inv, Edit
  PROVE  Inv'
  <1>1. UNCHANGED <<call, pc, date, got, request, answer>>
        /\ edits' = edits + 1 /\ edits < MaxEdits /\ past' = past \cup {bucket'}
    BY DEF Edit
  <1>2. bucket' \in States
    BY DEF Edit, Inv, Typed, States
  <1>3. edits' \in 0 .. MaxEdits
    BY <1>1, BoundsAssumption DEF Inv, Typed
  <1>4. Typed'
    BY <1>1, <1>2, <1>3 DEF Inv, Typed
  <1>5. Placed' /\ Dated'
    BY <1>1 DEF Inv, Placed, Dated
  <1>6. AnswerTyped' /\ Asked'
    BY <1>1, AnswerKept, AskedKept DEF Inv
  <1>7. QED
    BY <1>1, <1>4, <1>5, <1>6 DEF Inv
----------------------------------------------------------------------------
(* What is asked, and what is answered.                                    *)

(* The key the requests reach: the caller's, but without its slash where   *)
(* the bucket is virtual-hosted.                                           *)
Reached == IF KeyKept THEN call.key ELSE Unslashed[call.key]

(* The versions of that object during the call, and the answers about it.  *)
SeenThere == {b[Reached] : b \in past}

TrueThere ==
  /\ call.kind \in {"stats", "get"} =>
       /\ got.outcome = "ok" => got.found \in SeenThere \ {Absent}
       /\ got.outcome = "notfound" => Absent \in SeenThere
  /\ call.kind = "exists" /\ got.outcome = "ok" => SeenThere \ {Absent} # {}
  /\ got.outcome = "absent" => Absent \in SeenThere
  /\ call.kind = "delete" /\ got.outcome = "ok" => Absent \in SeenThere
  /\ call.kind = "copy" /\ got.outcome = "ok" /\ ~got.unread =>
       \E b \in past : b[Reached] = b[call.from] /\ b[Reached] # Absent

(* The repaired URL names the bucket and the key, and is signed.           *)
LEMMA RepairedUrl ==
  ASSUME NEW method
  PROVE  LET u == repair_leading_slash_action_url(
                    RustyAction(method, call.key), call.key, method)
         IN  u.named /\ u.signature = <<method, u.named, u.key>> /\ u.key = Reached
  BY DEF repair_leading_slash_action_url, RustyAction, Signed, Reached, KeyKept,
         uses_path_style, PathStyle

LEMMA CopyUrl ==
  LET u == ObjectUrl(call.key)
  IN  u.named /\ u.signature = <<"PUT", u.named, u.key>> /\ u.key = Reached
  BY DEF ObjectUrl, RustyAction, Signed, Reached, KeyKept, uses_path_style, PathStyle

LEMMA Named ==
  ASSUME Inv, pc = "wait", call.kind # "list"
  PROVE  /\ Admitted /\ request.url.key = Reached /\ Reached \in Keys
         /\ call.kind = "copy" => request.method = "PUT" /\ request.source = call.from
                                  /\ call.from \in Keys
         /\ call.kind = "delete" => request.method = "DELETE"
         /\ call.kind = "get" => request.method = "GET"
         /\ call.kind \in {"stats", "exists"} => request.method = "HEAD"
         /\ call.kind \in Kinds
  <1>1. /\ call.key \in Targets /\ call.kind \in Kinds
        /\ call.kind = "copy" => call.from \in Targets
    BY DEF Inv, Typed, Placed, Calls
  <1>2. Reached \in Keys
    BY <1>1, KeysAssumption DEF Reached, KeyKept
  <1>3. CASE call.kind = "copy"
    <2>1. request = CopyRequest
      BY <1>3 DEF Inv, Asked
    <2>2. request.method = "PUT" /\ request.source = call.from
          /\ request.url = ObjectUrl(call.key)
      BY <2>1 DEF CopyRequest
    <2>3. QED
      BY <1>1, <1>2, <1>3, <2>2, CopyUrl, KeysAssumption DEF Admitted
  <1>4. CASE call.kind # "copy"
    <2>1. request = ObjectRequest
      BY <1>4 DEF Inv, Asked
    <2>2. /\ request.method = Method[call.kind]
          /\ request.url = repair_leading_slash_action_url(
                 RustyAction(request.method, call.key), call.key, request.method)
      BY <2>1 DEF ObjectRequest
    <2>3. Admitted /\ request.url.key = Reached
      BY <2>2, RepairedUrl DEF Admitted
    <2>4. QED
      BY <1>1, <1>2, <1>4, <2>2, <2>3 DEF Method
  <1>5. QED
    BY <1>3, <1>4

LEMMA NamesFinite == IsFiniteSet(Names) /\ Names \subseteq Nat
  <1>1. IsFiniteSet({Folder[k] : k \in Keys})
    <2>1. Folder \in Surjection(Keys, {Folder[k] : k \in Keys})
      BY KeysAssumption DEF Surjection
    <2>2. QED
      BY <2>1, KeysAssumption, FS_Surjection
  <1>2. IsFiniteSet(Names)
    BY <1>1, KeysAssumption, FS_Union DEF Names
  <1>3. QED
    BY <1>2, KeysAssumption DEF Names

LEMMA AscendingSeq ==
  ASSUME NEW S \in SUBSET Names, NEW s \in Ascending(S)
  PROVE  /\ s \in Seq(Names)
         /\ \A i \in DOMAIN s : s[i] \in S
         /\ \A e \in S : \E i \in DOMAIN s : s[i] = e
         /\ \A i, j \in DOMAIN s : i < j => s[i] < s[j]
  <1>1. IsFiniteSet(S) /\ Cardinality(S) \in Nat
    BY NamesFinite, FS_Subset, FS_CardinalityType
  <1>2. s \in [1 .. Cardinality(S) -> S]
    BY DEF Ascending
  <1>3. s \in Seq(Names)
    BY <1>1, <1>2
  <1>4. QED
    BY <1>2, <1>3 DEF Ascending

LEMMA DecodedEncoded ==
  ASSUME NEW s \in Seq(Names)
  PROVE  Decoded(Encoded(s)) = s
  BY DEF Decoded, Encoded, decode_s3_path

LEMMA DecodedEmpty == Decoded(<<>>) = <<>> /\ <<>> \in Seq(Names)
  BY DEF Decoded, decode_s3_path
(* Who gets which answers: a request that names the object is admitted.    *)
LEMMA ServeCases ==
  ASSUME Inv, Serve
  PROVE  /\ pc = "wait" /\ answer = NoAnswer /\ past' = past \cup {bucket'}
         /\ UNCHANGED <<edits, call, pc, date, got, request>>
         /\ \/ call.kind = "list" /\ ServeList
            \/ call.kind \in {"stats", "exists", "get"} /\ ServeObject
            \/ call.kind = "delete" /\ ServeDelete
            \/ call.kind = "copy" /\ ServeCopy
            \/ /\ \E status \in {403, 500} : answer' = Reply(status, ErrorBody)
               /\ UNCHANGED bucket
  <1>1. /\ pc = "wait" /\ answer = NoAnswer /\ past' = past \cup {bucket'}
        /\ UNCHANGED <<edits, call, pc, date, got, request>>
    BY DEF Serve
  <1>2. CASE call.kind = "list" /\ ServeList
    BY <1>1, <1>2
  <1>3. CASE answer' \in {Reply(status, ErrorBody) : status \in {403, 500}} /\ UNCHANGED bucket
    BY <1>1, <1>3
  <1>4. CASE call.kind # "list"
    <2>1. /\ Admitted
          /\ call.kind = "copy" => request.method = "PUT"
          /\ call.kind = "delete" => request.method = "DELETE"
          /\ call.kind = "get" => request.method = "GET"
          /\ call.kind \in {"stats", "exists"} => request.method = "HEAD"
      BY <1>1, <1>4, Named
    <2>2. call.kind \in {"copy", "delete", "get", "stats", "exists"}
      BY <1>1, <1>4, Named DEF Kinds
    <2>3. CASE \/ request.method \in {"HEAD", "GET"} /\ ServeObject
               \/ request.method = "DELETE" /\ ServeDelete
               \/ request.method = "PUT" /\ ServeCopy
      <3>1. CASE call.kind = "copy"
        BY <1>1, <2>1, <2>3, <3>1
      <3>2. CASE call.kind = "delete"
        BY <1>1, <2>1, <2>3, <3>2
      <3>3. CASE call.kind \in {"get", "stats", "exists"}
        BY <1>1, <2>1, <2>3, <3>3
      <3>4. QED
        BY <2>2, <3>1, <3>2, <3>3
    <2>4. QED
      BY <1>3, <1>4, <2>1, <2>3 DEF Serve
  <1>5. QED
    BY <1>2, <1>3, <1>4 DEF Serve

LEMMA ReplyFields ==
  ASSUME NEW status, NEW body
  PROVE  LET r == Reply(status, body)
         IN  /\ r.status = status /\ r.body = body /\ r.ver = Absent
             /\ r.contents = <<>> /\ r.prefixes = <<>> /\ r.next = NoName
  BY DEF Reply

(* The page a listing gets.                                                *)
LEMMA PageFields ==
  ASSUME Inv, pc = "wait", call.kind = "list", ServeList
  PROVE  \E page \in SUBSET {e \in Listed(bucket, request) : e > request.token} :
           LET left == {e \in Listed(bucket, request) : e > request.token}
               named == IF call.dirs THEN page \ Keys ELSE page \cap Keys
           IN  /\ \A e \in page, f \in left \ page : e < f
               /\ IF page = left THEN answer'.next = NoName
                  ELSE answer'.next \in page /\ \A e \in page : e <= answer'.next
               /\ answer'.next \in Names \cup {NoName}
               /\ answer'.status = 200 /\ answer'.ver = Absent
               /\ Decoded(IF call.dirs THEN answer'.prefixes ELSE answer'.contents)
                    \in Ascending(named)
               /\ named \subseteq Names
  <1> DEFINE left == {e \in Listed(bucket, request) : e > request.token}
  <1>1. left \subseteq Names
    BY DEF Listed, Names
  <1>2. PICK page \in SUBSET left, next \in Names \cup {NoName} :
          /\ \A e \in page, f \in left \ page : e < f
          /\ IF page = left THEN next = NoName ELSE next \in page /\ \A e \in page : e <= next
          /\ \E contents \in Ascending(page \cap Keys), prefixes \in Ascending(page \ Keys) :
               answer' = [Reply(200, <<>>) EXCEPT
                            !.contents = Encoded(contents),
                            !.prefixes = Encoded(prefixes), !.next = next]
    BY ZenonT(30) DEF ServeList
  <1>3. PICK contents \in Ascending(page \cap Keys), prefixes \in Ascending(page \ Keys) :
          answer' = [Reply(200, <<>>) EXCEPT
                       !.contents = Encoded(contents),
                       !.prefixes = Encoded(prefixes), !.next = next]
    BY <1>2
  <1>4. contents \in Seq(Names) /\ prefixes \in Seq(Names)
    BY <1>1, AscendingSeq
  <1>5. /\ answer'.contents = Encoded(contents) /\ answer'.prefixes = Encoded(prefixes)
        /\ answer'.next = next /\ answer'.status = 200 /\ answer'.ver = Absent
    BY <1>3 DEF Reply
  <1>6. Decoded(answer'.contents) = contents /\ Decoded(answer'.prefixes) = prefixes
    BY <1>4, <1>5, DecodedEncoded
  <1>7. Decoded(IF call.dirs THEN answer'.prefixes ELSE answer'.contents)
          \in Ascending(IF call.dirs THEN page \ Keys ELSE page \cap Keys)
    BY <1>6
  <1>8. (IF call.dirs THEN page \ Keys ELSE page \cap Keys) \subseteq Names
    BY <1>1
  <1>9. QED
    BY <1>2, <1>5, <1>7, <1>8

LEMMA ReplyReadable ==
  ASSUME NEW status, NEW body
  PROVE  Readable(Reply(status, body))
  <1> DEFINE r == Reply(status, body)
  <1>1. r.ver = Absent /\ r.contents = <<>> /\ r.prefixes = <<>> /\ r.next = NoName
    BY ReplyFields
  <1> HIDE DEF r
  <1>2. (IF call.dirs THEN r.prefixes ELSE r.contents) = <<>>
    BY <1>1
  <1>3. Decoded(IF call.dirs THEN r.prefixes ELSE r.contents) \in Seq(Names)
    BY <1>2, DecodedEmpty
  <1>4. Readable(r)
    BY <1>1, <1>3 DEF Readable
  <1>5. QED
    BY <1>4 DEF r

LEMMA ObjectFields ==
  ASSUME Inv, pc = "wait", call.kind # "list", ServeObject
  PROVE  /\ Reached \in Keys /\ bucket' = bucket
         /\ \/ /\ bucket[Reached] = Absent
               /\ \E body : answer' = Reply(404, body)
            \/ /\ bucket[Reached] \in Versions /\ bucket[Reached] # Absent
               /\ answer'.status = 200 /\ answer'.ver = bucket[Reached]
               /\ answer'.next = NoName /\ answer'.contents = <<>> /\ answer'.prefixes = <<>>
  <1>1. request.url.key = Reached /\ Reached \in Keys
    BY Named
  <1>2. bucket[Reached] \in Versions \cup {Absent}
    BY <1>1 DEF Inv, Typed, States
  <1>3. CASE bucket[Reached] = Absent
    BY <1>1, <1>3 DEF ServeObject
  <1>4. CASE bucket[Reached] # Absent
    <2>1. PICK length \in BOOLEAN :
            answer' = [Reply(200, <<>>) EXCEPT !.ver = bucket[Reached], !.length = length]
      BY <1>1, <1>4 DEF ServeObject
    <2>2. /\ answer'.status = 200 /\ answer'.ver = bucket[Reached]
          /\ answer'.next = NoName /\ answer'.contents = <<>> /\ answer'.prefixes = <<>>
      BY <2>1 DEF Reply
    <2>3. QED
      BY <1>1, <1>2, <1>4, <2>2 DEF ServeObject
  <1>5. QED
    BY <1>3, <1>4

LEMMA ServeInv ==
  ASSUME Inv, Serve, bucket' \in States, Readable(answer')
  PROVE  Inv'
  <1>1. /\ pc = "wait" /\ past' = past \cup {bucket'}
        /\ UNCHANGED <<edits, call, pc, date, got, request>>
    BY ServeCases
  <1>2. Typed' /\ Placed' /\ Dated'
    BY <1>1 DEF Inv, Typed, Placed, Dated
  <1>3. AnswerTyped'
    BY <1>1, Zenon DEF AnswerTyped, Readable
  <1>4. Asked'
    BY <1>1, AskedKept DEF Inv
  <1>5. QED
    BY <1>1, <1>2, <1>3, <1>4 DEF Inv

LEMMA ServeStep ==
  ASSUME Inv, Serve
  PROVE  Inv'
  <1>1. /\ pc = "wait" /\ answer = NoAnswer /\ past' = past \cup {bucket'}
        /\ UNCHANGED <<edits, call, pc, date, got, request>>
    BY ServeCases
  <1>2. bucket \in States
    BY DEF Inv, Typed
  <1>3. CASE call.kind = "list" /\ ServeList
    <2>1. bucket' = bucket
      BY <1>3 DEF ServeList
    <2>2. /\ answer'.next \in Names \cup {NoName} /\ answer'.ver = Absent
          /\ Decoded(IF call.dirs THEN answer'.prefixes ELSE answer'.contents) \in Seq(Names)
      BY <1>1, <1>3, PageFields, AscendingSeq
    <2>3. QED
      BY <1>2, <2>1, <2>2, ServeInv DEF Readable
  <1>4. CASE call.kind \in {"stats", "exists", "get"} /\ ServeObject
    <2>1. bucket' = bucket
      BY <1>4 DEF ServeObject
    <2>2. Readable(answer')
      <3>1. CASE \E body : answer' = Reply(404, body)
        BY <3>1, ReplyReadable
      <3>2. CASE /\ bucket[Reached] \in Versions
                 /\ answer'.status = 200 /\ answer'.ver = bucket[Reached]
                 /\ answer'.next = NoName
                 /\ answer'.contents = <<>> /\ answer'.prefixes = <<>>
        <4>1. (IF call.dirs THEN answer'.prefixes ELSE answer'.contents) = <<>>
          BY <3>2
        <4>2. Decoded(IF call.dirs THEN answer'.prefixes ELSE answer'.contents) \in Seq(Names)
          BY <4>1, DecodedEmpty
        <4>3. QED
          BY <3>2, <4>2 DEF Readable
      <3>3. QED
        BY <1>1, <1>4, <3>1, <3>2, ObjectFields
    <2>3. QED
      BY <1>2, <2>1, <2>2, ServeInv
  <1>5. CASE call.kind = "delete" /\ ServeDelete
    <2>1. bucket' \in States /\ answer' = Reply(204, <<>>)
      BY <1>2, <1>5 DEF ServeDelete, States
    <2>2. QED
      BY <2>1, ReplyReadable, ServeInv
  <1>6. CASE call.kind = "copy" /\ ServeCopy
    <2>1. bucket[request.source] \in Versions \cup {Absent}
      BY <1>1, <1>2, <1>6, Named DEF States
    <2>2. bucket' \in States
      BY <1>2, <1>6, <2>1 DEF ServeCopy, States
    <2>3. \E status, body : answer' = Reply(status, body)
      BY <1>6 DEF ServeCopy
    <2>4. QED
      BY <2>2, <2>3, ReplyReadable, ServeInv
  <1>7. CASE /\ \E status \in {403, 500} : answer' = Reply(status, ErrorBody)
             /\ UNCHANGED bucket
    BY <1>2, <1>7, ReplyReadable, ServeInv
  <1>8. QED
    BY <1>3, <1>4, <1>5, <1>6, <1>7, ServeCases

LEMMA CollectFields ==
  ASSUME got \in Results, answer.next \in Names \cup {NoName}, OnPage \in Seq(Names),
         Collect(OnPage, answer.next = NoName)
  PROVE  /\ got' \in Results
         /\ got'.result = got.result \o OnPage /\ got'.token = answer.next
         /\ \/ answer.next = NoName /\ got'.outcome = "ok" /\ pc' = "done"
            \/ answer.next # NoName /\ got'.outcome = "none" /\ pc' = "send"
  <1>1. got.result \in Seq(Names)
    BY DEF Results
  <1>2. got.result \o OnPage \in Seq(Names)
    BY <1>1
  <1>3. /\ got' = [got EXCEPT !.result = got.result \o OnPage, !.token = answer.next,
                    !.outcome = IF answer.next = NoName THEN "ok" ELSE "none"]
        /\ pc' = IF answer.next = NoName THEN "done" ELSE "send"
    BY DEF Collect
  <1>4. ASSUME NEW s \in Seq(Names), s = got.result \o OnPage,
               NEW v \in Tokens, v = answer.next,
               NEW o \in Outcomes, o = IF answer.next = NoName THEN "ok" ELSE "none"
        PROVE  got' \in Results /\ got'.result = s /\ got'.token = v /\ got'.outcome = o
    <2>1. got' = [got EXCEPT !.result = s, !.token = v, !.outcome = o]
      BY <1>3, <1>4
    <2>2. got \in Results
      OBVIOUS
    <2>3. got' \in Results
      BY <2>1, <2>2, ResultCollect, Zenon
    <2>4. got'.result = s
      BY <2>1, <2>2, SMTT(10) DEF Results
    <2>5. got'.token = v
      BY <2>1, <2>2, SMTT(10) DEF Results
    <2>6. got'.outcome = o
      BY <2>1, <2>2, SMTT(10) DEF Results
    <2>7. QED
      BY <2>3, <2>4, <2>5, <2>6
  <1>5. (IF answer.next = NoName THEN "ok" ELSE "none") \in Outcomes
    BY DEF Outcomes
  <1>6. QED
    BY <1>2, <1>3, <1>4, <1>5 DEF Tokens

LEMMA HearStep ==
  ASSUME Inv, Hear
  PROVE  Inv'
  <1>1. /\ pc = "wait" /\ answer # NoAnswer
        /\ UNCHANGED <<bucket, edits, date, request, answer, past, call>>
    BY DEF Hear, HearPage, HearCopy, HearObject, HearExists, Refused, Return, Collect
  <1>2. /\ got \in Results
        /\ answer.ver \in Versions \cup {Absent} /\ answer.next \in Names \cup {NoName}
        /\ OnPage \in Seq(Names)
    BY <1>1 DEF Inv, AnswerTyped, Readable, OnPage
  <1>3. got' \in Results /\ pc' \in {"send", "done"}
        /\ (got'.outcome # "none" <=> pc' = "done")
    <2>1. ASSUME NEW o \in Outcomes \ {"none"}, Return(o)
          PROVE  <1>3
      BY <1>2, <2>1, ResultOutcome DEF Return
    <2>2. CASE HearPage
      <3>1. CASE Refused \/ Return("error")
        BY <2>1, <3>1 DEF Refused, Outcomes
      <3>2. CASE Collect(OnPage, answer.next = NoName)
        BY <1>2, <3>2, CollectFields
      <3>3. QED
        BY <2>2, <3>1, <3>2 DEF HearPage
    <2>3. CASE HearCopy
      <3>1. CASE Refused
        BY <2>1, <3>1 DEF Refused, Outcomes
      <3>2. CASE Return(IF parse_s3_error_xml(answer.body) THEN "error" ELSE "ok")
        BY <2>1, <3>2 DEF Outcomes
      <3>3. CASE /\ got' = [got EXCEPT !.unread = TRUE,
                           !.outcome = IF parse_s3_error_xml(<<>>) THEN "error" ELSE "ok"]
                 /\ pc' = "done"
        <4> DEFINE o == IF parse_s3_error_xml(<<>>) THEN "error" ELSE "ok"
        <4>1. o \in Outcomes \ {"none"}
          BY DEF Outcomes
        <4>2. got' \in Results /\ got'.outcome = o
          BY <1>2, <3>3, <4>1, ResultUnread
        <4>3. QED
          BY <3>3, <4>1, <4>2
      <3>4. QED
        BY <2>3, <3>1, <3>2, <3>3 DEF HearCopy
    <2>4. CASE HearObject
      <3>1. CASE Refused \/ Return("error")
        BY <2>1, <3>1 DEF Refused, Outcomes
      <3>2. CASE got' = [got EXCEPT !.found = answer.ver, !.outcome = "ok"] /\ pc' = "done"
        BY <1>2, <3>2, ResultFound DEF Outcomes
      <3>3. QED
        BY <2>4, <3>1, <3>2 DEF HearObject
    <2>5. CASE HearExists
      BY <2>1, <2>5 DEF HearExists, Refused, Outcomes
    <2>6. QED
      BY <2>2, <2>3, <2>4, <2>5 DEF Hear
  <1>4. Typed' /\ Placed' /\ Dated'
    BY <1>1, <1>3 DEF Inv, Typed, Placed, Places, Dated
  <1>5. AnswerTyped' /\ Asked'
    BY <1>1, <1>3, AnswerKept DEF Inv, Asked
  <1>6. QED
    BY <1>3, <1>4, <1>5 DEF Inv

LEMMA InvStep == Inv /\ [Next]_vars => Inv'
  <1> SUFFICES ASSUME Inv, [Next]_vars PROVE Inv'
    OBVIOUS
  <1>1. CASE UNCHANGED vars
    <2>1. UNCHANGED <<bucket, edits, call, pc, date, got, request, answer, past>>
      BY <1>1 DEF vars
    <2>2. Typed' /\ Placed' /\ Dated' /\ got' \in Results
      BY <2>1 DEF Inv, Typed, Placed, Dated
    <2>3. AnswerTyped' /\ Asked'
      BY <2>1, AnswerKept, AskedKept DEF Inv
    <2>4. QED
      BY <2>2, <2>3 DEF Inv
  <1>2. QED
    BY <1>1, BeginStep, LoopStep, SendStep, LostStep, HearStep, ServeStep, EditStep
    DEF Next, CallStep
LEMMA Invariance == Spec => []Inv
  <1>1. Init => Inv
    BY InitInv
  <1>2. Inv /\ [Next]_vars => Inv'
    BY InvStep
  <1>3. QED
    BY <1>1, <1>2, PTL DEF Spec

----------------------------------------------------------------------------
(* Type correctness; the loops leave a day that its month has.             *)
THEOREM Typing == Spec => []TypeOK
  <1>1. Inv => TypeOK
    BY DEF Inv, Typed, Dated, States, TypeOK
  <1>2. QED
    BY <1>1, Invariance, PTL

(* A copy is signed with the date and time of the clock, whatever the day. *)
THEOREM DateIsSigned == Spec => []DateSigned
  <1>1. Inv => DateSigned
    <2> SUFFICES ASSUME Inv, call.kind = "copy", pc = "wait"
                 PROVE  DateSigned
      BY DEF DateSigned
    <2>1. /\ date.year \in Nat /\ date.year >= 1970 /\ date.days \in Nat
          /\ date.month \in 1 .. 12 /\ date.clock \in Instants
          /\ date.days < month_lengths(date.year)[date.month]
          /\ date.clock[1] = FirstDay(date.year, date.month) + date.days
      BY DEF Inv, Typed, Dates, Dated
    <2> DEFINE y == date.year
               m == date.month
               n == date.days
               s == date.clock[2]
    <2>2. date.clock[1] \in Nat /\ s \in Seconds /\ s \in Nat /\ s < SecondsPerDay
      BY <2>1, InstantParts, SecondsOf
    <2>3. request.date = <<y, m, n + 1, (s \div 3600) % 24, (s \div 60) % 60, s % 60>>
      <3>1. request = CopyRequest
        BY DEF Inv, Asked
      <3>2. request.date = Timestamp
        BY <3>1 DEF CopyRequest
      <3>3. QED
        BY <3>2 DEF Timestamp
    <2>4. DateOf(date.clock[1], y, m, n + 1)
      <3>1. month_lengths(y)[m] \in 1 .. 31
        BY <2>1, MonthIsNat
      <3>2. FirstDay(y, m + 1) = FirstDay(y, m) + month_lengths(y)[m]
        BY <2>1, MonthLength
      <3>3. FirstDay(y, m) \in Int
        BY <2>1, SMTT(20) DEF FirstDay, CommonDays, NewYear, LeapDaysBefore
      <3>4. QED
        BY <2>1, <3>1, <3>2, <3>3 DEF DateOf
    <2> HIDE DEF y, m, n, s
    <2>5. /\ ((s \div 3600) % 24) * 3600 + ((s \div 60) % 60) * 60 + (s % 60) = s
          /\ (s \div 3600) % 24 \in 0 .. 23
          /\ (s \div 60) % 60 \in 0 .. 59 /\ s % 60 \in 0 .. 59
      BY <2>2, Clockwork
    <2>6. ASSUME NEW d, d = request.date
          PROVE  /\ DateOf(date.clock[1], d[1], d[2], d[3])
                 /\ d[4] * 3600 + d[5] * 60 + d[6] = date.clock[2]
                 /\ d[4] \in 0 .. 23 /\ d[5] \in 0 .. 59 /\ d[6] \in 0 .. 59
      <3>1. /\ d[1] = y /\ d[2] = m /\ d[3] = n + 1 /\ d[4] = (s \div 3600) % 24
            /\ d[5] = (s \div 60) % 60 /\ d[6] = s % 60
        BY <2>3, <2>6
      <3>2. QED
        BY <2>4, <2>5, <3>1 DEF s
    <2>7. QED
      BY <2>6 DEF DateSigned
  <1>2. QED
    BY <1>1, Invariance, PTL

(* Every request names a bucket and is signed for what it names, and it    *)
(* names the caller's key, with its slash where the bucket is a path-style *)
(* one; nothing is said of a key with a slash in a virtual-hosted bucket.  *)
THEOREM RequestsNameObjects == Spec => []RequestNamesObject
  <1>1. Inv => RequestNamesObject
    BY Named DEF RequestNamesObject, Reached
  <1>2. QED
    BY <1>1, Invariance, PTL

----------------------------------------------------------------------------
(* The answers.                                                            *)

(* What an answer says was true of the object since the call began.        *)
Answered ==
  pc = "wait" /\ answer # NoAnswer =>
    /\ call.kind \in {"stats", "exists", "get"} =>
         /\ Success => answer.ver \in SeenThere \ {Absent}
         /\ answer.status = 404 => Absent \in SeenThere
    /\ call.kind = "delete" /\ Success => Absent \in SeenThere
    /\ call.kind = "copy" /\ Success /\ ~parse_s3_error_xml(answer.body) =>
         \E b \in past : b[Reached] = b[call.from] /\ b[Reached] # Absent

LEMMA ErrorParsed == parse_s3_error_xml(ErrorBody)
  <1>1. Len(ErrorBody) = 8 /\ ErrorBody[3][1] = "text"
        /\ ErrorBody[2] = <<"start", "Code">>
    BY DEF ErrorBody
  <1>2. 3 - 1 = 2 /\ 3 \in 2 .. Len(ErrorBody)
    BY <1>1
  <1>3. ErrorBody[3 - 1][1] = "start" /\ ErrorBody[3 - 1][2] = "Code"
    BY <1>1, <1>2
  <1>4. QED
    BY <1>1, <1>2, <1>3 DEF parse_s3_error_xml

LEMMA AnsweredServe ==
  ASSUME Inv, Serve
  PROVE  Answered'
  <1>1. /\ pc = "wait" /\ pc' = "wait" /\ past' = past \cup {bucket'}
        /\ call' = call /\ bucket \in past
    BY ServeCases DEF Inv, Typed
  <1>2. /\ Reached' = Reached /\ bucket \in past' /\ bucket' \in past'
        /\ SeenThere' = {b[Reached] : b \in past'}
        /\ Success' <=> answer'.status \in 200 .. 299
    BY <1>1 DEF Reached, KeyKept, PathStyle, SeenThere, Success
  <1>3. CASE call.kind = "list"
    BY <1>1, <1>3 DEF Answered
  <1>4. CASE call.kind \in {"stats", "exists", "get"} /\ ServeObject
    <2>1. /\ Reached \in Keys /\ bucket' = bucket
          /\ \/ bucket[Reached] = Absent /\ \E body : answer' = Reply(404, body)
             \/ /\ bucket[Reached] # Absent
                /\ answer'.status = 200 /\ answer'.ver = bucket[Reached]
      BY <1>1, <1>4, ObjectFields
    <2>2. bucket[Reached] \in SeenThere'
      BY <1>2
    <2>3. CASE bucket[Reached] = Absent /\ \E body : answer' = Reply(404, body)
      <3>1. answer'.status = 404
        BY <2>3, ReplyFields
      <3>2. QED
        BY <1>1, <1>2, <1>4, <2>2, <2>3, <3>1 DEF Answered
    <2>4. CASE /\ bucket[Reached] # Absent
               /\ answer'.status = 200 /\ answer'.ver = bucket[Reached]
      BY <1>1, <1>2, <1>4, <2>2, <2>4 DEF Answered
    <2>5. QED
      BY <2>1, <2>3, <2>4
  <1>5. CASE call.kind = "delete" /\ ServeDelete
    <2>1. bucket' = [bucket EXCEPT ![Reached] = Absent] /\ Reached \in Keys /\ bucket \in States
      BY <1>1, <1>5, Named DEF ServeDelete, Inv, Typed
    <2>2. bucket'[Reached] = Absent
      BY <2>1 DEF States
    <2>3. Absent \in SeenThere'
      BY <1>2, <2>2
    <2>4. QED
      BY <1>1, <1>5, <2>3 DEF Answered
  <1>6. CASE call.kind = "copy" /\ ServeCopy
    <2>1. /\ request.source = call.from /\ request.url.key = Reached
          /\ Reached \in Keys /\ call.from \in Keys /\ bucket \in States
      BY <1>1, <1>6, Named DEF Inv, Typed
    <2>2. CASE answer' = Reply(404, ErrorBody) \/ answer' = Reply(200, ErrorBody)
      <3>1. parse_s3_error_xml(answer'.body)
        BY <2>2, ReplyFields, ErrorParsed
      <3>2. parse_s3_error_xml(answer.body)'
        BY <3>1 DEF parse_s3_error_xml
      <3>3. QED
        BY <1>1, <1>6, <3>2 DEF Answered
    <2>3. CASE /\ bucket[call.from] # Absent
               /\ bucket' = [bucket EXCEPT ![Reached] = bucket[call.from]]
      <3>1. bucket'[Reached] = bucket'[call.from] /\ bucket'[Reached] # Absent
        BY <2>1, <2>3 DEF States
      <3>2. (\E b \in past : b[Reached] = b[call.from] /\ b[Reached] # Absent)'
        BY <1>1, <1>2, <3>1
      <3>3. QED
        BY <1>1, <1>6, <3>2 DEF Answered
    <2>4. QED
      BY <1>6, <2>1, <2>2, <2>3 DEF ServeCopy
  <1>7. CASE \E status \in {403, 500} : answer' = Reply(status, ErrorBody)
    <2>1. answer'.status \in {403, 500}
      BY <1>7, ReplyFields
    <2>2. ~Success' /\ answer'.status # 404
      BY <1>2, <2>1
    <2>3. QED
      BY <2>2 DEF Answered
  <1>8. QED
    BY <1>3, <1>4, <1>5, <1>6, <1>7, ServeCases

AnswersInv == Inv /\ Answered /\ TrueThere

LEMMA AnswersStep == AnswersInv /\ [Next]_vars => AnswersInv'
  <1> SUFFICES ASSUME AnswersInv, [Next]_vars PROVE AnswersInv'
    OBVIOUS
  <1>1. Inv /\ Inv'
    BY InvStep DEF AnswersInv
  <1>2. Reached' = Reached /\ call' = call /\ SeenThere \subseteq SeenThere' /\ past \subseteq past'
    <2>1. call' = call /\ past \subseteq past'
      BY DEF Next, vars, CallStep, Begin, YearLoop, MonthLoop, Send, Lost, Hear, Serve, Edit,
             HearPage, HearCopy, HearObject, HearExists, Refused, Return, Collect, Goto
    <2>2. Reached' = Reached
      BY <2>1 DEF Reached, KeyKept, PathStyle
    <2>3. SeenThere' = {b[Reached] : b \in past'}
      BY <2>2 DEF SeenThere
    <2>4. QED
      BY <2>1, <2>2, <2>3 DEF SeenThere
  <1>3. CASE Begin \/ YearLoop \/ MonthLoop \/ Send \/ Lost
    <2>1. pc' # "wait" \/ answer' = NoAnswer
      BY <1>3 DEF Begin, YearLoop, MonthLoop, Send, Lost, Goto, Return
    <2>2. got'.outcome \in {"none", "error"}
      <3>1. CASE got' = got /\ pc # "done"
        BY <1>1, <3>1 DEF Inv, Placed
      <3>2. CASE Return("error")
        BY <1>1, <3>2, ResultOutcome DEF Return, Inv, Outcomes
      <3>3. QED
        BY <1>3, <3>1, <3>2 DEF Begin, YearLoop, MonthLoop, Send, Lost, Goto
    <2>3. QED
      BY <1>1, <2>1, <2>2 DEF AnswersInv, Answered, TrueThere
  <1>4. CASE Hear
    <2>1. /\ pc = "wait" /\ answer # NoAnswer /\ pc' # "wait" /\ got \in Results
          /\ answer.ver \in Versions \cup {Absent} /\ UNCHANGED <<past, answer>>
          /\ answer.next \in Names \cup {NoName} /\ OnPage \in Seq(Names)
      BY <1>1, <1>4 DEF Inv, AnswerTyped, Readable, OnPage, Hear, HearPage, HearCopy, HearObject,
         HearExists, Refused, Return, Collect, Goto
    <2>2. /\ call.kind \in {"stats", "exists", "get"} =>
               /\ Success => answer.ver \in SeenThere \ {Absent}
               /\ answer.status = 404 => Absent \in SeenThere
          /\ call.kind = "delete" /\ Success => Absent \in SeenThere
          /\ call.kind = "copy" /\ Success /\ ~parse_s3_error_xml(answer.body) =>
               \E b \in past : b[Reached] = b[call.from] /\ b[Reached] # Absent
      BY <2>1 DEF AnswersInv, Answered
    <2>3. Answered' /\ SeenThere' = SeenThere
      BY <1>2, <2>1 DEF Answered, SeenThere
    <2>4. ASSUME NEW o \in Outcomes, Return(o)
          PROVE  got'.outcome = o
      BY <2>1, <2>4, ResultOutcome DEF Return
    <2>5. CASE HearPage
      <3>1. call.kind = "list"
        BY <2>5 DEF HearPage
      <3>2. got'.outcome # "absent"
        BY <2>1, <2>4, <2>5, CollectFields DEF HearPage, Refused, Outcomes
      <3>3. QED
        BY <1>1, <1>2, <2>3, <3>1, <3>2 DEF TrueThere, AnswersInv
    <2>6. CASE HearCopy
      <3>1. call.kind = "copy"
        BY <2>6 DEF HearCopy
      <3>2. \/ got'.outcome \in {"error", "notfound"}
            \/ got'.outcome = "ok" /\ Success /\ ~parse_s3_error_xml(answer.body)
            \/ got'.unread = TRUE /\ got'.outcome \in {"ok", "error"}
        <4>1. CASE Refused
          BY <2>4, <4>1 DEF Refused, Outcomes
        <4>2. CASE Success /\ Return(IF parse_s3_error_xml(answer.body) THEN "error" ELSE "ok")
          BY <2>4, <4>2 DEF Outcomes
        <4>3. CASE got' = [got EXCEPT !.unread = TRUE,
                             !.outcome = IF parse_s3_error_xml(<<>>) THEN "error" ELSE "ok"]
          <5>1. (IF parse_s3_error_xml(<<>>) THEN "error" ELSE "ok") \in {"ok", "error"}
            OBVIOUS
          <5>2. ASSUME NEW o \in {"ok", "error"},
                       o = IF parse_s3_error_xml(<<>>) THEN "error" ELSE "ok"
                PROVE  got'.unread = TRUE /\ got'.outcome = o
            <6>1. got' = [got EXCEPT !.unread = TRUE, !.outcome = o]
              BY <4>3, <5>2
            <6>2. got'.unread = TRUE
              BY <2>1, <6>1, SMTT(10) DEF Results
            <6>3. got'.outcome = o
              BY <2>1, <6>1, SMTT(10) DEF Results
            <6>4. QED
              BY <6>2, <6>3
          <5>3. QED
            BY <5>1, <5>2
        <4>4. QED
          BY <2>6, <4>1, <4>2, <4>3 DEF HearCopy
      <3>3. QED
        BY <1>1, <1>2, <2>1, <2>2, <2>3, <3>1, <3>2 DEF TrueThere, AnswersInv
    <2>7. CASE HearObject
      <3>1. call.kind \in {"stats", "get", "delete"}
        BY <2>7 DEF HearObject
      <3>2. \/ got'.outcome = "error"
            \/ got'.outcome = "notfound" /\ answer.status = 404
            \/ got'.outcome = "ok" /\ Success /\ got'.found = answer.ver
        <4>1. CASE Refused
          BY <2>4, <4>1 DEF Refused, Outcomes
        <4>2. CASE Return("error")
          BY <2>4, <4>2 DEF Outcomes
        <4>3. CASE Success /\ got' = [got EXCEPT !.found = answer.ver, !.outcome = "ok"]
          <5>1. got'.found = answer.ver
            BY <2>1, <4>3, SMTT(10) DEF Results
          <5>2. got'.outcome = "ok"
            BY <2>1, <4>3, SMTT(10) DEF Results
          <5>3. QED
            BY <4>3, <5>1, <5>2
        <4>4. QED
          BY <2>7, <4>1, <4>2, <4>3 DEF HearObject
      <3>3. QED
        BY <1>1, <1>2, <2>1, <2>2, <2>3, <3>1, <3>2 DEF TrueThere, AnswersInv
    <2>8. CASE HearExists
      <3>1. call.kind = "exists"
        BY <2>8 DEF HearExists
      <3>2. \/ got'.outcome \in {"error", "notfound"}
            \/ got'.outcome = "absent" /\ answer.status = 404
            \/ got'.outcome = "ok" /\ Success
        BY <2>4, <2>8 DEF HearExists, Refused, Outcomes
      <3>3. QED
        BY <1>1, <1>2, <2>1, <2>2, <2>3, <3>1, <3>2 DEF TrueThere, AnswersInv
    <2>9. QED
      BY <1>4, <2>5, <2>6, <2>7, <2>8 DEF Hear
  <1>5. CASE Serve
    <2>1. Answered'
      BY <1>1, <1>5, AnsweredServe
    <2>2. got'.outcome = "none"
      BY <1>1, <1>5, ServeCases DEF Inv, Placed
    <2>3. QED
      BY <1>1, <1>2, <2>1, <2>2 DEF AnswersInv, TrueThere
  <1>6. CASE Edit
    <2>1. UNCHANGED <<pc, answer, got>> /\ got.outcome = "none"
      BY <1>1, <1>6 DEF Edit, Inv, Placed
    <2>2. Answered'
      BY <1>2, <2>1 DEF AnswersInv, Answered, Success, parse_s3_error_xml
    <2>3. QED
      BY <1>1, <1>2, <2>1, <2>2 DEF AnswersInv, TrueThere
  <1>7. CASE UNCHANGED vars
    <2>1. UNCHANGED <<pc, answer, got, call, past>>
      BY <1>7 DEF vars
    <2>2. SeenThere' = SeenThere
      BY <1>2, <2>1 DEF SeenThere
    <2>3. Answered'
      BY <1>2, <2>1, <2>2 DEF AnswersInv, Answered, Success, parse_s3_error_xml
    <2>4. TrueThere'
      BY <1>2, <2>1, <2>2 DEF AnswersInv, TrueThere
    <2>5. QED
      BY <1>1, <2>3, <2>4 DEF AnswersInv
  <1>8. QED
    BY <1>3, <1>4, <1>5, <1>6, <1>7 DEF Next, CallStep

(* Ok, Ok(false) and a 404 of every function were true of the object the   *)
(* caller named at some time between its call and its return; nothing is   *)
(* said of a key with a slash in a virtual-hosted bucket.                  *)
THEOREM AnswersAreTrue == Spec => []AnswersTrue
  <1>1. Init => AnswersInv
    BY InitInv DEF AnswersInv, Init, Answered, TrueThere
  <1>2. AnswersInv /\ [Next]_vars => AnswersInv'
    BY AnswersStep
  <1>3. AnswersInv => AnswersTrue
    BY DEF AnswersInv, TrueThere, SeenThere, Reached, AnswersTrue, Seen
  <1>4. QED
    BY <1>1, <1>2, <1>3, PTL DEF Spec
----------------------------------------------------------------------------
(* Listings.                                                               *)

(* What a complete listing would have returned at each time of the call.   *)
Listings == {ListingOf(b) : b \in past}

(* Whether s holds, in ascending order, names of some of these listings,   *)
(* and all those of every one of them, that come after `from` and, unless  *)
(* it is NoName, not after `to`.                                           *)
Covers(s, from, to, listings) ==
  /\ \A i, j \in DOMAIN s : i < j => s[i] < s[j]
  /\ \A i \in DOMAIN s :
       /\ from < s[i] /\ (to = NoName \/ s[i] <= to)
       /\ \E l \in listings : s[i] \in l
  /\ \A e \in Names :
       /\ from < e /\ (to = NoName \/ e <= to)
       /\ \A l \in listings : e \in l
       => \E i \in DOMAIN s : s[i] = e

(* The page that has arrived covers the names after the token it was asked *)
(* for with; the result covers those up to the token, and all at the end.  *)
Paged ==
  pc = "wait" /\ answer # NoAnswer /\ call.kind = "list" /\ Success =>
    /\ Covers(OnPage, got.token, answer.next, Listings)
    /\ answer.next # NoName => got.token < answer.next

Collected ==
  call.kind = "list" =>
    /\ pc # "done" =>
         IF got.token = NoName THEN got.result = <<>>
         ELSE Covers(got.result, NoName, got.token, Listings)
    /\ got.outcome = "ok" => Covers(got.result, NoName, NoName, Listings)

ListInv == Inv /\ Paged /\ Collected

LEMMA NamesAbove == \A e \in Names : e \in Nat /\ NoName < e
  BY NamesFinite DEF NoName

(* A list that covers a range still does when the bucket changes.          *)
LEMMA CoversMore ==
  ASSUME NEW s, NEW from, NEW to, NEW L, NEW M, L \subseteq M, Covers(s, from, to, L)
  PROVE  Covers(s, from, to, M)
  BY DEF Covers

LEMMA ListingsKept ==
  ASSUME call' = call
  PROVE  Listings' = {ListingOf(b) : b \in past'}
  <1>1. \A b : ListingOf(b)' = ListingOf(b)
    BY DEF ListingOf, Listed, fixed_delimiter
  <1>2. QED
    BY <1>1 DEF Listings

(* A page behind what has been collected extends it.                       *)
LEMMA CoversAppend ==
  ASSUME NEW s \in Seq(Names), NEW t \in Seq(Names),
         NEW mid \in Names, NEW to \in Names \cup {NoName},
         NEW L,
         Covers(s, NoName, mid, L), Covers(t, mid, to, L), to # NoName => mid < to
  PROVE  Covers(s \o t, NoName, to, L)
  <1>1. mid \in Nat /\ mid # NoName /\ mid > NoName /\ \A e \in Names : e \in Nat /\ NoName < e
    BY NamesAbove DEF NoName
  <1>2. /\ s \o t \in Seq(Names) /\ Len(s) \in Nat /\ Len(t) \in Nat
        /\ DOMAIN (s \o t) = 1 .. Len(s) + Len(t)
        /\ DOMAIN s = 1 .. Len(s) /\ DOMAIN t = 1 .. Len(t)
        /\ \A i \in 1 .. Len(s) : (s \o t)[i] = s[i] /\ s[i] \in Names
        /\ \A i \in 1 .. Len(t) : (s \o t)[Len(s) + i] = t[i] /\ t[i] \in Names
    OBVIOUS
  <1> DEFINE u == s \o t
  <1> HIDE DEF u
  <1>3. \A i \in DOMAIN u : \/ i \in DOMAIN s /\ u[i] = s[i]
                            \/ i - Len(s) \in DOMAIN t /\ u[i] = t[i - Len(s)]
                               /\ i > Len(s)
    <2> SUFFICES ASSUME NEW i \in DOMAIN u, i \notin DOMAIN s
                 PROVE  i - Len(s) \in DOMAIN t /\ u[i] = t[i - Len(s)] /\ i > Len(s)
      BY <1>2 DEF u
    <2>1. i \in Nat /\ i > Len(s) /\ i - Len(s) \in 1 .. Len(t)
      BY <1>2 DEF u
    <2>2. Len(s) + (i - Len(s)) = i
      BY <1>2, <2>1
    <2>3. QED
      BY <1>2, <2>1, <2>2 DEF u
  <1>4. \A i \in DOMAIN s : i \in Nat /\ i <= Len(s) /\ s[i] \in Nat /\ s[i] <= mid
    <2>1. \A i \in DOMAIN s : mid = NoName \/ s[i] <= mid
      BY DEF Covers
    <2>2. \A i \in DOMAIN s : i \in Nat /\ i <= Len(s) /\ s[i] \in Nat
      <3> SUFFICES ASSUME NEW i \in DOMAIN s
                   PROVE  i \in Nat /\ i <= Len(s) /\ s[i] \in Nat
        OBVIOUS
      <3>1. i \in 1 .. Len(s) /\ Len(s) \in Nat
        BY <1>2
      <3>2. s[i] \in Names
        BY <1>2, <3>1
      <3>3. s[i] \in Nat
        BY <3>2, NamesAbove
      <3>4. QED
        BY <3>1, <3>3
    <2>3. QED
      BY <1>1, <2>1, <2>2
  <1>5. \A i \in DOMAIN t : t[i] \in Nat /\ mid < t[i]
    BY <1>1, <1>2 DEF Covers
  <1>6. ASSUME NEW i \in DOMAIN u, NEW j \in DOMAIN u, i < j
        PROVE  u[i] < u[j]
    <2>1. i \in Nat /\ j \in Nat
      BY <1>2 DEF u
    <2>2. CASE i \in DOMAIN s /\ j \in DOMAIN s /\ u[i] = s[i] /\ u[j] = s[j]
      BY <1>6, <2>2 DEF Covers
    <2>3. CASE i \in DOMAIN s /\ u[i] = s[i] /\ j - Len(s) \in DOMAIN t /\ u[j] = t[j - Len(s)]
      BY <1>1, <1>4, <1>5, <2>3
    <2>4. CASE /\ i - Len(s) \in DOMAIN t /\ u[i] = t[i - Len(s)]
               /\ j - Len(s) \in DOMAIN t /\ u[j] = t[j - Len(s)]
      <3>1. i - Len(s) < j - Len(s)
        BY <1>2, <1>6, <2>1
      <3>2. QED
        BY <2>4, <3>1 DEF Covers
    <2>5. CASE i - Len(s) \in DOMAIN t /\ i > Len(s) /\ j \in DOMAIN s
      BY <1>2, <1>4, <1>6, <2>1, <2>5
    <2>6. QED
      BY <1>3, <2>2, <2>3, <2>4, <2>5
  <1>7. ASSUME NEW i \in DOMAIN u
        PROVE  /\ NoName < u[i] /\ (to = NoName \/ u[i] <= to)
               /\ \E l \in L : u[i] \in l
    <2>1. CASE i \in DOMAIN s /\ u[i] = s[i]
      <3>1. /\ NoName < s[i] /\ s[i] <= mid /\ s[i] \in Nat
            /\ \E l \in L : s[i] \in l
        BY <1>1, <1>4, <2>1 DEF Covers
      <3>2. to = NoName \/ s[i] <= to
        <4>1. CASE to = NoName
          BY <4>1
        <4>2. CASE to # NoName
          <5>1. to \in Nat /\ mid < to
            BY <1>1, <4>2
          <5>2. QED
            BY <1>1, <3>1, <5>1
        <4>3. QED
          BY <4>1, <4>2
      <3>3. QED
        BY <2>1, <3>1, <3>2
    <2>2. ASSUME NEW k \in DOMAIN t, u[i] = t[k]
          PROVE  <1>7!2
      <3>1. /\ mid < t[k] /\ (to = NoName \/ t[k] <= to) /\ t[k] \in Nat
            /\ \E l \in L : t[k] \in l
        BY <1>5 DEF Covers
      <3>2. NoName < t[k]
        BY <3>1 DEF NoName
      <3>3. QED
        BY <2>2, <3>1, <3>2
    <2>3. QED
      BY <1>3, <2>1, <2>2
  <1>8. ASSUME NEW e \in Names, to = NoName \/ e <= to, \A l \in L : e \in l
        PROVE  \E i \in DOMAIN u : u[i] = e
    <2>1. e \in Nat /\ NoName < e
      BY <1>1
    <2>2. CASE e <= mid
      <3>1. PICK i \in DOMAIN s : s[i] = e
        BY <1>1, <1>8, <2>1, <2>2 DEF Covers
      <3>2. i \in DOMAIN u /\ u[i] = s[i]
        BY <1>2 DEF u
      <3>3. QED
        BY <3>1, <3>2
    <2>3. CASE mid < e
      <3>1. PICK i \in DOMAIN t : t[i] = e
        BY <1>8, <2>3 DEF Covers
      <3>2. Len(s) + i \in DOMAIN u /\ u[Len(s) + i] = t[i]
        BY <1>2 DEF u
      <3>3. QED
        BY <3>1, <3>2
    <2>4. QED
      BY <1>1, <2>1, <2>2, <2>3
  <1>9. Covers(u, NoName, to, L)
    BY <1>6, <1>7, <1>8 DEF Covers
  <1>10. QED
    BY <1>9 DEF u
(* What the store serves covers what the bucket holds after the token.     *)
LEMMA PageCovers ==
  ASSUME Inv, Serve, call.kind = "list", ServeList
  PROVE  /\ Covers(OnPage', got.token, answer'.next, Listings')
         /\ answer'.next # NoName => got.token < answer'.next
  <1> DEFINE left == {e \in Listed(bucket, request) : e > request.token}
             s == OnPage'
             next == answer'.next
  <1>1. /\ pc = "wait" /\ past' = past \cup {bucket'} /\ bucket' = bucket
        /\ UNCHANGED <<call, got>>
    BY ServeCases DEF ServeList
  <1>2. request = ListRequest /\ request.token = got.token
    <2>1. request = ListRequest
      BY <1>1 DEF Inv, Asked
    <2>2. QED
      BY <2>1 DEF ListRequest
  <1>3. s = Decoded(IF call.dirs THEN answer'.prefixes ELSE answer'.contents)
    BY <1>1, Zenon DEF OnPage, Decoded, decode_s3_path
  <1> HIDE DEF s, next, left
  <1>4. PICK page \in SUBSET left :
           LET named == IF call.dirs THEN page \ Keys ELSE page \cap Keys
           IN  /\ \A e \in page, f \in left \ page : e < f
               /\ IF page = left THEN next = NoName
                  ELSE next \in page /\ \A e \in page : e <= next
               /\ next \in Names \cup {NoName}
               /\ s \in Ascending(named)
               /\ named \subseteq Names
    BY <1>1, <1>3, PageFields DEF left, next
  <1> DEFINE named == IF call.dirs THEN page \ Keys ELSE page \cap Keys
  <1>5. /\ \A i \in DOMAIN s : s[i] \in named
        /\ \A e \in named : \E i \in DOMAIN s : s[i] = e
        /\ \A i, j \in DOMAIN s : i < j => s[i] < s[j]
    BY <1>4, AscendingSeq
  <1>6. ListingOf(bucket) = IF call.dirs THEN Listed(bucket, request) \ Keys
                            ELSE Listed(bucket, request) \cap Keys
    <2>1. request.prefix = TRUE /\ request.delimiter = fixed_delimiter
      BY <1>2 DEF ListRequest
    <2>2. Listed(bucket, [prefix |-> TRUE, delimiter |-> fixed_delimiter])
            = Listed(bucket, request)
      BY <2>1 DEF Listed
    <2>3. QED
      BY <2>2 DEF ListingOf
  <1>7. ListingOf(bucket) \in Listings'
    BY <1>1, ListingsKept
  <1>9. left \subseteq Names /\ left \subseteq Nat
    BY NamesAbove DEF left, Listed, Names
  <1>10. \A e \in left : e \in Listed(bucket, request) /\ got.token < e
    BY <1>2, <1>9 DEF left
  <1>11. \A i \in DOMAIN s :
           /\ got.token < s[i] /\ (next = NoName \/ s[i] <= next)
           /\ s[i] \in ListingOf(bucket)
    BY <1>4, <1>5, <1>6, <1>10
  <1>12. ASSUME NEW e \in Names, got.token < e, next = NoName \/ e <= next,
                e \in ListingOf(bucket)
         PROVE  \E i \in DOMAIN s : s[i] = e
    <2>1. e \in left
      BY <1>2, <1>6, <1>12 DEF left
    <2>2. e \in page
      <3>1. CASE page = left
        BY <2>1, <3>1
      <3>2. CASE page # left
        <4>1. next \in page /\ next # NoName /\ e <= next /\ next \in Nat /\ e \in Nat
          BY <1>4, <1>9, <1>12, <2>1, <3>2 DEF NoName
        <4>2. e \notin page => next < e
          BY <1>4, <2>1, <4>1
        <4>3. QED
          BY <4>1, <4>2
      <3>3. QED
        BY <3>1, <3>2
    <2>3. e \in named
      BY <1>6, <1>12, <2>2
    <2>4. QED
      BY <1>5, <2>3
  <1>13. next # NoName => got.token < next
    BY <1>4, <1>10
  <1>14. Covers(s, got.token, next, Listings')
    BY <1>5, <1>7, <1>11, <1>12 DEF Covers
  <1>15. QED
    BY <1>13, <1>14 DEF s, next

LEMMA CollectedHear ==
  ASSUME ListInv, Hear, call.kind = "list"
  PROVE  Collected'
  <1>1. /\ pc = "wait" /\ answer # NoAnswer /\ UNCHANGED <<call, past>> /\ HearPage
        /\ got \in Results /\ got.outcome = "none"
        /\ answer.next \in Names \cup {NoName} /\ OnPage \in Seq(Names)
    BY DEF ListInv, Inv, Placed, AnswerTyped, Readable, OnPage, Hear, HearPage, HearCopy,
       HearObject, HearExists, Refused, Return, Collect, Goto
  <1>2. ASSUME NEW o \in Outcomes \ {"none", "ok"}, Return(o)
        PROVE  Collected'
    <2>1. pc' = "done" /\ got'.outcome = o
      BY <1>1, <1>2, ResultOutcome DEF Return
    <2>2. QED
      BY <1>2, <2>1 DEF Collected
  <1>3. CASE Refused \/ Return("error")
    BY <1>2, <1>3 DEF Refused, Outcomes
  <1>4. CASE Success /\ Collect(OnPage, answer.next = NoName)
    <2>1. /\ Covers(OnPage, got.token, answer.next, Listings)
          /\ answer.next # NoName => got.token < answer.next
          /\ got.token = NoName => got.result = <<>>
          /\ got.token # NoName => Covers(got.result, NoName, got.token, Listings)
          /\ got.token \in Names \cup {NoName} /\ got.result \in Seq(Names)
      BY <1>1, <1>4 DEF ListInv, Paged, Collected, Results
    <2>2. Covers(got.result \o OnPage, NoName, answer.next, Listings)
      <3>1. CASE got.token = NoName
        <4>1. got.result \o OnPage = OnPage
          BY <1>1, <2>1, <3>1
        <4>2. QED
          BY <2>1, <3>1, <4>1
      <3>2. CASE got.token # NoName
        BY <1>1, <2>1, <3>2, CoversAppend
      <3>3. QED
        BY <3>1, <3>2
    <2>3. /\ got'.result = got.result \o OnPage /\ got'.token = answer.next
          /\ \/ answer.next = NoName /\ got'.outcome = "ok" /\ pc' = "done"
             \/ answer.next # NoName /\ got'.outcome = "none" /\ pc' = "send"
      BY <1>1, <1>4, CollectFields
    <2>4. Listings' = Listings
      BY <1>1, ListingsKept DEF Listings
    <2>5. Covers(got'.result, NoName, got'.token, Listings')
      BY <2>2, <2>3, <2>4
    <2>7. CASE answer.next = NoName
      BY <2>3, <2>5, <2>7 DEF Collected
    <2>8. CASE answer.next # NoName
      BY <2>3, <2>5, <2>8 DEF Collected
    <2>9. QED
      BY <2>7, <2>8
  <1>5. QED
    BY <1>1, <1>3, <1>4 DEF HearPage
LEMMA ListStep == ListInv /\ [Next]_vars => ListInv'
  <1> SUFFICES ASSUME ListInv, [Next]_vars PROVE ListInv'
    OBVIOUS
  <1>1. Inv /\ Inv'
    BY InvStep DEF ListInv
  <1>2. call' = call /\ past \subseteq past'
    BY DEF Next, vars, CallStep, Begin, YearLoop, MonthLoop, Send, Lost, Hear, Serve, Edit,
           HearPage, HearCopy, HearObject, HearExists, Refused, Return, Collect, Goto
  <1>3. Listings' = {ListingOf(b) : b \in past'} /\ Listings \subseteq Listings'
    BY <1>2, ListingsKept DEF Listings
  <1>4. ASSUME UNCHANGED got, pc = "done" <=> pc' = "done"
        PROVE  Collected'
    <2>1. CASE call.kind = "list" /\ pc # "done"
      <3>1. got.outcome = "none"
        BY <1>1, <2>1 DEF Inv, Placed
      <3>2. CASE got.token = NoName
        BY <1>2, <1>4, <2>1, <3>1, <3>2 DEF ListInv, Collected
      <3>3. CASE got.token # NoName
        <4>1. Covers(got.result, NoName, got.token, Listings)
          BY <2>1, <3>3 DEF ListInv, Collected
        <4>2. Covers(got.result, NoName, got.token, Listings')
          BY <1>3, <4>1, CoversMore
        <4>3. QED
          BY <1>2, <1>4, <2>1, <3>1, <3>3, <4>2 DEF Collected
      <3>4. QED
        BY <3>2, <3>3
    <2>2. CASE call.kind = "list" /\ pc = "done" /\ got.outcome = "ok"
      <3>1. Covers(got.result, NoName, NoName, Listings)
        BY <2>2 DEF ListInv, Collected
      <3>2. Covers(got.result, NoName, NoName, Listings')
        BY <1>3, <3>1, CoversMore
      <3>3. QED
        BY <1>2, <1>4, <2>2, <3>2 DEF Collected
    <2>3. QED
      BY <1>2, <1>4, <2>1, <2>2 DEF Collected
  <1>5. CASE Begin \/ YearLoop \/ MonthLoop \/ Send \/ Lost
    <2>1. pc' # "wait" \/ answer' = NoAnswer
      BY <1>5 DEF Begin, YearLoop, MonthLoop, Send, Lost, Goto, Return
    <2>2. Collected'
      <3>1. CASE got' = got /\ pc # "done" /\ pc' # "done"
        BY <1>4, <3>1
      <3>2. CASE Return("error")
        <4>1. got'.outcome = "error" /\ pc' = "done"
          BY <1>1, <3>2, ResultOutcome DEF Return, Inv, Outcomes
        <4>2. QED
          BY <4>1 DEF Collected
      <3>3. QED
        BY <1>5, <3>1, <3>2 DEF Begin, YearLoop, MonthLoop, Send, Lost, Goto
    <2>3. QED
      BY <1>1, <2>1, <2>2 DEF ListInv, Paged
  <1>6. CASE Hear
    <2>1. pc' # "wait"
      BY <1>6 DEF Hear, HearPage, HearCopy, HearObject, HearExists, Refused, Return, Collect,
                  Goto
    <2>2. Collected'
      BY <1>2, <1>6, CollectedHear DEF Collected
    <2>3. QED
      BY <1>1, <2>1, <2>2 DEF ListInv, Paged
  <1>7. CASE Serve
    <2>1. UNCHANGED <<got, pc>>
      BY <1>1, <1>7, ServeCases
    <2>2. Paged'
      <3>1. CASE call.kind = "list" /\ ServeList
        BY <1>1, <1>7, <2>1, <3>1, PageCovers DEF Paged
      <3>2. CASE call.kind = "list" /\ ~ServeList
        <4>1. PICK status \in {403, 500} : answer' = Reply(status, ErrorBody)
          BY <1>1, <1>7, <3>2, ServeCases
        <4>2. answer'.status \in {403, 500}
          BY <4>1, ReplyFields
        <4>3. ~Success'
          BY <4>2 DEF Success
        <4>4. QED
          BY <4>3 DEF Paged
      <3>3. CASE call.kind # "list"
        BY <1>2, <3>3 DEF Paged
      <3>4. QED
        BY <3>1, <3>2, <3>3
    <2>3. QED
      BY <1>1, <1>4, <2>1, <2>2 DEF ListInv
  <1>8. CASE Edit \/ UNCHANGED vars
    <2>1. UNCHANGED <<got, pc, answer, call>>
      BY <1>8 DEF Edit, vars
    <2>2. OnPage' = OnPage /\ (Success' <=> Success)
      BY <2>1 DEF OnPage, Decoded, decode_s3_path, Success
    <2>3. Paged'
      <3> SUFFICES ASSUME pc = "wait", answer # NoAnswer, call.kind = "list", Success
                   PROVE  Paged'
        BY <2>1, <2>2 DEF Paged
      <3>1. /\ Covers(OnPage, got.token, answer.next, Listings)
            /\ answer.next # NoName => got.token < answer.next
        BY DEF ListInv, Paged
      <3>2. Covers(OnPage, got.token, answer.next, Listings')
        BY <1>3, <3>1, CoversMore
      <3>3. QED
        BY <2>1, <2>2, <3>1, <3>2 DEF Paged
    <2>4. QED
      BY <1>1, <1>4, <2>1, <2>3 DEF ListInv
  <1>9. QED
    BY <1>5, <1>6, <1>7, <1>8 DEF Next, CallStep

LEMMA ListInvariance == Spec => []ListInv
  <1>1. Init => ListInv
    BY InitInv DEF ListInv, Init, Paged, Collected
  <1>2. ListInv /\ [Next]_vars => ListInv'
    BY ListStep
  <1>3. QED
    BY <1>1, <1>2, PTL DEF Spec

(* s3_list returns, in ascending order, only names the bucket had under    *)
(* that prefix at some time in the call.                                   *)
THEOREM ListingsAreSound == Spec => []ListSound
  <1>1. ListInv => ListSound
    <2> SUFFICES ASSUME ListInv, ListOk PROVE ListSound
      BY DEF ListSound
    <2>1. Covers(got.result, NoName, NoName, Listings)
      BY DEF ListInv, Collected, ListOk
    <2>2. \A i \in DOMAIN got.result : \E b \in past : got.result[i] \in ListingOf(b)
      BY <2>1 DEF Covers, Listings
    <2>3. \A i, j \in DOMAIN got.result : i < j => got.result[i] < got.result[j]
      BY <2>1 DEF Covers
    <2>4. QED
      BY <2>2, <2>3 DEF ListSound, Listing
  <1>2. QED
    BY <1>1, ListInvariance, PTL

(* And all of those the bucket held throughout the call.                   *)
THEOREM ListingsAreComplete == Spec => []ListComplete
  <1>1. ListInv => ListComplete
    <2> SUFFICES ASSUME ListInv, ListOk,
                        NEW e \in Names, \A b \in past : e \in ListingOf(b)
                 PROVE  e \in Listing
      BY DEF ListComplete
    <2>1. Covers(got.result, NoName, NoName, Listings) /\ NoName < e
      BY NamesAbove DEF ListInv, Collected, ListOk
    <2>2. \A l \in Listings : e \in l
      BY DEF Listings
    <2>3. \E i \in DOMAIN got.result : got.result[i] = e
      BY <2>1, <2>2 DEF Covers
    <2>4. QED
      BY <2>3 DEF Listing
  <1>2. QED
    BY <1>1, ListInvariance, PTL
----------------------------------------------------------------------------
(* No call goes on for ever.                                               *)

(* The clock shows no day after the epoch's day `latest`.                  *)
IsLatest(latest) == latest \in Nat /\ \A now \in Clocks : now[1] <= latest

(* The names a token leaves for later pages.                               *)
Beyond(token) == Cardinality({e \in Names : token < e})

(* What the call may still do: two steps a page, the months of the year,   *)
(* and a step at most for each day that is left to count off.              *)
Rank(latest) ==
  CASE pc = "begin" -> 2 * Beyond(got.token) + 18 + latest
    [] pc = "year" -> 2 * Beyond(got.token) + 17 + date.days
    [] pc = "month" -> 2 * Beyond(got.token) + 16 - date.month
    [] pc = "send" -> 2 * Beyond(got.token) + 2
    [] pc = "wait" -> 2 * Beyond(got.token) + 1
    [] pc = "done" -> 0

(* A page's token leaves fewer names than the one it was asked for with.   *)
LEMMA BeyondFacts ==
  /\ \A token \in Names \cup {NoName} : Beyond(token) \in Nat
  /\ \A token \in Names \cup {NoName}, next \in Names :
       token < next => Beyond(next) < Beyond(token)
  <1>1. ASSUME NEW token \in Names \cup {NoName}
        PROVE  IsFiniteSet({e \in Names : token < e}) /\ Beyond(token) \in Nat
    <2>1. {e \in Names : token < e} \in SUBSET Names
      OBVIOUS
    <2>2. IsFiniteSet({e \in Names : token < e})
      BY <2>1, NamesFinite, FS_Subset
    <2>3. QED
      BY <2>2, FS_CardinalityType DEF Beyond
  <1>2. ASSUME NEW token \in Names \cup {NoName}, NEW next \in Names, token < next
        PROVE  Beyond(next) < Beyond(token)
    <2> DEFINE S == {e \in Names : token < e}
               T == {e \in Names : next < e}
    <2>1. token \in Int /\ next \in Int /\ \A e \in Names : e \in Int
      BY NamesAbove DEF NoName
    <2>2. T \in SUBSET S /\ next \in S /\ next \notin T
      <3>1. ASSUME NEW e \in T PROVE e \in S
        BY <1>2, <2>1
      <3>2. next \in S /\ next \notin T
        BY <1>2, <2>1
      <3>3. QED
        BY <3>1, <3>2
    <2>3. IsFiniteSet(S) /\ Cardinality(S) \in Nat /\ Cardinality(T) \in Nat
      BY <1>1 DEF Beyond
    <2> HIDE DEF S, T
    <2>4. Cardinality(T) <= Cardinality(S) /\ (Cardinality(S) = Cardinality(T) => S = T)
      BY <2>2, <2>3, FS_Subset
    <2>5. Cardinality(T) < Cardinality(S)
      BY <2>2, <2>3, <2>4
    <2>6. QED
      BY <2>5 DEF S, T, Beyond
  <1>3. QED
    BY <1>1, <1>2

(* The rank is a natural number.                                           *)
LEMMA RankTyped ==
  ASSUME NEW latest \in Nat, Inv
  PROVE  Rank(latest) \in Nat
  <1> DEFINE n == Beyond(got.token)
  <1>1. /\ got.token \in Names \cup {NoName} /\ date.days \in Nat
        /\ date.month \in 1 .. 13 /\ pc \in Places
    BY DEF Inv, Results, Typed, Dates
  <1>2. n \in Nat
    BY <1>1, BeyondFacts
  <1>3. Rank(latest) \in {2 * n + 18 + latest, 2 * n + 17 + date.days, 2 * n + 16 - date.month,
                          2 * n + 2, 2 * n + 1, 0}
    BY <1>1 DEF Rank, Places
  <1> HIDE DEF n
  <1>4. QED
    BY <1>1, <1>2, <1>3

(* Every step of the call lowers it.                                       *)
LEMMA StepRunsOut ==
  ASSUME NEW latest, IsLatest(latest), ListInv, CallStep
  PROVE  Rank(latest)' < Rank(latest)
  <1> DEFINE n == Beyond(got.token)
  <1>1. /\ got.token \in Names \cup {NoName} /\ date \in Dates /\ date.days \in Nat
        /\ date.month \in 1 .. 13 /\ date.year \in Nat /\ latest \in Nat /\ Inv
        /\ pc # "done" => Rank(latest) > 0 /\ Rank(latest) \in Nat
    <2>1. /\ got.token \in Names \cup {NoName} /\ date \in Dates /\ date.days \in Nat
          /\ date.month \in 1 .. 13 /\ date.year \in Nat /\ latest \in Nat /\ Inv
          /\ pc \in Places
      BY DEF IsLatest, ListInv, Inv, Results, Typed, Dates
    <2>2. n \in Nat
      BY <2>1, BeyondFacts
    <2>3. pc # "done" =>
            Rank(latest) \in {2 * n + 18 + latest, 2 * n + 17 + date.days,
                              2 * n + 16 - date.month, 2 * n + 2, 2 * n + 1}
      BY <2>1 DEF Rank, Places
    <2> HIDE DEF n
    <2>4. QED
      BY <2>1, <2>2, <2>3
  <1>2. n \in Nat
    BY <1>1, BeyondFacts
  <1>3. ASSUME pc' = "done", pc # "done"
        PROVE  Rank(latest)' < Rank(latest)
    <2>1. Rank(latest)' = 0
      BY <1>3 DEF Rank
    <2>2. QED
      BY <1>1, <1>3, <2>1
  <1>4. ASSUME NEW result, Return(result), pc # "done"
        PROVE  Rank(latest)' < Rank(latest)
    BY <1>3, <1>4 DEF Return
  <1>5. CASE Begin
    <2>1. pc = "begin" /\ Rank(latest) = 2 * n + 18 + latest
      BY <1>5 DEF Begin, Rank
    <2>2. CASE Goto("send")
      <3>1. Rank(latest)' = 2 * n + 2
        BY <2>2 DEF Goto, Rank
      <3> HIDE DEF n
      <3>2. QED
        BY <1>1, <1>2, <2>1, <3>1
    <2>3. ASSUME Goto("year"),
                 NEW now \in Clocks, date' = [date EXCEPT !.clock = now, !.days = now[1]]
          PROVE  Rank(latest)' < Rank(latest)
      <3>1. date'.days = now[1]
        BY <1>1, <2>3 DEF Dates
      <3>2. now[1] \in Nat /\ now[1] <= latest
        BY InstantDay, BoundsAssumption DEF IsLatest
      <3>3. Rank(latest)' = 2 * n + 17 + now[1]
        BY <2>3, <3>1 DEF Goto, Rank
      <3> HIDE DEF n
      <3>4. QED
        BY <1>1, <1>2, <2>1, <3>2, <3>3
    <2>4. CASE Return("error")
      BY <1>4, <2>1, <2>4
    <2>5. QED
      BY <1>5, <2>2, <2>3, <2>4 DEF Begin
  <1>6. CASE YearLoop
    <2>1. pc = "year" /\ Rank(latest) = 2 * n + 17 + date.days /\ got' = got
      BY <1>6 DEF YearLoop, Rank, Goto
    <2>2. CASE pc' = "month" /\ date' = date
      <3>1. Rank(latest)' = 2 * n + 16 - date.month
        BY <2>1, <2>2 DEF Rank
      <3> HIDE DEF n
      <3>2. QED
        BY <1>1, <1>2, <2>1, <3>1
    <2>3. CASE /\ date.days >= days_in_year(date.year) /\ pc' = "year"
               /\ date' = [date EXCEPT !.days = @ - days_in_year(date.year), !.year = @ + 1]
      <3>1. date'.days = date.days - days_in_year(date.year)
        BY <1>1, <2>3 DEF Dates
      <3>2. days_in_year(date.year) \in {365, 366}
        BY DEF days_in_year
      <3>3. Rank(latest)' = 2 * n + 17 + date'.days
        BY <2>1, <2>3 DEF Rank
      <3> HIDE DEF n
      <3>4. QED
        BY <1>1, <1>2, <2>1, <3>1, <3>2, <3>3
    <2>4. QED
      BY <1>6, <2>2, <2>3 DEF YearLoop, Goto
  <1>7. CASE MonthLoop
    <2>1. pc = "month" /\ Rank(latest) = 2 * n + 16 - date.month /\ got' = got
      BY <1>7 DEF MonthLoop, Rank, Goto
    <2>2. CASE pc' = "send"
      <3>1. Rank(latest)' = 2 * n + 2
        BY <2>1, <2>2 DEF Rank
      <3> HIDE DEF n
      <3>2. QED
        BY <1>1, <1>2, <2>1, <3>1
    <2>3. ASSUME NEW left, pc' = "month",
                 date' = [date EXCEPT !.days = left, !.month = @ + 1]
          PROVE  Rank(latest)' < Rank(latest)
      <3>1. date'.month = date.month + 1
        BY <1>1, <2>3 DEF Dates
      <3>2. Rank(latest)' = 2 * n + 16 - date'.month
        BY <2>1, <2>3 DEF Rank
      <3> HIDE DEF n
      <3>3. QED
        BY <1>1, <1>2, <2>1, <3>1, <3>2
    <2>4. QED
      BY <1>7, <2>2, <2>3 DEF MonthLoop, Goto
  <1>8. CASE Send
    <2>1. pc = "send" /\ pc' = "wait" /\ got' = got
      BY <1>8 DEF Send, Goto
    <2>2. Rank(latest) = 2 * n + 2 /\ Rank(latest)' = 2 * n + 1
      BY <2>1 DEF Rank
    <2> HIDE DEF n
    <2>3. QED
      BY <1>2, <2>2
  <1>9. CASE Lost
    BY <1>4, <1>9 DEF Lost
  <1>10. CASE Hear
    <2>1. pc = "wait" /\ Rank(latest) = 2 * n + 1
      BY <1>10 DEF Hear, Rank
    <2>2. CASE pc' = "done"
      BY <1>3, <2>1, <2>2
    <2>3. CASE call.kind = "list" /\ Success /\ Collect(OnPage, answer.next = NoName)
      <3>1. /\ answer # NoAnswer /\ got \in Results
            /\ answer.next \in Names \cup {NoName} /\ OnPage \in Seq(Names)
        BY <1>1, <1>10, <2>1, <2>3 DEF Hear, Inv, AnswerTyped, Readable, OnPage
      <3>2. got'.token = answer.next /\ (pc' = "done" \/ (answer.next # NoName /\ pc' = "send"))
        BY <2>3, <3>1, CollectFields
      <3>3. answer.next # NoName => got.token < answer.next
        BY <2>1, <2>3, <3>1 DEF ListInv, Paged
      <3>4. CASE answer.next # NoName /\ pc' = "send"
        <4>1. Beyond(answer.next) \in Nat /\ Beyond(answer.next) < n
          BY <1>1, <3>1, <3>3, <3>4, BeyondFacts
        <4>2. Rank(latest)' = 2 * Beyond(answer.next) + 2
          BY <3>2, <3>4 DEF Rank
        <4> HIDE DEF n
        <4>3. QED
          BY <1>2, <2>1, <4>1, <4>2
      <3>5. QED
        BY <2>2, <3>2, <3>4
    <2>4. QED
      BY <1>10, <2>2, <2>3
         DEF Hear, HearPage, HearCopy, HearObject, HearExists, Refused, Return
  <1>11. QED
    BY <1>5, <1>6, <1>7, <1>8, <1>9, <1>10 DEF CallStep

(* What a step does to the rank: the call's own lower it, those of the     *)
(* store and of the other clients leave it alone.                          *)
RunsOut(latest) ==
  /\ CallStep => Rank(latest)' < Rank(latest)
  /\ Serve \/ Edit => Rank(latest)' = Rank(latest)

(* The half of CallsReturn that is no matter of scheduling: whatever the   *)
(* store answers and the other clients change, every step of the call      *)
(* takes it nearer to its end. The page loop ends because a page's token   *)
(* comes after the one it was asked for with, the date loops because they  *)
(* count off whole years and at most twelve months.                        *)
THEOREM CallsRunOut ==
  ASSUME NEW latest, IsLatest(latest)
  PROVE  Spec => [](Rank(latest) \in Nat) /\ [][RunsOut(latest)]_vars
  <1>1. ListInv => Rank(latest) \in Nat
    BY RankTyped DEF ListInv, IsLatest
  <1>2. ListInv /\ [Next]_vars => [RunsOut(latest)]_vars
    <2> SUFFICES ASSUME ListInv, Next PROVE RunsOut(latest)
      OBVIOUS
    <2>1. Serve \/ Edit => UNCHANGED <<pc, date, got>>
      BY DEF Serve, Edit
    <2>2. Serve \/ Edit => Rank(latest)' = Rank(latest)
      BY <2>1 DEF Rank, Beyond
    <2>3. QED
      BY <2>2, StepRunsOut DEF RunsOut
  <1>3. QED
    BY ListInvariance, <1>1, <1>2, PTL DEF Spec
============================================================================
