----------------------------- MODULE S3Objects -----------------------------
(***************************************************************************)
(* One call of `s3_list`, `s3_copy`, `s3_stats`, `s3_exists`, `s3_delete`  *)
(* or `s3_reader` of src/src/s3/mod.rs, and the bucket it speaks of, whose *)
(* objects other clients put and delete between the call's requests.  Each *)
(* request is addressed and signed, by rusty-s3 and by                     *)
(* `repair_leading_slash_action_url`, or by `s3_copy` itself, and may be   *)
(* refused, fail or be lost before or after it took effect.                *)
(*                                                                         *)
(* Names are numbers in the order of the store (that of their bytes).      *)
(* Folder[k] is the common prefix key k is listed under when a delimiter   *)
(* is given, or k itself.  A name on the wire is percent-encoded: <<k>>.   *)
(*                                                                         *)
(* A definition marked "Slip" is no part of the model: it is the definition*)
(* that follows with a plausible mistake, kept to show which property      *)
(* would notice it.                                                        *)
(***************************************************************************)
EXTENDS Calendar, Sequences, FiniteSets

CONSTANTS
  Keys,       \* keys an object may have
  Folder,     \* Folder[k]: see above
  Matching,   \* the keys that start with the prefix s3_list is given
  Targets,    \* the keys the other functions are called with
  Slashed,    \* those of them that start with "/"
  Unslashed,  \* Unslashed[k]: k without it
  Versions,   \* versions of an object: positive numbers
  Clocks,     \* times at which s3_copy may be called: <<day, second>>
  PageSize,   \* bound: entries on one page of a listing
  MaxEdits    \* bound: changes other clients make

Absent == 0   \* the version of an object that does not exist
NoName == -1  \* no key, no continuation token

SecondsPerDay == 24 * 60 * 60
Seconds == 0 .. SecondsPerDay - 1
Instants == Nat \X Seconds

Names == Keys \cup {Folder[k] : k \in Keys}

ASSUME KeysAssumption ==
  /\ IsFiniteSet(Keys) /\ Keys \subseteq Nat
  /\ Folder \in [Keys -> Nat]
  /\ \A k \in Keys : Folder[k] # k => Folder[k] \notin Keys
  /\ Matching \subseteq Keys /\ Targets \subseteq Keys /\ Slashed \subseteq Targets
  /\ Unslashed \in [Slashed -> Keys]

(* What is listed under one prefix is neighbours in the order of the names.*)
ASSUME FoldersAssumption ==
  \A k, l \in Keys : k < l => Folder[k] <= Folder[l]

ASSUME BoundsAssumption ==
  /\ Versions \subseteq Nat \ {Absent}
  /\ Clocks \subseteq Instants
  /\ PageSize \in Nat \ {0} /\ MaxEdits \in Nat

VARIABLES
  bucket,   \* bucket[k]: the version the object has
  edits,    \* changes other clients have made
  call,     \* the arguments of the call, and the configuration it reads
  pc,       \* where it is
  date,     \* its computation of the date
  got,      \* what it has got by now, and how it ended
  request,  \* the request it sent last
  answer,   \* the answer to it that has arrived, or NoAnswer
  past      \* the states of the bucket since the call began (history)

vars == <<bucket, edits, call, pc, date, got, request, answer, past>>

Kinds == {"list", "copy", "stats", "exists", "delete", "get"}

(* The HTTP method of each call.                                           *)
Method == [list |-> "GET", copy |-> "PUT", stats |-> "HEAD", exists |-> "HEAD",
           delete |-> "DELETE", get |-> "GET"]

Calls ==
  [kind : Kinds, key : Keys \cup {NoName}, from : Keys \cup {NoName},
   dirs : BOOLEAN, delimiter : BOOLEAN, aws : BOOLEAN, dots : BOOLEAN]

(* The addressing makes no difference to s3_list, nor dirs and delimiter to*)
(* the others.                                                             *)
AnyCall ==
  {c \in Calls :
     /\ IF c.kind = "list" THEN c.key = NoName /\ ~c.aws /\ ~c.dots
        ELSE c.key \in Targets /\ ~c.dirs /\ ~c.delimiter
     /\ IF c.kind = "copy" THEN c.from \in Targets ELSE c.from = NoName}

NoRequest == [method |-> "none"]
NoAnswer == [status |-> 0]

Init ==
  /\ bucket \in [Keys -> Versions \cup {Absent}]
  /\ edits = 0
  /\ call \in AnyCall
  /\ pc = "begin"
  /\ date = [clock |-> <<0, 0>>, days |-> 0, year |-> 1970, month |-> 1]
  /\ got = [token |-> NoName, result |-> <<>>, found |-> Absent, unread |-> FALSE,
            outcome |-> "none"]
  /\ request = NoRequest /\ answer = NoAnswer
  /\ past = {bucket}

Goto(place) == pc' = place /\ UNCHANGED <<call, got>>

Return(result) == pc' = "done" /\ got' = [got EXCEPT !.outcome = result] /\ UNCHANGED call

----------------------------------------------------------------------------
(* Addressing and signing.                                                 *)

uses_path_style == ~call.aws \/ call.dots

(* rusty_bucket: the style the URLs of rusty-s3 have.                      *)
PathStyle == ~(call.aws /\ ~call.dots)

(* The URL of an object, whether it names the bucket, and its signature.    *)
Signed(method, named, key) ==
  [named |-> named, key |-> key, signature |-> <<method, named, key>>]

(* The action of rusty-s3: Url::join drops the bucket of a path-style URL, *)
(* or the slash, when the key begins with one.                             *)
RustyAction(method, key) ==
  IF key \notin Slashed THEN Signed(method, TRUE, key)
  ELSE IF PathStyle THEN Signed(method, FALSE, key)
  ELSE Signed(method, TRUE, Unslashed[key])

(* Slip: the URL is rebuilt, but not signed again.                         *)
repair_without_signing(action, key, method) ==
  IF key \notin Slashed \/ ~uses_path_style THEN action
  ELSE [action EXCEPT !.named = TRUE]

(* The bucket is put back, and the request signed with the method given.   *)
repair_leading_slash_action_url(action, key, method) ==
  IF key \notin Slashed \/ ~uses_path_style THEN action
  ELSE Signed(method, TRUE, action.key)

(* s3_object_url: the same repair for the URL s3_copy signs by itself.     *)
ObjectUrl(key) ==
  LET url == RustyAction("PUT", key)
  IN  IF key \in Slashed /\ uses_path_style
      THEN Signed("PUT", TRUE, url.key) ELSE url

----------------------------------------------------------------------------
(* The call up to its request.                                             *)

(* The configuration is read (s3_copy: and the clock), or is unusable.     *)
Begin ==
  /\ pc = "begin"
  /\ \/ call.kind # "copy" /\ Goto("send") /\ UNCHANGED date
     \/ /\ call.kind = "copy" /\ Goto("year")
        /\ \E now \in Clocks : date' = [date EXCEPT !.clock = now, !.days = now[1]]
     \/ Return("error") /\ UNCHANGED date
  /\ UNCHANGED <<bucket, edits, request, answer, past>>

(* epoch_days_to_ymd: count the whole years off.                           *)
YearLoop ==
  /\ pc = "year"
  /\ LET n == days_in_year(date.year)
     IN  \/ date.days < n /\ Goto("month") /\ UNCHANGED date
         \/ /\ date.days >= n /\ Goto("year")
            /\ date' = [date EXCEPT !.days = @ - n, !.year = @ + 1]
  /\ UNCHANGED <<bucket, edits, request, answer, past>>

(* Slip: a month of n days would have a day n + 1.                         *)
MonthLoopOffByOne ==
  /\ pc = "month"
  /\ LET n == month_lengths(date.year)
     IN  \/ (date.month > 12 \/ date.days <= n[date.month]) /\ Goto("send") /\ UNCHANGED date
         \/ /\ date.month <= 12 /\ date.days > n[date.month] /\ Goto("month")
            /\ date' = [date EXCEPT !.days = @ - n[date.month], !.month = @ + 1]
  /\ UNCHANGED <<bucket, edits, request, answer, past>>

(* Then the whole months.                                                  *)
MonthLoop ==
  /\ pc = "month"
  /\ LET n == month_lengths(date.year)
     IN  \/ (date.month > 12 \/ date.days < n[date.month]) /\ Goto("send") /\ UNCHANGED date
         \/ /\ date.month <= 12 /\ date.days >= n[date.month] /\ Goto("month")
            /\ date' = [date EXCEPT !.days = @ - n[date.month], !.month = @ + 1]
  /\ UNCHANGED <<bucket, edits, request, answer, past>>

(* format_timestamp: year, month, day, hour, minute, second.               *)
Timestamp ==
  LET second == date.clock[2]
  IN  <<date.year, date.month, date.days + 1,
        (second \div 3600) % 24, (second \div 60) % 60, second % 60>>

(* s3_list: with dirs a delimiter is needed, "/" unless the caller has one.*)
fixed_delimiter == call.dirs \/ call.delimiter

(* The requests.                                                           *)
ListRequest ==
  [method |-> "GET", prefix |-> TRUE, delimiter |-> fixed_delimiter,
   token |-> got.token]

CopyRequest ==
  LET url == ObjectUrl(call.key)
  IN  [method |-> "PUT", url |-> url, source |-> call.from, date |-> Timestamp]

ObjectRequest ==
  LET method == Method[call.kind]
  IN  [method |-> method,
       url |-> repair_leading_slash_action_url(
                 RustyAction(method, call.key), call.key, method)]

(* Slip: the requests for the following pages do not say the prefix.       *)
SendFirstPrefix ==
  /\ pc = "send"
  /\ request' = CASE call.kind = "list" ->
                       [ListRequest EXCEPT !.prefix = (got.token = NoName)]
                  [] call.kind = "copy" -> CopyRequest
                  [] OTHER -> ObjectRequest
  /\ answer' = NoAnswer
  /\ Goto("wait")
  /\ UNCHANGED <<bucket, edits, date, past>>

Send ==
  /\ pc = "send"
  /\ request' = CASE call.kind = "list" -> ListRequest
                  [] call.kind = "copy" -> CopyRequest
                  [] OTHER -> ObjectRequest
  /\ answer' = NoAnswer
  /\ Goto("wait")
  /\ UNCHANGED <<bucket, edits, date, past>>

(* The request, or the answer to it, is lost, or too late.                 *)
Lost ==
  /\ pc = "wait"
  /\ Return("error")
  /\ UNCHANGED <<bucket, edits, date, request, answer, past>>

----------------------------------------------------------------------------
(* The store and the other clients.                                        *)

(* Nobody looks at the bucket while the call computes a date: a change made*)
(* then is one made before the request is sent.                            *)
Edit ==
  /\ pc \in {"send", "wait"}
  /\ edits < MaxEdits
  /\ \E k \in Keys, v \in Versions \cup {Absent} : bucket' = [bucket EXCEPT ![k] = v]
  /\ edits' = edits + 1
  /\ past' = past \cup {bucket'}
  /\ UNCHANGED <<call, pc, date, got, request, answer>>

(* Bodies, as the events of quick_xml.                                     *)
ErrorBody ==
  <<<<"start", "Error">>, <<"start", "Code">>, <<"text", "any">>, <<"end", "Code">>,
    <<"start", "Message">>, <<"text", "any">>, <<"end", "Message">>, <<"end", "Error">>>>

CopyBody ==
  <<<<"start", "CopyObjectResult">>, <<"start", "ETag">>, <<"text", "any">>,
    <<"end", "ETag">>, <<"end", "CopyObjectResult">>>>

Reply(status, body) ==
  [status |-> status, body |-> body, ver |-> Absent, length |-> TRUE,
   contents |-> <<>>, prefixes |-> <<>>, next |-> NoName]

(* The names a listing asked for in that way has in state b of the bucket. *)
Listed(b, r) ==
  {IF r.delimiter THEN Folder[k] ELSE k :
     k \in {j \in Keys : b[j] # Absent /\ (r.prefix => j \in Matching)}}

(* The ways to write a set of names in ascending order: one.               *)
Ascending(S) ==
  {s \in [1 .. Cardinality(S) -> S] :
     /\ \A e \in S : \E i \in DOMAIN s : s[i] = e
     /\ \A i, j \in DOMAIN s : i < j => s[i] < s[j]}

Encoded(s) == [i \in DOMAIN s |-> <<s[i]>>]

(* ListObjectsV2: the next names, as many as the store likes, and a token  *)
(* if there are more.                                                      *)
ServeList ==
  LET left == {e \in Listed(bucket, request) : e > request.token}
  IN  \E page \in SUBSET left, next \in Names \cup {NoName} :
        /\ \A e \in page, f \in left \ page : e < f
        /\ Cardinality(page) <= PageSize /\ (left # {} => page # {})
        /\ IF page = left THEN next = NoName ELSE next \in page /\ \A e \in page : e <= next
        /\ \E contents \in Ascending(page \cap Keys), prefixes \in Ascending(page \ Keys) :
             answer' = [Reply(200, <<>>) EXCEPT
                          !.contents = Encoded(contents),
                          !.prefixes = Encoded(prefixes), !.next = next]
  /\ UNCHANGED bucket

(* The signature is that of the request, and there is such a bucket.       *)
Admitted ==
  /\ request.url.named
  /\ request.url.signature = <<request.method, request.url.named, request.url.key>>

(* HEAD and GET; a store may leave out the length of a HEAD answer.        *)
ServeObject ==
  LET version == bucket[request.url.key]
  IN  /\ IF version = Absent
          THEN answer' = Reply(404, IF request.method = "HEAD" THEN <<>> ELSE ErrorBody)
          ELSE \E length \in BOOLEAN :
                 answer' = [Reply(200, <<>>) EXCEPT !.ver = version, !.length = length]
      /\ UNCHANGED bucket

ServeDelete ==
  /\ bucket' = [bucket EXCEPT ![request.url.key] = Absent]
  /\ answer' = Reply(204, <<>>)

(* CopyObject may fail after its 200 was sent.                             *)
ServeCopy ==
  \/ /\ bucket[request.source] = Absent
     /\ answer' = Reply(404, ErrorBody)
     /\ UNCHANGED bucket
  \/ /\ bucket[request.source] # Absent
     /\ bucket' = [bucket EXCEPT ![request.url.key] = bucket[request.source]]
     /\ answer' = Reply(200, CopyBody)
  \/ /\ answer' = Reply(200, ErrorBody)
     /\ UNCHANGED bucket

(* The store answers.                                                      *)
Serve ==
  /\ pc = "wait" /\ answer = NoAnswer
  /\ \/ call.kind = "list" /\ ServeList
     \/ /\ call.kind # "list" /\ Admitted
        /\ \/ request.method \in {"HEAD", "GET"} /\ ServeObject
           \/ request.method = "DELETE" /\ ServeDelete
           \/ request.method = "PUT" /\ ServeCopy
     \/ /\ answer' \in {Reply(status, ErrorBody) : status \in {403, 500}}
        /\ UNCHANGED bucket
     \/ /\ call.kind # "list" /\ ~Admitted
        /\ answer' = Reply(404, ErrorBody)
        /\ UNCHANGED bucket
  /\ past' = past \cup {bucket'}
  /\ UNCHANGED <<edits, call, pc, date, got, request>>

----------------------------------------------------------------------------
(* The call after the answer.                                              *)

(* parse_s3_error_xml: is this the body of an error?  A text is the value  *)
(* of the field whose start comes right before it.                         *)
parse_s3_error_xml(body) ==
  \E n \in 2 .. Len(body) :
    /\ body[n][1] = "text" /\ body[n - 1][1] = "start"
    /\ body[n - 1][2] \in {"Code", "Message"}

Success == answer.status \in 200 .. 299

(* s3_error_from_response: an error that carries the status.               *)
Refused == Return(IF answer.status = 404 THEN "notfound" ELSE "error")

decode_s3_path(path) == path[1]

Decoded(s) == [i \in DOMAIN s |-> decode_s3_path(s[i])]

(* The names of a page are appended; the call goes on behind it, if it goes*)
(* on.                                                                     *)
Collect(more, last) ==
  /\ got' = [got EXCEPT !.result = @ \o more, !.token = answer.next,
                        !.outcome = IF last THEN "ok" ELSE "none"]
  /\ pc' = IF last THEN "done" ELSE "send"
  /\ UNCHANGED call

OnPage == Decoded(IF call.dirs THEN answer.prefixes ELSE answer.contents)

(* Slip: a page without names of the kind asked for is taken for the last. *)
HearPageStopsEarly ==
  /\ call.kind = "list"
  /\ IF ~Success THEN Refused
     ELSE Collect(OnPage, OnPage = <<>> \/ answer.next = NoName) \/ Return("error")

(* Slip: a page that cannot be read is asked for again.                    *)
HearPageRetries ==
  /\ call.kind = "list"
  /\ IF ~Success THEN Refused
     ELSE Collect(OnPage, answer.next = NoName) \/ Goto("send")

(* s3_list: on to the next page, or return.  The body may be cut off or be *)
(* no listing.                                                             *)
HearPage ==
  /\ call.kind = "list"
  /\ IF ~Success THEN Refused
     ELSE Collect(OnPage, answer.next = NoName) \/ Return("error")

(* s3_copy: a 200 may carry an error; a body that cannot be read is empty. *)
HearCopy ==
  /\ call.kind = "copy"
  /\ IF ~Success THEN Refused
     ELSE \/ Return(IF parse_s3_error_xml(answer.body) THEN "error" ELSE "ok")
          \/ /\ got' = [got EXCEPT !.unread = TRUE,
                           !.outcome = IF parse_s3_error_xml(<<>>) THEN "error" ELSE "ok"]
             /\ pc' = "done" /\ UNCHANGED call

(* s3_stats, s3_reader, s3_delete.                                         *)
HearObject ==
  /\ call.kind \in {"stats", "get", "delete"}
  /\ IF ~Success THEN Refused
     ELSE IF call.kind = "stats" /\ ~answer.length THEN Return("error")
     ELSE /\ got' = [got EXCEPT !.found = answer.ver, !.outcome = "ok"]
          /\ pc' = "done" /\ UNCHANGED call

(* Slip: whatever is not a success is an object that does not exist.       *)
HearExistsBySuccess ==
  /\ call.kind = "exists"
  /\ Return(IF Success THEN "ok" ELSE "absent")

(* s3_exists: Ok(true), Ok(false), or an error.                            *)
HearExists ==
  /\ call.kind = "exists"
  /\ IF Success THEN Return("ok")
     ELSE IF answer.status = 404 THEN Return("absent")
     ELSE Refused

Hear ==
  /\ pc = "wait" /\ answer # NoAnswer
  /\ HearPage \/ HearCopy \/ HearObject \/ HearExists
  /\ UNCHANGED <<bucket, edits, date, request, answer, past>>

----------------------------------------------------------------------------
CallStep == Begin \/ YearLoop \/ MonthLoop \/ Send \/ Lost \/ Hear

Next == CallStep \/ Serve \/ Edit

(* A call goes on: a request ends by an answer or by the timeout of the    *)
(* client.                                                                 *)
Spec == Init /\ [][Next]_vars /\ WF_vars(CallStep)

----------------------------------------------------------------------------
Places == {"begin", "year", "month", "send", "wait", "done"}

Dates == [clock : Instants, days : Nat, year : Nat, month : 1 .. 13]

Results ==
  [token : Names \cup {NoName}, result : Seq(Names), found : Versions \cup {Absent},
   unread : BOOLEAN, outcome : {"none", "ok", "absent", "notfound", "error"}]

(* Type invariant; the loops leave a day that its month has.               *)
TypeOK ==
  /\ bucket \in [Keys -> Versions \cup {Absent}]
  /\ edits \in 0 .. MaxEdits
  /\ call \in Calls /\ pc \in Places /\ date \in Dates /\ got \in Results
  /\ past \subseteq [Keys -> Versions \cup {Absent}] /\ bucket \in past
  /\ pc = "send" /\ call.kind = "copy" =>
       date.month <= 12 /\ date.days < month_lengths(date.year)[date.month]

(* What a complete listing of state b would return.                        *)
ListingOf(b) ==
  LET names == Listed(b, [prefix |-> TRUE, delimiter |-> fixed_delimiter])
  IN  IF call.dirs THEN names \ Keys ELSE names \cap Keys

Listing == {got.result[i] : i \in DOMAIN got.result}

ListOk == call.kind = "list" /\ got.outcome = "ok"

(* s3_list leaves nothing out: what the bucket held from the beginning of  *)
(* the call to its end is in the result, on whichever page it came and     *)
(* whatever was put or deleted between the pages: "`s3_list()` correctly   *)
(* handles >1,000 keys via pagination".                                    *)
ListComplete ==
  ListOk => \A e \in Names : (\A b \in past : e \in ListingOf(b)) => e \in Listing

(* It invents nothing and repeats nothing: every name returned was in the  *)
(* bucket under that prefix at some time in the call, and they ascend.     *)
ListSound ==
  ListOk =>
    /\ \A e \in Listing : \E b \in past : e \in ListingOf(b)
    /\ \A i, j \in DOMAIN got.result : i < j => got.result[i] < got.result[j]

(* Left out of the two properties that follow: a key with a slash in a    *)
(* virtual-hosted bucket. The repair is for path-style URLs only, so the   *)
(* request is for the key without the slash, which is another object.      *)
KeyKept == PathStyle \/ call.key \notin Slashed

(* The versions the object of the caller's key had during the call.        *)
Seen == {b[call.key] : b \in past}

(* An answer was true of the object whose key the caller gave at some time *)
(* between call and return: Ok, Ok(false) and a 404 of each function;      *)
(* s3_copy's Ok, unless its body was unreadable, means that the object is  *)
(* the copy.                                                               *)
AnswersTrue ==
  KeyKept =>
    /\ call.kind \in {"stats", "get"} =>
         /\ got.outcome = "ok" => got.found \in Seen \ {Absent}
         /\ got.outcome = "notfound" => Absent \in Seen
    /\ call.kind = "exists" /\ got.outcome = "ok" => Seen \ {Absent} # {}
    /\ got.outcome = "absent" => Absent \in Seen
    /\ call.kind = "delete" /\ got.outcome = "ok" => Absent \in Seen
    /\ call.kind = "copy" /\ got.outcome = "ok" /\ ~got.unread =>
         \E b \in past : b[call.key] = b[call.from] /\ b[call.key] # Absent

(* A request names a bucket and is signed for its own method, bucket and   *)
(* key, and the key is the one the caller gave, with its slash if it begins*)
(* with one and the bucket is a path-style one: "Preserve leading-slash S3 *)
(* object keys when using path-style endpoints".                           *)
RequestNamesObject ==
  call.kind # "list" /\ pc = "wait" =>
    Admitted /\ (KeyKept => request.url.key = call.key)

(* The date and time a copy is signed with are those of the clock, in leap *)
(* years, at the ends of months and years, and in 2100.                    *)
DateSigned ==
  call.kind = "copy" /\ pc = "wait" =>
    LET d == request.date
    IN  /\ DateOf(date.clock[1], d[1], d[2], d[3])
        /\ d[4] * 3600 + d[5] * 60 + d[6] = date.clock[2]
        /\ d[4] \in 0 .. 23 /\ d[5] \in 0 .. 59 /\ d[6] \in 0 .. 59

(* Every call returns: the loops over years, months and pages end.         *)
CallsReturn == <>(pc = "done")
============================================================================
