----------------------------- MODULE HttpServer -----------------------------
(***************************************************************************)
(* One connection of handy's HttpServer with the callback of StatServer:   *)
(* the bytes of the client's requests arrive in pieces of any size, each   *)
(* read event hands the input to HttpMsg::tryDecode_, which remembers how  *)
(* far it has looked, and a complete request is answered at once.          *)
(*                                                                         *)
(* The client's bytes are numbered from 0.  The input buffer holds those   *)
(* from used to got - 1, and what they say follows from their number: a    *)
(* request is a head, the 4 bytes of the empty line, and a body.           *)
(***************************************************************************)
EXTENDS Naturals, Sequences, FiniteSetsExt

CONSTANT Scripts         \* what a client may send: sequences of requests

Requests ==
    [head : Nat \ {0},                          \* length up to the empty line
     body : Nat,                                \* content-length
     line : {"good", "badline", "baduri"},      \* a header without colon; GET x
     key  : {"none", "info", "file", "unknown"},\* the name in ?stat= or in the path
     root : BOOLEAN]                            \* whether the path is /

\* The name is empty only if there is neither a query nor anything behind the first /.
ASSUME ScriptsAssumption ==
    /\ Scripts \subseteq Seq(Requests)
    /\ \A s \in Scripts : \A i \in DOMAIN s :
          s[i].line = "good" /\ s[i].key = "none" => s[i].root

VARIABLES script,        \* what this client sends
          sent,          \* how many bytes it has sent
          fin,           \* whether it has shut down its side
          got,           \* bytes in input_ so far,
          used,          \* and those of them that are consumed
          msg,           \* the HttpRequest of the connection
          resp,          \* the HttpResponse of the connection
          conn,          \* what has become of the connection
          answers        \* history: the responses sent

httpVars == <<script, sent, fin, got, used, msg, resp, conn, answers>>

Size(r) == r.head + 4 + r.body

Index == 1 .. Len(script)

\* Where each request of a script starts; past the last one, where the stream ends.
Offsets == [s \in Scripts |->
              LET begin[i \in 1 .. Len(s) + 2] ==
                    IF i = 1 THEN 0
                    ELSE begin[i - 1] + (IF i <= Len(s) + 1 THEN Size(s[i - 1]) ELSE 0)
              IN  begin]

Begin(i) == Offsets[script][i]

EndOfStream == Begin(Len(script) + 1)

\* The offsets at which the bytes <cr><lf><cr><lf> start.
EmptyLines == {Begin(i) + script[i].head : i \in Index}

\* HttpRequest::clear.
Clear == [complete |-> FALSE, contentLen |-> 0, scanned |-> 0, req |-> 0]

\* HttpResponse::clear, which only the constructor calls on the server's side.  body is
\* the set of requests whose results the text shows.
NewResponse == [status |-> 200, body |-> {}, plain |-> FALSE]

HttpInit ==
    /\ script \in Scripts
    /\ sent = 0 /\ fin = FALSE /\ got = 0 /\ used = 0
    /\ msg = Clear /\ resp = NewResponse
    /\ conn = "open" /\ answers = <<>>

----------------------------------------------------------------------------
(* HttpMsg::tryDecode_ and HttpRequest::tryDecode on size bytes.           *)

\* The empty lines of the input at or behind an offset.
Found(from, size) == {x - used : x \in {y \in EmptyLines : y >= used + from /\ y + 4 <= used + size}}

\* A mistake: the search goes on behind the bytes it has seen.
ScanPast(m, size) ==
    LET found == Found(m.scanned, size)
    IN  IF found # {} THEN [at |-> Min(found), hit |-> TRUE]
        ELSE [at |-> size, hit |-> FALSE]

\* The search for the empty line stops 3 bytes before the end, where one may begin.
Scan(m, size) ==
    LET found == Found(m.scanned, size)
    IN  IF found # {} THEN [at |-> Min(found), hit |-> TRUE]
        ELSE [at |-> Max({m.scanned, size - 3}), hit |-> FALSE]

\* The request whose head starts with the first byte of the input.
AtFront == {i \in Index : Begin(i) = used}

\* The body is there or not.
WithBody(m, size) ==
    IF ~m.complete /\ size >= m.contentLen + m.scanned
    THEN [m EXCEPT !.complete = TRUE, !.scanned = m.scanned + m.contentLen]
    ELSE m

Result(m) == IF m.complete THEN "Complete" ELSE "NotComplete"

\* contentLen_ 0 stands for a head not seen yet.  A bad header line leaves scanned_ at
\* the empty line.  Continue100 is not returned: the names of headers are in lower case,
\* and it asks for "Expect".  first says whether the first line was read by this call.
TryDecode_(size) ==
    LET scan == Scan(msg, size)
        looked == [msg EXCEPT !.scanned = scan.at]
        i == CHOOSE j \in AtFront : TRUE
        head == [looked EXCEPT !.scanned = scan.at + 4, !.req = i,
                               !.contentLen = script[i].body]
    IN  IF msg.complete \/ msg.contentLen > 0
        THEN [m |-> WithBody(msg, size), r |-> Result(WithBody(msg, size)), first |-> FALSE]
        ELSE IF ~scan.hit \/ scan.at = 0
        THEN [m |-> looked, r |-> "NotComplete", first |-> FALSE]
        ELSE IF AtFront = {} \/ script[i].line = "badline"
        THEN [m |-> looked, r |-> "Error", first |-> TRUE]
        ELSE [m |-> WithBody(head, size), r |-> Result(WithBody(head, size)), first |-> TRUE]

\* HttpRequest::tryDecode: a bad uri is noticed when the rest is decoded already.
TryDecode(size) ==
    LET d == TryDecode_(size)
    IN  IF d.first /\ d.m.req # 0 /\ script[d.m.req].line = "baduri"
        THEN [d EXCEPT !.r = "Error"]
        ELSE d

----------------------------------------------------------------------------
(* StatServer's callback.                                                  *)

NotFound(i) == [resp EXCEPT !.status = 404, !.body = {i}]

\* The callback of a name: onRequest with an InfoCallBack sets the body; onPageFile
\* appends the file to it, if the file is there.
Callback(i) ==
    CASE script[i].key = "info"    -> {[resp EXCEPT !.body = {i}]}
      [] script[i].key = "file"    -> {[resp EXCEPT !.body = @ \cup {i}, !.plain = TRUE],
                                       NotFound(i)}
      [] script[i].key = "unknown" -> {NotFound(i)}
      [] script[i].key = "none"    -> {resp}

\* For the path / the table is put before what the body holds by then.
Respond(i) == IF script[i].root THEN {[r EXCEPT !.body = @ \cup {i}] : r \in Callback(i)}
              ELSE Callback(i)

\* HttpResponse::encode: what the client is shown.
Encode(i, r) == [req |-> i, status |-> r.status, body |-> r.body]

\* A mistake: clearData forgets the body of the request.
ConsumedHead(m) == used + m.scanned - m.contentLen

\* clearData: what tryDecode_ has taken leaves the input.
Consumed(m) == used + m.scanned

----------------------------------------------------------------------------
(* The connection.                                                         *)

\* HttpConnPtr::handleRead with the input up to g.  The connection becomes after, or is
\* closed by a task that close() posts; the response goes out if the descriptor is open.
\* For a request without uri the callback throws, and the process ends.
HandleRead(g, after, deliver) ==
    \E d \in {TryDecode(g - used)} :
    /\ got' = g
    /\ \/ /\ d.r = "NotComplete"
          /\ msg' = d.m /\ conn' = after
          /\ UNCHANGED <<used, resp, answers>>
       \/ /\ d.r = "Error"
          /\ msg' = d.m /\ conn' = IF after = "open" THEN "closing" ELSE after
          /\ UNCHANGED <<used, resp, answers>>
       \/ /\ d.r = "Complete" /\ script[d.m.req].line = "baduri"
          /\ msg' = d.m /\ conn' = "aborted"
          /\ UNCHANGED <<used, resp, answers>>
       \/ /\ d.r = "Complete" /\ script[d.m.req].line # "baduri"
          /\ resp' \in Respond(d.m.req)
          /\ answers' = IF deliver THEN Append(answers, Encode(d.m.req, resp')) ELSE answers
          /\ used' = Consumed(d.m) /\ msg' = Clear /\ conn' = after

\* readcb_ is called only if there is something in input_.
HandleInput(g, after, deliver) ==
    IF g > used THEN HandleRead(g, after, deliver)
    ELSE got' = g /\ conn' = after /\ UNCHANGED <<used, msg, resp, answers>>

Send == /\ ~fin
        /\ sent' \in sent + 1 .. EndOfStream
        /\ UNCHANGED <<script, fin, got, used, msg, resp, conn, answers>>

ShutDown == /\ ~fin /\ fin' = TRUE
            /\ UNCHANGED <<script, sent, got, used, msg, resp, conn, answers>>

\* TcpConn::handleRead takes what is there and calls readcb_,
ReadEvent == /\ conn \in {"open", "closing"} /\ ~fin /\ got < sent
             /\ HandleInput(sent, conn, TRUE)
             /\ UNCHANGED <<script, sent, fin>>

\* or finds the end of the stream behind it and cleans up.
EndEvent == /\ conn \in {"open", "closing"} /\ fin
            /\ HandleInput(sent, "closed", TRUE)
            /\ UNCHANGED <<script, sent, fin>>

\* A mistake: the task leaves the connection as it is.
CloseTaskStays == /\ conn = "closing"
                  /\ HandleInput(got, "closing", FALSE)
                  /\ UNCHANGED <<script, sent, fin>>

\* The task of TcpConn::close: the descriptor is closed, and cleanup shows the rest of
\* the input to readcb_.
CloseTask == /\ conn = "closing"
             /\ HandleInput(got, "closed", FALSE)
             /\ UNCHANGED <<script, sent, fin>>

HttpNext == Send \/ ShutDown \/ ReadEvent \/ EndEvent \/ CloseTask

HttpSafeSpec == HttpInit /\ [][HttpNext]_httpVars

\* The loop serves its events and runs its tasks; the client does as it likes.
HttpSpec == /\ HttpSafeSpec
            /\ WF_httpVars(ReadEvent) /\ WF_httpVars(EndEvent) /\ WF_httpVars(CloseTask)

----------------------------------------------------------------------------

\* However the network cuts and joins the requests, they are answered in their order,
\* each once, whole, and with its own result in the text; what is left in the input
\* starts with the first request that is not answered.
AnswersInOrder ==
    /\ \A k \in 1 .. Len(answers) :
          /\ answers[k].req = k /\ k \in answers[k].body
          /\ script[k].key = "unknown" => answers[k].status = 404
    /\ used <= got
    /\ conn \in {"open", "closing"} => used = Begin(Len(answers) + 1)

Whole == \E i \in AtFront : got >= Begin(i + 1)
Stranded == conn = "open" /\ Whole

\* handleRead decodes one request per read event.  A request that is there whole stays
\* unanswered only when the event that brought its last byte has answered the request
\* before it.
StrandedBehindAnswer ==
    [][~Stranded /\ Stranded' => Len(answers') > Len(answers)]_httpVars

\* A client that waits for each answer before it sends the next request, and keeps the
\* connection, gets its answers or is disconnected for a bad request.
AnsweredWhenAlone ==
    [](sent <= Begin(Len(answers) + 2) /\ ~fin)
      => []<>(\/ Len(answers) = Len(script) \/ sent < Begin(Len(answers) + 2)
              \/ conn \in {"closed", "aborted"})
=============================================================================
