----------------------------- MODULE HttpProofs -----------------------------
(***************************************************************************)
(* Proofs about HttpExchange, for every set of codes: what an endpoint does *)
(* with a request, and what the client of the request learns of it.         *)
(***************************************************************************)
EXTENDS HttpExchange, TLAPS

CodeOf(e) == IF e.kind = "service" THEN e.code ELSE Internal

(* A response with one Content-Length has its own. *)
Measured(r) == Len(r.lengths) = 1 => r.lengths[1] = r.body

(* What the handler left, sent. *)
Success(r) == r.code = Own /\ r.body # "error" /\ Measured(r)

(* Where a request may be when it is not handled any more and no error was  *)
(* sent: answered, answered by the handler itself, or with its exception.   *)
Answered == outcome = Nothing /\ autosend /\ Len(sent) = 1 /\ Success(sent[1])
LeftAlone == outcome = Nothing /\ ~autosend /\ sent = <<>>
Failed == outcome = thrown /\ sent = <<>>

(* An error was sent, for the exception of the handler, or for one that     *)
(* came behind its answer.                                                  *)
ErrorSent ==
  /\ thrown # Nothing /\ Len(sent) > 0
  /\ sent[Len(sent)].code = CodeOf(thrown)
  /\ \/ Len(sent) = 1 /\ Measured(sent[1]) /\ outcome = thrown
     \/ Len(sent) = 1 /\ Measured(sent[1]) /\ outcome = Nothing /\ ~autosend
     \/ Len(sent) = 2 /\ Success(sent[1]) /\ outcome = Nothing /\ autosend

(* Nothing was sent, and there is an exception on its way out of which no   *)
(* error could be made.                                                     *)
Unprintable == /\ sent = <<>> /\ escaped # Nothing
               /\ outcome.kind = "service" => ~outcome.printable

BeforeInv == pc \in {"fetch", "construct", "handler"} =>
               /\ sent = <<>> /\ outcome = Nothing /\ autosend
               /\ response.code = Own /\ response.body = ""

ReturnedInv == pc = "returned" => /\ sent = <<>> /\ outcome = Nothing
                                  /\ response.code = Own /\ response.body # "error"

DescribeInv == pc = "describe" => Answered \/ LeftAlone

ErrorInv == pc \in {"error", "respond"} =>
              /\ thrown # Nothing
              /\ Failed \/ (thrown = JsonError /\ (Answered \/ LeftAlone))

RespondInv == pc = "respond" => thrown.printable /\ response.code = CodeOf(thrown)

ReportInv == pc = "report" => ErrorSent

EscapedInv == pc # "done" => escaped = Nothing

DoneInv == pc = "done" => ErrorSent \/ Answered \/ LeftAlone \/ Unprintable

ServerInv == /\ TypeOK
             /\ BeforeInv /\ ReturnedInv /\ DescribeInv /\ ErrorInv
             /\ RespondInv /\ ReportInv /\ EscapedInv /\ DoneInv

(* A client has set nothing up before it begins; the answer it has is one   *)
(* it could get now, as an endpoint takes nothing back; and it keeps its    *)
(* handle only while it performs and reads, or if it was never sent out.    *)
ClientInv ==
  /\ client \in {"begin", "perform", "failed", "read", "returned", "threw", "terminated"}
  /\ allocated \subseteq {"curl", "headers"}
  /\ client = "begin" => ~arrived
  /\ client \in {"read", "returned"} => answer \in Answers
  /\ client = "returned" \/ (client = "threw" /\ arrived) => allocated \subseteq {"headers"}

IInv == ServerInv /\ ClientInv

-----------------------------------------------------------------------------
(* The endpoint. *)

(* A sequence of one element. *)
LEMMA Singleton ==
  ASSUME NEW S, NEW x \in S
  PROVE  <<x>> \in Seq(S) /\ <<>> \in Seq(S)
  OBVIOUS

(* The one exception the endpoint makes itself. *)
LEMMA JsonErrorIsStd == /\ JsonError \in StdExceptions
                        /\ JsonError.printable /\ JsonError.kind = "std"
                        /\ JsonError # Nothing
  BY DEF JsonError, StdExceptions, Nothing

(* What is thrown is something, and of one kind. *)
LEMMA Thrown ==
  ASSUME NEW e \in ServiceErrors \cup StdExceptions
  PROVE  /\ e # Nothing /\ e # Other
         /\ e.kind \in {"service", "std"}
         /\ e.kind = "service" => e.code \in Codes \cup {Internal}
         /\ CodeOf(e) \in Codes \cup {Internal}
  BY DEF ServiceErrors, StdExceptions, Nothing, Other, CodeOf

(* A response that is sent with the JSON headers carries its own length, or *)
(* more than one.                                                           *)
LEMMA WithJsonHeadersMeasured ==
  ASSUME NEW r \in Responses
  PROVE  /\ WithJsonHeaders(r) \in Responses
         /\ WithJsonHeaders(r).code = r.code /\ WithJsonHeaders(r).body = r.body
         /\ Measured(WithJsonHeaders(r))
  BY SMTT(30) DEF Responses, WithJsonHeaders, Measured

(* At first nothing has been sent and nothing has happened. *)
LEMMA ServerInvInit == Init => ServerInv
  <1> SUFFICES ASSUME Init PROVE ServerInv
    OBVIOUS
  <1>1. /\ <<>> \in Seq(Bodies) /\ <<>> \in Seq(Responses) /\ <<>> \in Seq({"info", "error"})
        /\ Len(<<>>) = 0
    OBVIOUS
  <1>2. TypeOK
    <2>1. response \in Responses
      BY <1>1 DEF Init, Responses, Bodies
    <2>2. pc \in {"fetch", "construct"}
      BY DEF Init
    <2>3. sent = <<>>
      BY DEF Init
    <2>4. Len(sent) <= 2
      BY <2>3
    <2>. QED  BY <1>1, <2>1, <2>2, <2>4 DEF Init, TypeOK
  <1>. QED
    BY <1>2
    DEF Init, ServerInv, BeforeInv, ReturnedInv, DescribeInv, ErrorInv, RespondInv,
        ReportInv, EscapedInv, DoneInv

(* Before the handler is called nothing has been sent, and an exception of  *)
(* the construction goes to restbed.                                        *)
LEMMA FetchKeeps ==
  ASSUME ServerInv, Fetch
  PROVE  ServerInv'
  BY DEF Fetch, Goto, ServerInv, TypeOK, BeforeInv, ReturnedInv, DescribeInv, ErrorInv,
         RespondInv, ReportInv, EscapedInv, DoneInv

LEMMA ConstructKeeps ==
  ASSUME ServerInv, Construct
  PROVE  ServerInv'
  <1>1. CASE pc' = "handler"
    BY <1>1 DEF Construct, Goto, ServerInv, TypeOK, BeforeInv, ReturnedInv, DescribeInv, ErrorInv,
           RespondInv, ReportInv, EscapedInv, DoneInv
  <1>2. CASE pc' = "done"
    <2>1. escaped' \in StdExceptions /\ escaped' # Nothing
      BY <1>2, Thrown DEF Construct, Goto
    <2>2. sent' = <<>> /\ outcome' = Nothing
      BY <1>2 DEF Construct, Goto, ServerInv, BeforeInv
    <2>3. outcome'.kind # "service"
      BY <2>2 DEF Nothing
    <2>4. Unprintable'
      BY <2>1, <2>2, <2>3 DEF Unprintable
    <2>. QED
      BY <1>2, <2>1, <2>4
      DEF Construct, Goto, ServerInv, TypeOK, BeforeInv, ReturnedInv, DescribeInv, ErrorInv,
          RespondInv, ReportInv, EscapedInv, DoneInv
  <1>. QED  BY <1>1, <1>2 DEF Construct, Goto

(* What the handler fills is a response of its own code and no error. *)
LEMMA HandlerFilled ==
  ASSUME ServerInv, pc = "handler", HandlerFills
  PROVE  /\ response' \in Responses /\ autosend' \in BOOLEAN
         /\ response'.code = Own /\ response'.body # "error"
  <1>1. response \in Responses /\ response.code = Own
    BY DEF ServerInv, TypeOK, BeforeInv
  <1>2. PICK body \in {"", "answer"}, own \in BOOLEAN :
          response' = [response EXCEPT !.body = body, !.lengths = IF own THEN <<body>> ELSE <<>>]
    BY DEF HandlerFills
  <1>3. (IF own THEN <<body>> ELSE <<>>) \in Seq(Bodies)
    <2>1. body \in Bodies
      BY DEF Bodies
    <2>2. <<body>> \in Seq(Bodies) /\ <<>> \in Seq(Bodies)
      BY <2>1, Singleton
    <2>. QED  BY <2>2
  <1>4. body \in Bodies /\ body # "error"
    BY DEF Bodies
  <1>. QED  BY <1>1, <1>2, <1>3, <1>4 DEF HandlerFills, Responses

LEMMA HandlerReturnsKeeps ==
  ASSUME ServerInv, HandlerReturns
  PROVE  ServerInv'
  <1>1. response' \in Responses /\ autosend' \in BOOLEAN
        /\ response'.code = Own /\ response'.body # "error"
    BY HandlerFilled DEF HandlerReturns, Goto
  <1>. QED
    BY <1>1
    DEF HandlerReturns, Goto, ServerInv, TypeOK, BeforeInv, ReturnedInv, DescribeInv, ErrorInv,
        RespondInv, ReportInv, EscapedInv, DoneInv

(* The exception of the handler is caught, or is nothing the endpoint knows. *)
LEMMA HandlerThrowsKeeps ==
  ASSUME ServerInv, HandlerThrows
  PROVE  ServerInv'
  <1>1. response' \in Responses /\ autosend' \in BOOLEAN
        /\ response'.code = Own /\ response'.body # "error"
    BY HandlerFilled DEF HandlerThrows, Goto
  <1>2. CASE pc' = "error"
    <2>1. thrown' \in ServiceErrors \cup StdExceptions /\ thrown' # Nothing /\ outcome' = thrown'
      BY <1>2, Thrown DEF HandlerThrows, Goto
    <2>. QED
      BY <1>1, <1>2, <2>1
      DEF HandlerThrows, Goto, ServerInv, TypeOK, BeforeInv, ReturnedInv, DescribeInv, ErrorInv,
          RespondInv, ReportInv, EscapedInv, DoneInv, Failed
  <1>3. CASE pc' = "done"
    <2>1. outcome' = Other /\ escaped' = Other /\ thrown' = thrown /\ sent' = <<>>
      BY <1>3 DEF HandlerThrows, Goto, ServerInv, BeforeInv
    <2>2. Unprintable'
      BY <2>1 DEF Unprintable, Other, Nothing
    <2>. QED
      BY <1>1, <1>3, <2>1, <2>2
      DEF HandlerThrows, Goto, ServerInv, TypeOK, BeforeInv, ReturnedInv, DescribeInv, ErrorInv,
          RespondInv, ReportInv, EscapedInv, DoneInv
  <1>. QED  BY <1>2, <1>3 DEF HandlerThrows, Goto

(* The answer of the handler is the first thing that is sent. *)
LEMMA AutoSendKeeps ==
  ASSUME ServerInv, AutoSend
  PROVE  ServerInv'
  <1>1. pc = "returned" /\ pc' = "describe" /\ sent = <<>> /\ outcome = Nothing
        /\ response \in Responses /\ response.code = Own /\ response.body # "error"
    BY DEF AutoSend, Goto, ServerInv, ReturnedInv, TypeOK
  <1>2. CASE autosend
    <2>1. response' = WithJsonHeaders(response) /\ sent' = Append(sent, response')
      BY <1>2 DEF AutoSend
    <2>2. response' \in Responses /\ Success(response')
      BY <1>1, <2>1, WithJsonHeadersMeasured DEF Success
    <2>3. sent' = <<response'>> /\ sent' \in Seq(Responses) /\ Len(sent') = 1 /\ sent'[1] = response'
      BY <1>1, <2>1, <2>2
    <2>4. Answered'
      BY <1>1, <1>2, <2>2, <2>3 DEF AutoSend, Answered, Success, Measured
    <2>. QED
      BY <1>1, <2>2, <2>3, <2>4
      DEF AutoSend, ServerInv, TypeOK, BeforeInv, ReturnedInv, DescribeInv, ErrorInv,
          RespondInv, ReportInv, EscapedInv, DoneInv
  <1>3. CASE ~autosend
    <2>1. UNCHANGED <<response, sent>> /\ LeftAlone'
      BY <1>1, <1>3 DEF AutoSend, LeftAlone
    <2>. QED
      BY <1>1, <2>1
      DEF AutoSend, ServerInv, TypeOK, BeforeInv, ReturnedInv, DescribeInv, ErrorInv,
          RespondInv, ReportInv, EscapedInv, DoneInv
  <1>. QED  BY <1>2, <1>3

(* The log of a success, or an exception of it that is caught like others. *)
LEMMA DescribeKeeps ==
  ASSUME ServerInv, Describe
  PROVE  ServerInv'
  <1>1. pc = "describe" /\ UNCHANGED <<fetching, autosend, response, sent, escaped, outcome>>
        /\ (Answered \/ LeftAlone)
    BY DEF Describe, Goto, ServerInv, DescribeInv
  <1>2. Answered' \/ LeftAlone'
    BY <1>1 DEF Answered, LeftAlone
  <1>3. CASE pc' = "done"
    BY <1>1, <1>2, <1>3
    DEF Describe, Goto, ServerInv, TypeOK, BeforeInv, ReturnedInv, DescribeInv, ErrorInv,
        RespondInv, ReportInv, EscapedInv, DoneInv
  <1>4. CASE pc' = "error"
    <2>1. thrown' = JsonError /\ log' = log
      BY <1>4 DEF Describe, Goto
    <2>. QED
      BY <1>1, <1>2, <1>4, <2>1, JsonErrorIsStd
      DEF ServerInv, TypeOK, BeforeInv, ReturnedInv, DescribeInv, ErrorInv,
          RespondInv, ReportInv, EscapedInv, DoneInv
  <1>. QED  BY <1>3, <1>4 DEF Describe, Goto

(* Of an exception a response is made, or its text cannot be printed. *)
LEMMA MakeErrorKeeps ==
  ASSUME ServerInv, MakeError
  PROVE  ServerInv'
  <1>1. /\ pc = "error" /\ UNCHANGED <<fetching, thrown, autosend, sent, log, outcome>>
        /\ thrown \in ServiceErrors \cup StdExceptions /\ thrown # Nothing
        /\ Failed \/ (thrown = JsonError /\ (Answered \/ LeftAlone))
    BY DEF MakeError, ServerInv, ErrorInv, TypeOK
  <1>2. /\ Failed' \/ (thrown' = JsonError /\ (Answered' \/ LeftAlone'))
        /\ thrown' \in ServiceErrors \cup StdExceptions /\ thrown' # Nothing
    BY <1>1 DEF Failed, Answered, LeftAlone
  <1>3. response' \in Responses /\ response'.code = CodeOf(thrown)
    <2>1. CodeOf(thrown) \in Codes \cup {Own, Internal}
      BY <1>1, Thrown
    <2>2. response \in Responses
      BY DEF ServerInv, TypeOK
    <2>3. response' = [response EXCEPT !.code = CodeOf(thrown),
                                       !.body = IF thrown.printable THEN "error" ELSE @]
      BY DEF MakeError, CodeOf
    <2>4. (IF thrown.printable THEN "error" ELSE response.body) \in Bodies
      BY <2>2 DEF Responses, Bodies
    <2>. QED  BY <2>1, <2>2, <2>3, <2>4 DEF Responses
  <1>4. CASE pc' = "respond"
    <2>1. thrown.printable /\ escaped' = escaped
      BY <1>4 DEF MakeError
    <2>. QED
      BY <1>1, <1>2, <1>3, <1>4, <2>1
      DEF ServerInv, TypeOK, BeforeInv, ReturnedInv, DescribeInv, ErrorInv, RespondInv,
          ReportInv, EscapedInv, DoneInv, CodeOf
  <1>5. CASE pc' = "done"
    <2>1. ~thrown.printable /\ escaped' = JsonError
      BY <1>5 DEF MakeError
    <2>2. Failed /\ outcome' = thrown /\ sent' = <<>>
      BY <1>1, <2>1, JsonErrorIsStd DEF Failed
    <2>3. Unprintable'
      BY <2>1, <2>2, JsonErrorIsStd DEF Unprintable
    <2>. QED
      BY <1>1, <1>2, <1>3, <1>5, <2>1, <2>3, JsonErrorIsStd
      DEF ServerInv, TypeOK, BeforeInv, ReturnedInv, DescribeInv, ErrorInv, RespondInv,
          ReportInv, EscapedInv, DoneInv
  <1>. QED  BY <1>4, <1>5 DEF MakeError

(* The error comes behind what was sent before. *)
LEMMA SendErrorKeeps ==
  ASSUME ServerInv, SendError
  PROVE  ServerInv'
  <1>1. /\ pc = "respond" /\ pc' = "report"
        /\ UNCHANGED <<fetching, thrown, autosend, log, escaped, outcome>>
        /\ thrown # Nothing
        /\ Failed \/ (thrown = JsonError /\ (Answered \/ LeftAlone))
        /\ response \in Responses /\ response.code = CodeOf(thrown)
        /\ sent \in Seq(Responses)
    BY DEF SendError, Goto, ServerInv, TypeOK, ErrorInv, RespondInv
  <1>2. /\ response' \in Responses /\ response'.code = CodeOf(thrown) /\ Measured(response')
        /\ sent' = Append(sent, response')
    BY <1>1, WithJsonHeadersMeasured DEF SendError
  <1>3. /\ sent' \in Seq(Responses) /\ Len(sent') = Len(sent) + 1
        /\ sent'[Len(sent')] = response'
        /\ Len(sent) = 1 => sent'[1] = sent[1]
    BY <1>1, <1>2
  <1>4. CASE sent = <<>>
    <2>1. Len(sent') = 1 /\ sent'[1] = response'
      BY <1>3, <1>4
    <2>2. outcome = thrown \/ (outcome = Nothing /\ ~autosend)
      BY <1>1, <1>4 DEF Failed, Answered, LeftAlone
    <2>. QED
      BY <1>1, <1>2, <1>3, <2>1, <2>2
      DEF ServerInv, TypeOK, BeforeInv, ReturnedInv, DescribeInv, ErrorInv, RespondInv,
          ReportInv, EscapedInv, DoneInv, ErrorSent, CodeOf, Measured
  <1>5. CASE Answered
    <2>1. Len(sent') = 2 /\ sent'[1] = sent[1]
      BY <1>3, <1>5 DEF Answered
    <2>2. ErrorSent'
      BY <1>1, <1>2, <1>3, <1>5, <2>1 DEF Answered, ErrorSent, CodeOf, Success, Measured
    <2>. QED
      BY <1>1, <1>2, <1>3, <2>1, <2>2
      DEF ServerInv, TypeOK, BeforeInv, ReturnedInv, DescribeInv, ErrorInv, RespondInv,
          ReportInv, EscapedInv, DoneInv
  <1>. QED  BY <1>1, <1>4, <1>5 DEF Failed, LeftAlone

(* What is thrown on is an exception of the types there are. *)
LEMMA ReportKeeps ==
  ASSUME ServerInv, Report
  PROVE  ServerInv'
  <1>1. /\ pc = "report" /\ pc' = "done"
        /\ UNCHANGED <<fetching, thrown, autosend, response, sent, outcome>>
        /\ ErrorSent /\ thrown \in ServiceErrors \cup StdExceptions
    BY DEF Report, Goto, ServerInv, ReportInv, TypeOK, ErrorSent
  <1>2. ErrorSent'
    BY <1>1 DEF ErrorSent, CodeOf, Success, Measured
  <1>3. Copy(thrown) \in ServiceErrors \cup StdExceptions
    <2>1. CASE thrown \in ServiceErrors
      BY <2>1 DEF Copy, ServiceErrors
    <2>2. CASE thrown \in StdExceptions
      BY <2>2 DEF Copy, StdExceptions
    <2>. QED  BY <1>1, <2>1, <2>2
  <1>4. escaped' \in ServiceErrors \cup StdExceptions \cup {Other, Nothing}
    BY <1>3, JsonErrorIsStd DEF Report
  <1>5. log' \in Seq({"info", "error"})
    BY SMTT(30) DEF Report, ServerInv, TypeOK
  <1>. QED
    BY <1>1, <1>2, <1>4, <1>5
    DEF ServerInv, TypeOK, BeforeInv, ReturnedInv, DescribeInv, ErrorInv, RespondInv,
        ReportInv, EscapedInv, DoneInv

(* Every step of the endpoint keeps its invariant. *)
LEMMA ServerInvNext == ServerInv /\ [Next]_vars => ServerInv'
  <1> SUFFICES ASSUME ServerInv, [Next]_vars PROVE ServerInv'
    OBVIOUS
  <1>1. CASE UNCHANGED vars
    <2>1. UNCHANGED <<pc, fetching, thrown, autosend, response, sent, log, escaped, outcome>>
      BY <1>1 DEF vars
    <2>2. UNCHANGED <<Failed, Answered, LeftAlone, ErrorSent, Unprintable>>
      BY <2>1 DEF Failed, Answered, LeftAlone, ErrorSent, Unprintable, CodeOf, Success, Measured
    <2>3. TypeOK'
      BY <2>1 DEF ServerInv, TypeOK
    <2>4. BeforeInv' /\ ReturnedInv' /\ RespondInv' /\ EscapedInv'
      BY <2>1 DEF ServerInv, BeforeInv, ReturnedInv, RespondInv, EscapedInv, CodeOf
    <2>5. DescribeInv' /\ ErrorInv' /\ ReportInv' /\ DoneInv'
      BY <2>1, <2>2 DEF ServerInv, DescribeInv, ErrorInv, ReportInv, DoneInv
    <2>. QED  BY <2>3, <2>4, <2>5 DEF ServerInv
  <1>. QED
    BY <1>1, FetchKeeps, ConstructKeeps, HandlerReturnsKeeps, HandlerThrowsKeeps, AutoSendKeeps,
       DescribeKeeps, MakeErrorKeeps, SendErrorKeeps, ReportKeeps DEF Next

-----------------------------------------------------------------------------
(* The client. *)

(* An answer that could be got can still be got: the first response stays   *)
(* the first, and who is not to be answered for stays so.                   *)
LEMMA AnswersStay ==
  ASSUME ServerInv, [Next]_vars
  PROVE  Answers \subseteq Answers'
  <1>1. CASE pc = "done"
    <2>1. UNCHANGED vars
      BY <1>1 DEF Next, Fetch, Construct, HandlerReturns, HandlerThrows, AutoSend, Describe,
                  MakeError, SendError, Report, Goto
    <2>. QED  BY <2>1 DEF vars, Answers
  <1>2. CASE pc # "done"
    <2>1. escaped = Nothing
      BY <1>2 DEF ServerInv, EscapedInv
    <2>2. ~autosend => ~autosend'
      <3> SUFFICES ASSUME ~autosend PROVE ~autosend'
        OBVIOUS
      <3>1. pc # "handler"
        BY DEF ServerInv, BeforeInv
      <3>. QED
        BY <3>1 DEF Next, Fetch, Construct, HandlerReturns, HandlerThrows, AutoSend, Describe,
                    MakeError, SendError, Report, Goto, vars
    <2>3. sent # <<>> => sent' # <<>> /\ Head(sent') = Head(sent)
      <3> SUFFICES ASSUME sent # <<>> PROVE sent' # <<>> /\ Head(sent') = Head(sent)
        OBVIOUS
      <3>1. sent \in Seq(Responses) /\ response \in Responses
        BY DEF ServerInv, TypeOK
      <3>2. WithJsonHeaders(response) \in Responses
        BY <3>1, WithJsonHeadersMeasured
      <3>3. sent' = sent \/ sent' = Append(sent, WithJsonHeaders(response))
        BY DEF Next, Fetch, Construct, HandlerReturns, HandlerThrows, AutoSend, Describe,
               MakeError, SendError, Report, vars
      <3>. QED  BY <3>1, <3>2, <3>3
    <2>. QED  BY <2>1, <2>2, <2>3 DEF Answers
  <1>. QED  BY <1>1, <1>2

LEMMA IInvInit == ExchangeInit => IInv
  BY ServerInvInit DEF ExchangeInit, IInv, ClientInv

LEMMA IInvNext == IInv /\ [ExchangeNext]_allVars => IInv'
  <1> SUFFICES ASSUME IInv, [ExchangeNext]_allVars PROVE IInv'
    OBVIOUS
  <1>1. [Next]_vars
    BY DEF ExchangeNext, Request, InitFails, SetUp, Arrive, Perform, PerformReturns, PerformFails,
           ThrowError, ReadAnswer, Serve, allVars
  <1>2. ServerInv' /\ Answers \subseteq Answers'
    BY <1>1, ServerInvNext, AnswersStay DEF IInv
  <1>3. ClientInv'
    <2> USE DEF IInv, ClientInv
    <2>1. CASE Serve \/ UNCHANGED allVars
      <3>1. UNCHANGED <<client, arrived, allocated, answer>>
        BY <2>1 DEF Serve, clientVars, allVars
      <3>. QED  BY <1>2, <3>1
    <2>2. CASE InitFails
      BY <1>2, <2>2 DEF InitFails, ClientGoto
    <2>3. CASE SetUp
      BY <1>2, <2>3 DEF SetUp, ClientGoto
    <2>4. CASE Arrive
      BY <1>2, <2>4 DEF Arrive
    <2>5. CASE PerformReturns
      <3>1. answer' \in Answers
        BY <2>5 DEF PerformReturns
      <3>. QED  BY <1>2, <2>5, <3>1 DEF PerformReturns, ClientGoto
    <2>6. CASE PerformFails
      BY <1>2, <2>6 DEF PerformFails, ClientGoto
    <2>7. CASE ThrowError
      BY <1>2, <2>7 DEF ThrowError, ClientGoto
    <2>8. CASE ReadAnswer
      BY <1>2, <2>8 DEF ReadAnswer, ClientGoto
    <2>. QED
      BY <2>1, <2>2, <2>3, <2>4, <2>5, <2>6, <2>7, <2>8 DEF ExchangeNext, Request, Perform
  <1>. QED  BY <1>2, <1>3 DEF IInv

(* The invariant holds in every reachable state of an exchange. *)
THEOREM Invariance == ExchangeSpec => []IInv
  BY IInvInit, IInvNext, PTL DEF ExchangeSpec

-----------------------------------------------------------------------------
(* What follows from it. *)

LEMMA DroppedNothing == ServerInv => NothingIsDropped
  <1> SUFFICES ASSUME ServerInv, pc = "done"
               PROVE  /\ sent # <<>> \/ escaped # Nothing \/ (outcome = Nothing /\ ~autosend)
                      /\ outcome.kind = "service" /\ outcome.printable =>
                           sent # <<>> /\ Last(sent).code = outcome.code
    BY DEF NothingIsDropped
  <1>1. CASE ErrorSent
    BY <1>1 DEF ErrorSent, CodeOf, Last, Nothing
  <1>2. CASE Answered \/ LeftAlone
    BY <1>2 DEF Answered, LeftAlone, Nothing
  <1>3. CASE Unprintable
    BY <1>3 DEF Unprintable
  <1>. QED  BY <1>1, <1>2, <1>3 DEF ServerInv, DoneInv

(* In every place of the endpoint, what was sent is one of four things. *)
LEMMA WhatIsSent ==
  ASSUME ServerInv
  PROVE  sent = <<>> \/ Answered \/ ErrorSent
  BY DEF ServerInv, TypeOK, BeforeInv, ReturnedInv, DescribeInv, ErrorInv, ReportInv, DoneInv,
         LeftAlone, Failed, Unprintable

(* The code of an error is never the one the handler leaves. *)
LEMMA ErrorCode ==
  ASSUME ServerInv, ErrorSent
  PROVE  sent[Len(sent)].code # Own
  <1>1. thrown \in ServiceErrors \cup StdExceptions
    BY DEF ServerInv, TypeOK, ErrorSent
  <1>2. CodeOf(thrown) \in Codes \cup {Internal}
    BY <1>1, Thrown
  <1>. QED  BY <1>2, CodesAssumption DEF ErrorSent

LEMMA ErrorsLast == ServerInv => ErrorsComeLast
  <1> SUFFICES ASSUME ServerInv, NEW i \in DOMAIN sent
               PROVE  /\ sent[i].code = Own => i = 1 /\ outcome = Nothing /\ autosend
                      /\ sent[i].code # Own => i = Len(sent)
                      /\ i = 1 /\ Len(sent[i].lengths) = 1 => sent[i].lengths[1] = sent[i].body
    BY DEF ErrorsComeLast
  <1>1. sent \in Seq(Responses)
    BY DEF ServerInv, TypeOK
  <1>2. i \in 1..Len(sent)
    BY <1>1
  <1>3. CASE Answered
    BY <1>2, <1>3 DEF Answered, Success, Measured
  <1>4. CASE ErrorSent
    <2>1. CASE Len(sent) = 1
      BY <1>2, <1>4, <2>1, ErrorCode DEF ErrorSent, Success, Measured
    <2>2. CASE Len(sent) = 2
      <3>1. i = 1 \/ i = 2
        BY <1>2, <2>2
      <3>. QED  BY <1>4, <2>2, <3>1, ErrorCode DEF ErrorSent, Success, Measured
    <2>. QED  BY <1>4, <2>1, <2>2 DEF ErrorSent
  <1>. QED  BY <1>2, <1>3, <1>4, WhatIsSent

(* While the handler answers for nobody else, its own first answer is not   *)
(* an error, and an error is there for its exception or for nothing.        *)
LEMMA ClientLearns == IInv => ClientLearnsTheOutcome
  <1> SUFFICES ASSUME IInv PROVE ClientLearnsTheOutcome
    OBVIOUS
  <1>1. ASSUME client = "returned", autosend
        PROVE  /\ answer.code = Own => outcome = Nothing /\ answer.body # "error"
               /\ answer.code # Own => outcome # Nothing \/ sent = <<>>
               /\ outcome.kind = "service" /\ outcome.printable => answer.code = outcome.code
    <2>1. \/ sent # <<>> /\ answer = Answer(Head(sent))
          \/ sent = <<>> /\ escaped # Nothing /\ answer = OfRestbed
      BY <1>1 DEF IInv, ClientInv, Answers
    <2>2. CASE sent = <<>> /\ escaped # Nothing /\ answer = OfRestbed
      <3>1. NothingIsDropped /\ pc = "done"
        BY <2>2, DroppedNothing DEF IInv, ServerInv, EscapedInv
      <3>2. answer.code # Own
        BY <2>2, CodesAssumption DEF OfRestbed
      <3>. QED  BY <2>2, <3>1, <3>2 DEF NothingIsDropped
    <2>3. CASE sent # <<>> /\ answer = Answer(Head(sent))
      <3>1. /\ sent \in Seq(Responses) /\ Head(sent) = sent[1]
            /\ answer.code = sent[1].code /\ answer.body = sent[1].body
        BY <2>3 DEF Answer, IInv, ServerInv, TypeOK
      <3>2. CASE Answered
        BY <3>1, <3>2 DEF Answered, Success, Nothing
      <3>3. CASE ErrorSent /\ Len(sent) = 2
        BY <3>1, <3>3 DEF ErrorSent, Success, Nothing
      <3>4. CASE ErrorSent /\ Len(sent) = 1
        <4>1. outcome = thrown /\ answer.code = CodeOf(thrown) /\ thrown # Nothing
          BY <1>1, <3>1, <3>4 DEF ErrorSent
        <4>2. answer.code # Own
          BY <3>1, <3>4, ErrorCode DEF IInv
        <4>. QED  BY <4>1, <4>2 DEF CodeOf
      <3>. QED  BY <2>3, <3>2, <3>3, <3>4, WhatIsSent DEF IInv, ErrorSent
    <2>. QED  BY <2>1, <2>2, <2>3
  <1>2. client = "returned" \/ (client = "threw" /\ arrived) => allocated \subseteq {"headers"}
    BY DEF IInv, ClientInv
  <1>. QED  BY <1>1, <1>2 DEF ClientLearnsTheOutcome

(* The state of an exchange is always of its type. *)
THEOREM TypeCorrect == ExchangeSpec => []TypeOK
  <1>1. IInv => TypeOK
    BY DEF IInv, ServerInv
  <1>. QED  BY <1>1, Invariance, PTL

(* Every request is answered, by the endpoint, the handler or restbed, and  *)
(* a service_error with its code.                                           *)
THEOREM NoRequestIsDropped == ExchangeSpec => []NothingIsDropped
  <1>1. IInv => NothingIsDropped
    BY DroppedNothing DEF IInv
  <1>. QED  BY <1>1, Invariance, PTL

(* Nothing is sent behind an error, and nothing for a handler that is not   *)
(* to be answered for.                                                      *)
THEOREM NothingFollowsAnError == ExchangeSpec => []ErrorsComeLast
  <1>1. IInv => ErrorsComeLast
    BY ErrorsLast DEF IInv
  <1>. QED  BY <1>1, Invariance, PTL

(* The answer a client gets tells it what its request has come to, however  *)
(* long the endpoint goes on, and its handle is freed.                      *)
THEOREM OutcomeIsLearnt == ExchangeSpec => []ClientLearnsTheOutcome
  <1>1. IInv => ClientLearnsTheOutcome
    BY ClientLearns
  <1>. QED  BY <1>1, Invariance, PTL

=============================================================================
