---------------------------- MODULE HttpExchange ----------------------------
(***************************************************************************)
(* A request of libcurl::request (libcurl.hpp) to an HttpEndpoint, between  *)
(* them libcurl, the network and restbed.                                   *)
(*                                                                          *)
(* The client performs the request with a handle of its own and a timeout,  *)
(* and makes a Response of what it got; the endpoint handles the request    *)
(* and may do so long after the client has given up.  The client gets the   *)
(* first answer that the session was closed with: restbed answers itself    *)
(* when an exception leaves the handler of the endpoint and nothing was     *)
(* sent, and what is sent to a closed session goes nowhere.  How the        *)
(* headers of the answer are read is the subject of Headers.                *)
(***************************************************************************)
EXTENDS HttpEndpoint

VARIABLES client,    (* where the client is                                *)
          arrived,   (* whether the request reached the server              *)
          allocated, (* what libcurl has allocated for the client           *)
          answer     (* what the client got, as Nothing or a response       *)

clientVars == <<client, arrived, allocated, answer>>
allVars == <<vars, clientVars>>

(* The code and the body of a response. *)
Answer(r) == [kind |-> "answer", code |-> r.code, body |-> r.body]
OfRestbed == [kind |-> "answer", code |-> Internal, body |-> ""]
OfHandler == [kind |-> "answer", code |-> Own, body |-> "answer"]

ExchangeTypeOK ==
  /\ TypeOK
  /\ client \in {"begin", "perform", "failed", "read", "returned", "threw", "terminated"}
  /\ arrived \in BOOLEAN
  /\ allocated \in SUBSET {"curl", "headers"}
  /\ answer = Nothing \/ answer \in [kind : {"answer"}, code : Codes \cup {Own, Internal},
                                     body : Bodies]

ExchangeInit == /\ Init
                /\ client = "begin" /\ arrived = FALSE
                /\ allocated = {} /\ answer = Nothing

ClientGoto(from, to) == client = from /\ client' = to

(* curl_easy_init returns nothing. *)
InitFails == /\ ClientGoto("begin", "threw")
             /\ UNCHANGED <<vars, arrived, allocated, answer>>

(* The handle, the list of headers, if there are any, and the options.  A   *)
(* header that cannot be formatted throws and frees nothing.                *)
SetUp == /\ \/ ClientGoto("begin", "perform") /\ allocated' \in {{"curl"}, {"curl", "headers"}}
            \/ ClientGoto("begin", "threw") /\ allocated' \in {{"curl"}, {"curl", "headers"}}
         /\ UNCHANGED <<vars, arrived, answer>>

(* curl_easy_perform, as far as the server. *)
Arrive == /\ client = "perform" /\ ~arrived
          /\ arrived' = TRUE
          /\ UNCHANGED <<vars, client, allocated, answer>>

(* What restbed sends the client, if anything: a handler that is not to be  *)
(* answered for closes the session itself, before or after it returns.      *)
Answers ==
  (IF sent # <<>> THEN {Answer(Head(sent))} ELSE {})
    \cup (IF sent = <<>> /\ escaped # Nothing THEN {OfRestbed} ELSE {})
    \cup (IF ~autosend THEN {OfHandler} ELSE {})

PerformReturns == /\ ClientGoto("perform", "read")
                  /\ arrived /\ answer' \in Answers
                  /\ UNCHANGED <<vars, arrived, allocated>>

(* Mutant: no timeout; a connection that is lost is noticed. *)
PerformFailsLost == /\ ClientGoto("perform", "failed")
                    /\ ~arrived
                    /\ UNCHANGED <<vars, arrived, allocated, answer>>

(* No connection, one that is lost, or CURLOPT_TIMEOUT, at any time. *)
PerformFails == /\ ClientGoto("perform", "failed")
                /\ UNCHANGED <<vars, arrived, allocated, answer>>

(* curl_easy_cleanup, then curl_error.  The headers are freed by nobody. *)
ThrowError == /\ ClientGoto("failed", "threw")
              /\ allocated' = allocated \ {"curl"}
              /\ UNCHANGED <<vars, arrived, answer>>

(* The constructor of Response ends the program on a line without a colon.  *)
ReadAnswer == /\ \/ ClientGoto("read", "returned") /\ allocated' = allocated \ {"curl"}
                 \/ ClientGoto("read", "terminated") /\ UNCHANGED allocated
              /\ UNCHANGED <<vars, arrived, answer>>

(* The endpoint works on a request that has arrived. *)
Serve == arrived /\ Next /\ UNCHANGED clientVars

Perform == PerformReturns \/ PerformFails

Request == InitFails \/ SetUp \/ Arrive \/ Perform \/ ThrowError \/ ReadAnswer

ExchangeNext == Request \/ Serve

ExchangeSpec == ExchangeInit /\ [][ExchangeNext]_allVars

(* The client runs, and its timeout expires; a handler may take for ever. *)
FairSpec == ExchangeSpec /\ WF_allVars(Request)
-----------------------------------------------------------------------------
(* A client that gets an answer learns what became of its request, unless   *)
(* the handler answers by itself: the answer of a handler is that of one    *)
(* which returned, and an error that of one which threw, with the code of   *)
(* its service_error, or of a service that could not be constructed.  A     *)
(* client that gets no answer has freed its handle, and nothing says what   *)
(* the handler did or will do.                                              *)
ClientLearnsTheOutcome ==
  /\ client = "returned" /\ autosend =>
       /\ answer.code = Own => outcome = Nothing /\ answer.body # "error"
       /\ answer.code # Own => outcome # Nothing \/ sent = <<>>
       /\ outcome.kind = "service" /\ outcome.printable => answer.code = outcome.code
  /\ client = "returned" \/ (client = "threw" /\ arrived) => allocated \subseteq {"headers"}

(* A request ends, whatever the handler does.  *)
RequestEnds == <>(client \in {"returned", "threw", "terminated"})
=============================================================================
