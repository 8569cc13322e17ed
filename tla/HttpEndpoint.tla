----------------------------- MODULE HttpEndpoint -----------------------------
(***************************************************************************)
(* HTTP::HttpEndpoint (http_endpoint.hpp): what set_method_handler and      *)
(* set_method_handler_with_content make of one request.  The two differ in  *)
(* that the second fetches the content first.  The handler is the client's: *)
(* it fills the response, says whether it is to be sent for it, and returns *)
(* or throws.  The endpoint sends and logs, and turns exceptions into       *)
(* responses.                                                               *)
(*                                                                          *)
(* Texts that are no valid UTF-8 cannot be dumped as JSON: the description  *)
(* of the request (create_message) and the text of an exception may throw   *)
(* in turn.  What leaves the handler of the endpoint goes to restbed.       *)
(***************************************************************************)
EXTENDS Naturals, Sequences, SequencesExt

CONSTANTS Codes,     (* the codes a service_error may carry               *)
          Own,       (* stands for the code the handler leaves            *)
          Internal   (* INTERNAL_SERVER_ERROR, of service_error itself    *)

ASSUME CodesAssumption == Own \notin Codes \cup {Internal}

VARIABLES pc,        (* where the endpoint is                             *)
          fetching,  (* whether the content is to be fetched first        *)
          thrown,    (* the exception under way, as Nothing or a record   *)
          autosend,  (* the flag autosend                                 *)
          response,  (* the HttpResponse                                  *)
          sent,      (* the responses given to session->close             *)
          log,       (* the levels of what was logged                     *)
          escaped,   (* the exception restbed gets, as Nothing or a record *)
          outcome    (* what the handler did                              *)

vars == <<pc, fetching, thrown, autosend, response, sent, log, escaped, outcome>>

(* A service_error has a code and says whether it is to be raised; the text *)
(* of it or of a std::exception may be valid UTF-8 or not.  Anything else    *)
(* may be thrown as well.                                                   *)
ServiceErrors ==
  [kind : {"service"}, code : Codes \cup {Internal}, raise : BOOLEAN, printable : BOOLEAN]
StdExceptions == [kind : {"std"}, printable : BOOLEAN]
Nothing == [kind |-> "nothing"]
Other == [kind |-> "other"]
JsonError == [kind |-> "std", printable |-> TRUE]

(* "throw ex" throws a copy of the type the catch clause names: get_code    *)
(* and raise are those of service_error, the text of an std::exception is   *)
(* the one of the class.                                                    *)
Copy(e) == IF e.kind = "service"
           THEN [e EXCEPT !.code = Internal, !.raise = FALSE]
           ELSE [kind |-> "std", printable |-> TRUE]

Bodies == {"", "answer", "error"}
Responses == [code : Codes \cup {Own, Internal}, body : Bodies, lengths : Seq(Bodies)]

TypeOK == /\ pc \in {"fetch", "construct", "handler", "returned", "describe", "error",
                     "respond", "report", "done"}
          /\ fetching \in BOOLEAN /\ autosend \in BOOLEAN
          /\ thrown \in ServiceErrors \cup StdExceptions \cup {Nothing}
          /\ response \in Responses
          /\ sent \in Seq(Responses) /\ Len(sent) <= 2
          /\ log \in Seq({"info", "error"})
          /\ escaped \in ServiceErrors \cup StdExceptions \cup {Other, Nothing}
          /\ outcome \in ServiceErrors \cup StdExceptions \cup {Other, Nothing}

(* The response as it is constructed; lengths are its Content-Length headers. *)
Init == /\ fetching \in BOOLEAN
        /\ pc = IF fetching THEN "fetch" ELSE "construct"
        /\ thrown = Nothing /\ autosend = TRUE
        /\ response = [code |-> Own, body |-> "", lengths |-> <<>>]
        /\ sent = <<>> /\ log = <<>>
        /\ escaped = Nothing /\ outcome = Nothing

Goto(from, to) == pc = from /\ pc' = to

(* session->fetch calls back when the content is there, or never. *)
Fetch == /\ Goto("fetch", "construct")
         /\ UNCHANGED <<fetching, thrown, autosend, response, sent, log, escaped, outcome>>

(* The service is constructed before the try block. *)
Construct == /\ \/ Goto("construct", "handler") /\ UNCHANGED escaped
                \/ Goto("construct", "done") /\ escaped' \in StdExceptions
             /\ UNCHANGED <<fetching, thrown, autosend, response, sent, log, outcome>>

(* The handler fills the response, with a Content-Length or without.  It    *)
(* may have done so when it throws.                                         *)
HandlerFills == /\ autosend' \in BOOLEAN
                /\ \E body \in {"", "answer"}, own \in BOOLEAN :
                      response' = [response EXCEPT !.body = body,
                                                   !.lengths = IF own THEN <<body>> ELSE <<>>]

HandlerReturns == /\ Goto("handler", "returned")
                  /\ HandlerFills
                  /\ UNCHANGED <<fetching, thrown, sent, log, escaped, outcome>>

HandlerThrows == /\ \/ /\ Goto("handler", "error")
                       /\ thrown' \in ServiceErrors \cup StdExceptions
                       /\ outcome' = thrown'
                       /\ UNCHANGED escaped
                    \/ /\ Goto("handler", "done")
                       /\ outcome' = Other /\ escaped' = Other
                       /\ UNCHANGED thrown
                 /\ HandlerFills
                 /\ UNCHANGED <<fetching, sent, log>>

(* init_json_content_headers inserts into a multimap. *)
WithJsonHeaders(r) == [r EXCEPT !.lengths = Append(@, r.body)]

(* Mutant: a response is sent whatever the handler says. *)
SendAlways == /\ Goto("returned", "describe")
              /\ response' = WithJsonHeaders(response)
              /\ sent' = Append(sent, response')
              /\ UNCHANGED <<fetching, thrown, autosend, log, escaped, outcome>>

AutoSend == /\ Goto("returned", "describe")
            /\ \/ /\ autosend
                  /\ response' = WithJsonHeaders(response)
                  /\ sent' = Append(sent, response')
               \/ ~autosend /\ UNCHANGED <<response, sent>>
            /\ UNCHANGED <<fetching, thrown, autosend, log, escaped, outcome>>

(* create_message and the log, still in the try block. *)
Describe == /\ \/ Goto("describe", "done") /\ log' = Append(log, "info") /\ UNCHANGED thrown
               \/ Goto("describe", "error") /\ thrown' = JsonError /\ UNCHANGED log
            /\ UNCHANGED <<fetching, autosend, response, sent, escaped, outcome>>

(* Mutant: what cannot be printed is left out, and nothing is sent. *)
MakeErrorOrNot ==
  /\ pc = "error" /\ pc' = IF thrown.printable THEN "respond" ELSE "done"
  /\ response' = [response EXCEPT !.code = IF thrown.kind = "service" THEN thrown.code ELSE Internal,
                                  !.body = "error"]
  /\ UNCHANGED <<fetching, thrown, autosend, sent, log, escaped, outcome>>

(* Mutant: the code of the response is left as it is. *)
MakeErrorWithoutCode ==
  /\ pc = "error"
  /\ response' = [response EXCEPT !.body = IF thrown.printable THEN "error" ELSE @]
  /\ \/ thrown.printable /\ pc' = "respond" /\ UNCHANGED escaped
     \/ ~thrown.printable /\ pc' = "done" /\ escaped' = JsonError
  /\ UNCHANGED <<fetching, thrown, autosend, sent, log, outcome>>

(* create_error_response in the catch block; dump throws out of it. *)
MakeError ==
  /\ pc = "error"
  /\ response' = [response EXCEPT !.code = IF thrown.kind = "service" THEN thrown.code ELSE Internal,
                                  !.body = IF thrown.printable THEN "error" ELSE @]
  /\ \/ thrown.printable /\ pc' = "respond" /\ UNCHANGED escaped
     \/ ~thrown.printable /\ pc' = "done" /\ escaped' = JsonError
  /\ UNCHANGED <<fetching, thrown, autosend, sent, log, outcome>>

SendError == /\ Goto("respond", "report")
             /\ response' = WithJsonHeaders(response)
             /\ sent' = Append(sent, response')
             /\ UNCHANGED <<fetching, thrown, autosend, log, escaped, outcome>>

(* create_message and the log in the catch block, then the rethrow; an      *)
(* exception of create_message leaves the block in its stead.               *)
Report ==
  /\ Goto("report", "done")
  /\ \/ /\ log' = Append(log, IF thrown.kind = "service" THEN "info" ELSE "error")
        /\ escaped' = IF thrown.kind = "service" /\ ~thrown.raise THEN Nothing
                      ELSE Copy(thrown)
     \/ escaped' = JsonError /\ UNCHANGED log
  /\ UNCHANGED <<fetching, thrown, autosend, response, sent, outcome>>

Next == \/ Fetch \/ Construct \/ HandlerReturns \/ HandlerThrows \/ AutoSend
        \/ Describe \/ MakeError \/ SendError \/ Report

Spec == Init /\ [][Next]_vars
-----------------------------------------------------------------------------
(* No request is dropped: it is answered, or the handler has said that it   *)
(* answers it, or restbed gets an exception.  The last response carries the *)
(* code of the service_error that the handler threw, if its text can be put *)
(* into a response.                                                         *)
NothingIsDropped ==
  pc = "done" =>
    /\ sent # <<>> \/ escaped # Nothing \/ (outcome = Nothing /\ ~autosend)
    /\ outcome.kind = "service" /\ outcome.printable =>
         sent # <<>> /\ Last(sent).code = outcome.code

(* A response is sent on behalf of a handler that returned and asked for    *)
(* it, an error is the last thing that is sent, and the first thing has one *)
(* Content-Length, its own, unless the handler set one.                     *)
ErrorsComeLast ==
  \A i \in DOMAIN sent :
     /\ sent[i].code = Own => i = 1 /\ outcome = Nothing /\ autosend
     /\ sent[i].code # Own => i = Len(sent)
     /\ i = 1 /\ Len(sent[i].lengths) = 1 => sent[i].lengths[1] = sent[i].body
=============================================================================
