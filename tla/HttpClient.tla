----------------------------- MODULE HttpClient -----------------------------
(***************************************************************************)
(* http_client::send_dispatched: one transfer by libcurl, in the thread of *)
(* the task that runs it.  A dispatcher runs one task at a time, so there  *)
(* is one transfer at most.                                                *)
(*                                                                         *)
(* The server answers with messages, of which all but the last are         *)
(* redirections: libcurl follows them and keeps their bodies to itself,    *)
(* but it hands over the lines of every header.  Each line, and each piece *)
(* of the last body, is a call of write_header or write_data, which begin  *)
(* with an interruption point of the client's connection.                  *)
(*                                                                         *)
(* A header line is the number of its message, a piece of the body its     *)
(* place in it, and the status code of a message is its number.            *)
(***************************************************************************)
EXTENDS Naturals, Sequences

CONSTANTS MaxMessages,  (* bound on the messages of an answer              *)
          MaxHeaders,   (* bound on the headers of a message               *)
          MaxPieces     (* bound on the pieces of a body                   *)

ASSUME AnswerAssumption == {MaxMessages, MaxHeaders, MaxPieces} \subseteq Nat

VARIABLES
  transfer,  (* where send_dispatched is, "none" if no request runs        *)
  served,    (* what the server has sent of its answer                     *)
  resp       (* http_client_data::resp                                     *)

transferVars == <<transfer, served, resp>>

Answer == [headers : Seq(Nat), body : Seq(Nat), code : Nat]
Empty == [headers |-> << >>, body |-> << >>, code |-> 0]

InCallback == {"status", "header", "piece"}

TransferTypeOK ==
  /\ transfer \in {"none", "init", "perform", "returned"} \cup InCallback
  /\ served \in Answer
  /\ resp \in Answer

TransferInit == transfer = "none" /\ served = Empty /\ resp = Empty

Goto(label) == transfer' = label
-----------------------------------------------------------------------------
(* curl_object::init succeeds, and the options are set.                    *)
Prepare ==
  /\ transfer = "init"
  /\ Goto("perform")
  /\ UNCHANGED <<served, resp>>

(* The server's next line or piece, which libcurl hands to a callback.     *)
Arrive(kind, answer) ==
  /\ transfer = "perform"
  /\ Goto(kind)
  /\ served' = answer
  /\ UNCHANGED resp

(* A status line: the first, or that of the message after a redirection.   *)
StatusLine ==
  /\ served.code < MaxMessages
  /\ served.body = << >>
  /\ Arrive("status", [served EXCEPT !.code = @ + 1])

HeaderLine ==
  /\ served.code > 0
  /\ served.body = << >>
  /\ Len(SelectSeq(served.headers, LAMBDA m : m = served.code)) < MaxHeaders
  /\ Arrive("header", [served EXCEPT !.headers = Append(@, served.code)])

Piece ==
  /\ served.code > 0
  /\ Len(served.body) < MaxPieces
  /\ Arrive("piece", [served EXCEPT !.body = Append(@, Len(@) + 1)])

(* What write_header and write_data make of the response: a status line    *)
(* has no colon, and add_header_str drops it.                              *)
AddHeader == [resp EXCEPT !.headers = Append(@, served.code)]
AddPiece == [resp EXCEPT !.body = Append(@, Len(served.body))]
Added == CASE transfer = "header" -> AddHeader
           [] transfer = "piece" -> AddPiece
           [] transfer = "status" -> resp

(* Fault: an interrupted callback returns instead of throwing.             *)
WriteOrSkip(cut) ==
  /\ transfer \in InCallback
  /\ resp' = IF cut THEN resp ELSE Added
  /\ Goto("perform")
  /\ UNCHANGED served

(* A callback whose interruption point does not throw.                     *)
Write(cut) ==
  /\ transfer \in InCallback
  /\ ~cut
  /\ resp' = Added
  /\ Goto("perform")
  /\ UNCHANGED served

(* curl_object::perform returns at the end of an answer, and set_code.     *)
Perform ==
  /\ transfer = "perform"
  /\ served.code > 0
  /\ resp' = [resp EXCEPT !.code = served.code]
  /\ Goto("returned")
  /\ UNCHANGED served

Transfer(cut) == Prepare \/ StatusLine \/ HeaderLine \/ Piece \/ Write(cut) \/ Perform

(* How a transfer can end: with the response; with connection_interrupted, *)
(* thrown through libcurl; or with an http_exception, of which a pointer   *)
(* is thrown, when libcurl cannot start or gives up.                       *)
EndsWith(result, cut) ==
  \/ result = "value" /\ transfer = "returned"
  \/ result = "interrupted" /\ transfer \in InCallback /\ cut
  \/ result = "error" /\ transfer \in {"init", "perform"}

-----------------------------------------------------------------------------
(* A response is the server's whole answer: the code and the body of its   *)
(* last message, and the headers of all of its messages, redirections      *)
(* first, each in the order in which they were sent.                       *)
WholeResponse == transfer = "returned" => resp = served
=============================================================================
