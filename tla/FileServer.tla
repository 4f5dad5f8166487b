----------------------------- MODULE FileServer ------------------------------
(***************************************************************************)
(* LocalDatasetServer: a file of the dataset, or one range of it, is sent  *)
(* to the visualizer.  The size is read before the body, and the dataset   *)
(* may be rewritten, replaced or removed in between.  Whatever fails once  *)
(* the head is out ends in send_error, which writes a second response into *)
(* the announced body.  Sizes are in copy buffers.                         *)
(***************************************************************************)
EXTENDS Naturals, Optional

CONSTANTS
  MaxSize,     \* bound of the model: sizes and numbers in a header
  Headers      \* Range headers: see HeaderType

(* A header that is absent, or asks for the bytes from first to last, or   *)
(* for the last so many (first not given), or is anything else.            *)
HeaderType == [kind: {"none", "range", "malformed"},
               first: Nat \cup {NotGiven}, last: Nat \cup {NotGiven}]

ASSUME FileServerAssumption == MaxSize \in Nat /\ Headers \subseteq HeaderType

VARIABLES
  header,      \* the request
  method,      \* "GET" or "HEAD"
  stored,      \* size of the file at the path now, or Gone
  size,        \* st_size, as the handler has seen it
  reply,       \* status, and the range and length it has announced
  body,        \* "due", "open", "over"; "spoilt": an error page came after
  opened,      \* size of the file that is open
  sent         \* number of bytes of the file sent so far

serverVars == <<header, method, stored, size, reply, body, opened, sent>>

Gone == NotGiven

Least(a, b) == IF a < b THEN a ELSE b
Unknown == [status |-> 0, from |-> 0, length |-> 0]

ServerInit ==
  /\ header \in Headers /\ method \in {"GET", "HEAD"}
  /\ stored \in 0 .. MaxSize
  /\ size = 0 /\ reply = Unknown /\ body = "due" /\ opened = 0 /\ sent = 0

(* No file, or one whose stat fails: a plain error response.               *)
RefuseFile ==
  /\ reply.status = 0
  /\ \E status \in {404, 500} :
       /\ status = 404 => stored = Gone
       /\ reply' = [status |-> status, from |-> 0, length |-> 0]
  /\ UNCHANGED <<header, method, stored, size, body, opened, sent>>

Suffix == header.first = NotGiven

(* Mutant: the end of the range is taken as it is given.                   *)
EndUnclipped ==
  IF Suffix \/ header.last = NotGiven THEN stored ELSE header.last + 1

(* One behind the last byte: a range may end behind the file.              *)
End == IF Suffix \/ header.last = NotGiven THEN stored
       ELSE Least(stored, header.last + 1)

Start == IF ~Suffix THEN header.first
         ELSE IF header.last <= stored THEN stored - header.last ELSE 0

Unsatisfiable ==
  \/ header.kind = "malformed"
  \/ header.kind = "range" /\ Suffix /\ header.last \in {0, NotGiven}
  \/ header.kind = "range" /\ ~Suffix /\ (header.first >= stored \/ End <= header.first)

Reject ==
  /\ reply.status = 0 /\ stored # Gone /\ Unsatisfiable
  /\ size' = stored
  /\ reply' = [status |-> 416, from |-> 0, length |-> 0]
  /\ UNCHANGED <<header, method, stored, body, opened, sent>>

Accept ==
  /\ reply.status = 0 /\ stored # Gone /\ ~Unsatisfiable
  /\ size' = stored
  /\ reply' = IF header.kind = "none"
              THEN [status |-> 200, from |-> 0, length |-> stored]
              ELSE [status |-> 206, from |-> Start, length |-> End - Start]
  /\ UNCHANGED <<header, method, stored, body, opened, sent>>

(* The body is due: not for HEAD, and not without a byte to send.          *)
Due == reply.status \in {200, 206} /\ method = "GET" /\ reply.length > 0

OpenFile ==
  /\ Due /\ body = "due" /\ stored # Gone
  /\ body' = "open" /\ opened' = stored
  /\ UNCHANGED <<header, method, stored, size, reply, sent>>

SendBuffer ==
  /\ body = "open" /\ sent < reply.length /\ reply.from + sent < opened
  /\ sent' = sent + 1
  /\ UNCHANGED <<header, method, stored, size, reply, body, opened>>

(* The body ends early where the file has become shorter.                  *)
EndBody ==
  /\ body = "open" /\ (sent = reply.length \/ reply.from + sent >= opened)
  /\ body' = "over"
  /\ UNCHANGED <<header, method, stored, size, reply, opened, sent>>

(* The file cannot be opened, because it is gone or for another reason, or *)
(* a read fails.                                                           *)
FailBody ==
  /\ Due /\ body \in {"due", "open"} /\ sent < reply.length
  /\ body' = "spoilt"
  /\ UNCHANGED <<header, method, stored, size, reply, opened, sent>>

(* Somebody removes, replaces or rewrites the file; one that is rewritten  *)
(* in place is the one that is open.                                       *)
ReplaceFile ==
  /\ stored' \in 0 .. MaxSize \cup {Gone}
  /\ opened' \in {opened} \cup (IF body = "open" /\ stored' # Gone
                                THEN {stored'} ELSE {})
  /\ UNCHANGED <<header, method, size, reply, body, sent>>

ServerNext ==
  \/ RefuseFile \/ Reject \/ Accept
  \/ OpenFile \/ SendBuffer \/ EndBody \/ FailBody
  \/ ReplaceFile

ServerSpec == ServerInit /\ [][ServerNext]_serverVars
-----------------------------------------------------------------------------
(* A range, as the header defines it: positions of the file it asks for.   *)
Asked ==
  {i \in 0 .. size - 1 :
     \/ header.kind = "none"
     \/ header.kind = "range" /\ header.first # NotGiven /\ header.first <= i
          /\ (header.last = NotGiven \/ i <= header.last)
     \/ header.kind = "range" /\ header.first = NotGiven
          /\ header.last # NotGiven /\ i + header.last >= size}

(* What is announced is what was asked for, as far as the file has it: no  *)
(* byte more or less, at any size and any boundary; a range without a byte *)
(* is rejected, except that of the end of an empty file.  Whatever becomes *)
(* of the file, no more of it is sent than announced, and the page of an   *)
(* error that comes after the head only ever stands where bytes of the     *)
(* file are missing: never behind a whole body, nor in a reply to HEAD or  *)
(* one without a body.                                                     *)
RangesAreExact ==
  /\ reply.status \in {200, 206} =>
       /\ reply.from .. (reply.from + reply.length) - 1 = Asked
       /\ sent <= reply.length
       /\ reply.status = 206 /\ Asked = {} => size = 0
  /\ reply.status = 416 => Asked = {}
  /\ body = "spoilt" => Due /\ sent < reply.length
  /\ ~Due => body = "due" /\ sent = 0
=============================================================================
