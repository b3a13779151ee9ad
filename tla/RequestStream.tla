---------------------------- MODULE RequestStream ----------------------------
(***************************************************************************)
(* From the bytes of a connection to the requests that are handled: recv   *)
(* in func_http and the parsing at the top of handle_request (main.cpp).   *)
(* recv returns some of what has arrived: it may end anywhere, inside the  *)
(* path of a request as well, and hold several.  Whatever it returns is    *)
(* numbered, answered and parsed as one request from its first cell on, in *)
(* a buffer of zeros.  Method and Prefix are short stand-ins for "POST "   *)
(* and "/collect_energy/"; a cell is a character.                          *)
(*                                                                         *)
(* The client is external: it sends a request when it has an answer for    *)
(* every earlier one, and takes any answer for that of the oldest.  TCP    *)
(* delivers in order.                                                      *)
(***************************************************************************)
EXTENDS Integers, Sequences, FiniteSets, SequencesExt

CONSTANTS
    Chars,    \* the cells that user ids and tails are made of
    Names,    \* user ids, as sequences of cells
    Ids,      \* row ids
    Tails,    \* what follows the path: the version, headers, a body
    Other,    \* a request for another path
    MaxSent   \* bound on the requests sent

Blank  == {" ", "\r", "\n"}
NUL    == "\\0"
Digit  == <<"0", "1", "2", "3", "4", "5", "6", "7", "8", "9">>
Digits == ToSet(Digit)
Method == <<"P", " ">>
Prefix == <<"/", "c", "/">>

Requests == [user : Names, id : Ids] \cup {Other}

Decimal(n) ==
    LET decimal[k \in 0 .. n] ==
            IF k < 10 THEN <<Digit[k + 1]>>
                      ELSE Append(decimal[k \div 10], Digit[(k % 10) + 1])
    IN  decimal[n]

\* A request as sent, up to the end of its path.
Encode(r) ==
    Method \o IF r = Other THEN <<"/", "x">>
              ELSE Prefix \o r.user \o <<"/">> \o Decimal(r.id)

\* A line that ends inside a name is copied for as many cells as the line has, 21 more
\* than of the name, into user_id[64]; ids are those of rows, which an int holds; the
\* prefix is nowhere else in a request.
ASSUME StreamAssumption ==
    /\ Names \subseteq Seq(Chars) /\ Tails \subseteq Seq(Chars)
    /\ \A n \in Names : Len(n) \in 1 .. 43 /\ ToSet(n) \cap (Blank \cup {"/", NUL}) = {}
    /\ Ids \subseteq 1 .. 2^30 + (2^30 - 1)
    /\ \A x \in Tails : x # <<>> /\ x[1] \in Blank
    /\ \A r \in Requests, x \in Tails :
          LET s == Encode(r) \o x
          IN  \A i \in 0 .. Len(s) - Len(Prefix) :
                 SubSeq(s, i + 1, i + Len(Prefix)) = Prefix => i = Len(Method)
    /\ Other \notin [user : Names, id : Ids]
    /\ MaxSent \in Nat

-----------------------------------------------------------------------------
\* The cells of s before the first one out of set C.
Until(s, C) ==
    LET hits == {i \in DOMAIN s : s[i] \in C}
    IN  IF hits = {} THEN s ELSE SubSeq(s, 1, Min(hits) - 1)

From(s, i) == SubSeq(s, i, Len(s))

\* The first blank is overwritten with NUL.
CutAtBlank(s) ==
    LET i == Len(Until(s, Blank)) + 1 IN IF i <= Len(s) THEN [s EXCEPT ![i] = NUL] ELSE s

\* The number that digits stand for.
Value(digits) ==
    LET value[k \in 0 .. Len(digits)] ==
            IF k = 0 THEN 0
                     ELSE 10 * value[k - 1] + (CHOOSE d \in 0 .. 9 : Digit[d + 1] = digits[k])
    IN  value[Len(digits)]

\* Variant: the text is taken to be one digit long.
StrtolDigit(s) == Value(Until(SubSeq(s, 1, 1), ToSet(s) \ Digits))

\* The number at the start of s, 0 if there is none; the id of a request follows the
\* slash at once, with no sign.
Strtol(s) == Value(Until(s, ToSet(s) \ Digits))

\* What handle_request makes of a line when the path follows after method cells.
ParseAfter(method, line) ==
    LET text == CutAtBlank(From(line, method + 1))
        path == From(text, Len(Prefix) + 1)
        name == Until(path, {"/"})
    IN  IF IsPrefix(Prefix, text)
        THEN [user |-> Until(name, {NUL}), id |-> Strtol(From(path, Len(name) + 2))]
        ELSE Other

\* Variant: the path is looked for one cell early.
ParseEarly(line) == ParseAfter(Len(Method) - 1, line)

Parse(line) == ParseAfter(Len(Method), line)

-----------------------------------------------------------------------------
VARIABLES
    wire,     \* per request not all received: its cells, and where its path ends, 0 if begun
    sent,     \* the requests sent
    req_cnt,  \* calls of recv, each of which is answered
    handled,  \* the requests handle_request found in them
    splits,   \* calls that ended inside a request
    broken    \* those of them that returned a part of one path and nothing else

stream == <<wire, sent, req_cnt, handled, splits, broken>>

Init ==
    /\ wire = <<>> /\ sent = <<>>
    /\ req_cnt = 0 /\ handled = <<>> /\ splits = 0 /\ broken = 0

Send(r, x) ==
    /\ Len(sent) < MaxSent /\ Len(sent) <= req_cnt
    /\ sent' = Append(sent, r)
    /\ wire' = Append(wire, [cells |-> Encode(r) \o x, line |-> Len(Encode(r))])
    /\ UNCHANGED <<req_cnt, handled, splits, broken>>

\* Variant: there is a row 0.
CollectsAny(line) == IF Parse(line) = Other THEN <<>> ELSE <<Parse(line)>>

\* Row 0, which a path without a number is for, is a nullptr.
CollectsIn(line) ==
    IF Parse(line) = Other \/ Parse(line).id = 0 THEN <<>> ELSE <<Parse(line)>>

ServeAs(line, n) ==
    /\ req_cnt' = req_cnt + n
    /\ handled' = handled \o CollectsIn(line)
    /\ UNCHANGED sent

\* Variant: only a line that is a request is numbered and answered.
ServeRequests(line) == ServeAs(line, Len(CollectsIn(line)))

\* The line is numbered, answered and handled.
Serve(line) == ServeAs(line, 1)

Received(k) == FlattenSeq([j \in 1 .. k |-> wire[j].cells])

\* recv returns all of the first k requests on the wire ...
RecvWhole(k) ==
    /\ wire' = From(wire, k + 1)
    /\ Serve(Received(k))
    /\ UNCHANGED <<splits, broken>>

\* ... or those and m cells of the next.
RecvPart(k, m) ==
    LET next == wire[k + 1]
    IN  /\ wire' = <<[cells |-> From(next.cells, m + 1), line |-> 0]>> \o From(wire, k + 2)
        /\ Serve(Received(k) \o SubSeq(next.cells, 1, m))
        /\ splits' = splits + 1
        /\ broken' = broken + IF k = 0 /\ m < next.line THEN 1 ELSE 0

\* All is sent and received.
Quiet == Len(sent) = MaxSent /\ wire = <<>> /\ UNCHANGED stream

Next ==
    \/ \E r \in Requests, x \in Tails : Send(r, x)
    \/ \E k \in 1 .. Len(wire) : RecvWhole(k)
    \/ \E k \in 0 .. Len(wire) - 1 : \E m \in 1 .. Len(wire[k + 1].cells) - 1 : RecvPart(k, m)
    \/ Quiet

Spec == Init /\ [][Next]_stream

-----------------------------------------------------------------------------
(***************************************************************************)
(* Properties.                                                             *)
(***************************************************************************)

\* Types; what is handled is for a user a client may name, and a row.
TypeOK ==
    /\ \A j \in DOMAIN wire : wire[j].cells # <<>> /\ wire[j].line \in 0 .. Len(wire[j].cells)
    /\ ToSet(sent) \subseteq Requests
    /\ ToSet(handled) \subseteq [user : Names, id : Nat \ {0}]
    /\ req_cnt \in Nat /\ splits \in 0 .. req_cnt /\ broken \in 0 .. splits

\* h is r, but for digits at the end of the row id.
StemsFrom(h, r) ==
    r # Other /\ h.user = r.user /\ IsPrefix(Decimal(h.id), Decimal(r.id))

\* For each request handled the one sent that it stems from, each once and in order.
Origins ==
    {at \in [DOMAIN handled -> DOMAIN sent] :
        \A j \in DOMAIN handled : /\ StemsFrom(handled[j], sent[at[j]])
                                  /\ \A i \in 1 .. j - 1 : at[i] < at[j]}

Altered(at) == {j \in DOMAIN handled : handled[j] # sent[at[j]]}

\* However recv cuts and joins the stream, what is handled stems from requests sent, none
\* twice and none out of order: it is for the user of the request, and for its row unless
\* recv returned a part of its path and nothing else.
HandledStemFromSent == \E at \in Origins : Cardinality(Altered(at)) <= broken

Collects == {j \in DOMAIN sent : sent[j] # Other}

\* Wherever recv ends, what is not handled as it was sent is one request at most for each
\* time it ended inside one, and one more if that was all of a path it returned: with
\* none, all are handled.
LossesAreCuts ==
    wire = <<>> =>
        \E at \in Origins :
            Cardinality(Collects) - (Len(handled) - Cardinality(Altered(at))) <= splits + broken

\* Although a remainder is numbered and answered like a request, no request is left
\* without an answer, and the count that starts the write-backs is at most as many
\* ahead as recv ended inside a request.
CountKeepsUp == wire = <<>> => req_cnt \in Len(sent) .. Len(sent) + splits

=============================================================================
