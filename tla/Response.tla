------------------------------ MODULE Response ------------------------------
(***************************************************************************)
(* response (response.cc): a status code, headers and a body, and the text *)
(* made of them.  A header's name is one symbol, and so are the digits of  *)
(* a status code: the code.                                                *)
(***************************************************************************)
EXTENDS Bytes, SequencesExt

words == 258  \* what response_codes.h has for a code

response(status_code, body) ==
    [status_code_ |-> status_code, response_headers_ |-> <<>>, response_body_ |-> body]

set_body(r, body) == [r EXCEPT !.response_body_ = body]

\* BUG (mutant): insert() does not replace the value of a header that is there.
set_headerInserts(r, h_name, h_value) ==
    LET h == r.response_headers_
    IN [r EXCEPT !.response_headers_ =
          [n \in DOMAIN h \cup {h_name} |-> IF n \in DOMAIN h THEN h[n] ELSE h_value]]

set_header(r, h_name, h_value) ==
    LET h == r.response_headers_
    IN [r EXCEPT !.response_headers_ =
          [n \in DOMAIN h \cup {h_name} |-> IF n = h_name THEN h_value ELSE h[n]]]

\* The codes in response_codes; another code has no words.
get_status_word(status) ==
    IF status \in {200, 201, 303, 400, 404, 405, 500} THEN <<words>> ELSE <<>>

generate_status_line(r) ==
    <<VERSION, r.status_code_>> \o get_status_word(r.status_code_) \o CRLF

\* The lines for the headers in the order the unordered_map gives them.
generate_header_lines(r, order) ==
    FlattenSeq([i \in DOMAIN order |->
        <<order[i]>> \o <<Colon, SP>> \o r.response_headers_[order[i]] \o CRLF]) \o CRLF

\* The texts generate_response may return: one for each order.
generate_response(r) ==
    {generate_status_line(r) \o generate_header_lines(r, order) \o r.response_body_ :
        order \in SetToSeqs(DOMAIN r.response_headers_)}

-----------------------------------------------------------------------------
(* The client: HTTP's reading of a text (external) *)

\* The line ends from i on, and where the lines begin, up to the empty one.
LineEnds(text, i) == {j \in i..(Len(text) - 1) : SubSeq(text, j, j + 1) = CRLF}
LineStarts(text) ==
    LET from[i \in 1..(Len(text) + 1)] ==
          IF LineEnds(text, i) = {} \/ Lowest(LineEnds(text, i)) = i THEN <<i>>
          ELSE <<i>> \o from[Lowest(LineEnds(text, i)) + 2]
    IN from[1]

\* The status, the headers and the body.
Read(text) ==
    LET starts == LineStarts(text)
        blank  == Last(starts)
        line   == {starts[i] : i \in 2..(Len(starts) - 1)}
        at(n)  == CHOOSE i \in line : text[i] = n
    IN [status_code_ |-> text[2],
        response_headers_ |-> [n \in {text[i] : i \in line} |->
                                 SubSeq(text, at(n) + 3, Lowest(LineEnds(text, at(n))) - 1)],
        response_body_ |-> SubSeq(text, blank + 2, Len(text))]
=============================================================================
