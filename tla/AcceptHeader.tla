---------------------------- MODULE AcceptHeader ----------------------------
(***************************************************************************)
(* lib/http.rs: whether a page goes out as HTML or raw, by the values of   *)
(* the Accept headers.  A text is a sequence of kinds: "html" stands for   *)
(* text/html in any case, "word" for any other letters, "bad" for what no  *)
(* header value has as a string, and "next" stands between two values.     *)
(***************************************************************************)
EXTENDS Naturals, Sequences, Pieces

CONSTANT MaxHeaderLength  \* bound: the longest text

ASSUME HeaderAssumption == MaxHeaderLength \in Nat

VARIABLE accept  \* the values of the Accept headers
headerVars == <<accept>>

HeaderKinds == {"html", "word", "bad", "space", "comma", "semicolon", "next"}

HeaderInit == accept = <<>>

(* The headers are reached kind by kind.                                   *)
Extend ==
  /\ Len(accept) < MaxHeaderLength
  /\ \E kind \in HeaderKinds : accept' = Append(accept, kind)

HeaderSpec == HeaderInit /\ [][Extend]_headerVars

-----------------------------------------------------------------------------
(* `split(';').next()`                                                     *)
BeforeParameters(element) ==
  CHOOSE t \in PiecesOf(element, "semicolon") :
    \E k \in 0 .. Len(element) :
      /\ t = SubSeq(element, 1, k)
      /\ k = Len(element) \/ element[k + 1] = "semicolon"

(* Mutant: the spaces after a comma are not trimmed.                       *)
Untrimmed(t) == t

Trimmed(t) ==
  LET solid == {i \in 1 .. Len(t) : t[i] # "space"}
  IN IF solid = {} THEN <<>>
     ELSE SubSeq(t, CHOOSE i \in solid : \A j \in solid : i <= j,
                    CHOOSE i \in solid : \A j \in solid : i >= j)

accept_header_contains_text_html ==
  \E value \in PiecesOf(accept, "next") :
    /\ \A i \in 1 .. Len(value) : value[i] # "bad"
    /\ \E element \in PiecesOf(value, "comma") :
         Trimmed(BeforeParameters(element)) = <<"html">>

(* json_or_html and markdown_or_html.                                      *)
Served == IF accept_header_contains_text_html THEN "html" ELSE "raw"

-----------------------------------------------------------------------------
(* HTML is served exactly to those who name text/html as a media type of a *)
(* value that can be read: next to it, but for spaces, is nothing but the  *)
(* end of the element or the beginning of its parameters.  A text/html     *)
(* among the parameters does not count (lib/http.rs:33-76).                *)
HtmlIfNamed ==
  Served = "html" <=>
    \E i \in 1 .. Len(accept) :
      LET Bounded(near, far, ends) ==
            /\ far \in {0, Len(accept) + 1} \/ accept[far] \in ends
            /\ \A k \in near : accept[k] = "space"
      IN /\ accept[i] = "html"
         /\ \E j \in 0 .. i - 1 : Bounded(j + 1 .. i - 1, j, {"comma", "next"})
         /\ \E j \in i + 1 .. Len(accept) + 1 :
              Bounded(i + 1 .. j - 1, j, {"comma", "semicolon", "next"})
         /\ \A k \in 1 .. Len(accept) : accept[k] = "bad" =>
              \E b \in 1 .. Len(accept) :
                accept[b] = "next" /\ ((i < b /\ b < k) \/ (k < b /\ b < i))
=============================================================================
