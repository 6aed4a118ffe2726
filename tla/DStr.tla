-------------------------------- MODULE DStr --------------------------------
(***************************************************************************)
(* The dynamic string of ztl_dstr.c: a buffer with its capacity and the    *)
(* length in use, and the two ways to split a text into such strings.      *)
(* A text is a sequence of characters from a small set; in the string part *)
(* spec is the text the object should hold, in the splitting part obj is a *)
(* line put together from arguments and spec the arguments.                *)
(***************************************************************************)
EXTENDS Integers, Sequences, FiniteSets, SequencesExt

CONSTANTS DsTexts,      \* texts given to the string
          MaxDs,        \* bound on its length
          DsPerAlloc,   \* DSTR_MAX_PER_ALLOC
          PrintfBuf,    \* first buffer of dstr_cat_vprintf
          ArgTexts,     \* arguments quoted into a line
          MaxArgs       \* bound on their number

VARIABLES obj, spec

NUL == "nul"
Garbage == "garbage"
NULL == <<"NULL">>

(***************************************************************************)
(* The string.                                                             *)
(***************************************************************************)
Fill(c, n) == [i \in 1..n |-> c]
dstr_new_len(text) == [buf |-> Append(text, NUL), used |-> Len(text), capicity |-> Len(text) + 1]
dstr_new_blank(n) == [buf |-> Fill(NUL, n + 1), used |-> 0, capicity |-> n + 1]   \* str is NULL
dstr_avail_NoEnd(ds) == ds.capicity - ds.used
dstr_avail(ds) == ds.capicity - ds.used - 1

dstr_reserve(ds, n) ==
    LET sum == ds.capicity + n
        newlen == IF sum < DsPerAlloc THEN 2 * sum ELSE sum + DsPerAlloc
    IN IF dstr_avail(ds) >= n THEN ds
       ELSE [ds EXCEPT !.buf = @ \o Fill(Garbage, newlen - ds.capicity), !.capicity = newlen]

Written(ds, at, text) ==
    [ds EXCEPT !.buf = [i \in DOMAIN @ |-> IF i - at \in DOMAIN text THEN text[i - at] ELSE @[i]]]
Ended(ds, n) == [Written(ds, n, <<NUL>>) EXCEPT !.used = n]

dstr_incr_len(ds, n) == IF dstr_avail(ds) >= n THEN Ended(ds, ds.used + n) ELSE ds
dstr_remove_avail(ds) ==
    [ds EXCEPT !.buf = SubSeq(@, 1, ds.used + 1), !.capicity = ds.used + 1]
dstr_cat_len(ds, text) ==
    Ended(Written(dstr_reserve(ds, Len(text)), ds.used, text), ds.used + Len(text))
dstr_cat(ds, text) == IF text = <<>> THEN ds ELSE dstr_cat_len(ds, text)

Cut(text, n) == IF Len(text) <= n THEN text ELSE SubSeq(text, 1, n)

\* The buffer doubles until the place before its last stays untouched; vsnprintf cuts
\* the text to the buffer.
dstr_cat_vprintf(ds, text) ==
    LET size[k \in 0..Len(text)] == IF k = 0 THEN PrintfBuf ELSE 2 * size[k - 1]
        fits == CHOOSE k \in 0..Len(text) :
                  /\ Len(text) <= size[k] - 2
                  /\ \A j \in 0..k - 1 : Len(text) > size[j] - 2
    IN dstr_cat(ds, Cut(text, size[fits] - 1))

\* First the front, then the back but never over the first character.
dstr_trim(ds, cset) ==
    LET first == CHOOSE i \in 1..ds.used + 1 :
                   /\ \A j \in 1..i - 1 : ds.buf[j] \in cset
                   /\ i <= ds.used => ds.buf[i] \notin cset
        keeps == {i \in 2..ds.used : ds.buf[i] \notin cset}
        last == IF keeps # {} THEN CHOOSE i \in keeps : \A j \in keeps : j <= i
                ELSE IF ds.used = 0 THEN 0 ELSE 1
        len == IF first > last THEN 0 ELSE last - first + 1
    IN Ended(Written(ds, 0, SubSeq(ds.buf, first, first + len - 1)), len)

dstr_range(ds, from, to) ==
    LET Index(i) == IF i >= 0 THEN i ELSE IF i + ds.used < 0 THEN 0 ELSE i + ds.used
        start == Index(from)
        end == IF Index(to) >= ds.used THEN ds.used - 1 ELSE Index(to)
        newlen == IF start > end THEN 0 ELSE end - start + 1
    IN IF ds.used = 0 THEN ds
       ELSE Ended(Written(ds, 0, SubSeq(ds.buf, start + 1, start + newlen)), newlen)

dstr_clear(ds) == Ended(ds, 0)

DsInit == \/ \E text \in DsTexts : obj = dstr_new_len(text) /\ spec = text
          \/ \E text \in DsTexts : obj = dstr_new_blank(Len(text)) /\ spec = <<>>

Cat(text) ==
    /\ Len(spec) + Len(text) <= MaxDs
    /\ obj' \in {dstr_cat(obj, text), dstr_cat_vprintf(obj, text)}
    /\ spec' = spec \o text
\* A caller writes into the free space himself and then raises the length.
WriteBehind(text) ==
    /\ Len(text) <= dstr_avail(obj)
    /\ Len(spec) + Len(text) <= MaxDs
    /\ obj' = dstr_incr_len(Written(obj, obj.used, text), Len(text))
    /\ spec' = spec \o text
Room(n) ==
    /\ obj.capicity + n <= 2 * MaxDs
    /\ obj' \in {dstr_reserve(obj, n), dstr_remove_avail(obj)}
    /\ UNCHANGED spec
Trim(cset) ==
    LET outer == {i \in DOMAIN spec : spec[i] \notin cset}
    IN /\ obj' = dstr_trim(obj, cset)
       /\ spec' = IF outer = {} THEN <<>>
                  ELSE SubSeq(spec, CHOOSE i \in outer : \A j \in outer : i <= j,
                                    CHOOSE i \in outer : \A j \in outer : i >= j)
RangeOf(from, to) ==
    LET At(i) == IF i < 0 THEN (IF Len(spec) + i < 0 THEN 0 ELSE Len(spec) + i) ELSE i
        kept == {i \in DOMAIN spec : i - 1 >= At(from) /\ i - 1 <= At(to)}
    IN /\ obj' = dstr_range(obj, from, to)
       /\ spec' = SubSeq(spec, IF kept = {} THEN 1 ELSE CHOOSE i \in kept : \A j \in kept : i <= j,
                               IF kept = {} THEN 0 ELSE CHOOSE i \in kept : \A j \in kept : i >= j)
Clear == obj' = dstr_clear(obj) /\ spec' = <<>>

DsNext ==
    \/ \E text \in DsTexts : Cat(text) \/ WriteBehind(text) \/ Room(Len(text))
    \/ \E text \in DsTexts : Trim(ToSet(text))
    \/ \E from, to \in -(MaxDs + 1)..(MaxDs + 1) : RangeOf(from, to)
    \/ Clear

(***************************************************************************)
(* Through every order of appending, writing behind the end, growing,      *)
(* shrinking, trimming and cutting: the string holds the text, ends it     *)
(* with a NUL, and counts no more room than it was given.                  *)
(***************************************************************************)
DsExact ==
    /\ SubSeq(obj.buf, 1, obj.used) = spec
    /\ obj.used < obj.capicity /\ obj.buf[obj.used + 1] = NUL
    /\ Len(obj.buf) = obj.capicity

(***************************************************************************)
(* dstr_split_len cuts at a separator, for a text no shorter than it.      *)
(***************************************************************************)
dstr_split_len(str, sep) ==
    LET n == Len(str)
        k == Len(sep)
        tokens[p \in (0..n) \X (0..n)] ==    \* <<start, i>>
            LET start == p[1]
                i == p[2]
            IN IF i > n - k THEN <<SubSeq(str, start + 1, n)>>
               ELSE IF SubSeq(str, i + 1, i + k) = sep
                    THEN <<SubSeq(str, start + 1, i)>> \o tokens[<<i + k, i + k>>]
                    ELSE tokens[<<start, i + 1>>]
    IN IF n = 0 THEN <<>> ELSE tokens[<<0, 0>>]

(***************************************************************************)
(* dstr_split_args: one turn of its loops per character.  "a" is a letter, *)
(* a hexadecimal digit and, after a backslash, the bell.                   *)
(***************************************************************************)
Space == " "
Quote == "q"
Single == "s"
Back == "b"
Hex == {"a"}
Escaped(c) == IF c = "a" THEN "bell" ELSE c
HexByte(c, d) == "byte"

ArgStep(line, st) ==
    LET Ch(k) == IF st.p + k <= Len(line) THEN line[st.p + k] ELSE NUL
        Take(c, k) == [st EXCEPT !.cur = Append(@, c), !.p = @ + k]
        Skip == [st EXCEPT !.p = @ + 1]
        Done == [st EXCEPT !.argv = Append(@, st.cur), !.mode = "between",
                           !.p = IF Ch(0) = NUL THEN @ ELSE @ + 1]
        Err == [st EXCEPT !.mode = "err"]
        Closed == IF Ch(1) \in {NUL, Space} THEN Done ELSE Err
    IN CASE st.mode = "between" ->
              IF Ch(0) = Space THEN Skip
              ELSE IF Ch(0) = NUL THEN [st EXCEPT !.mode = "end"]
                   ELSE [st EXCEPT !.mode = "plain", !.cur = <<>>]
         [] st.mode = "plain" ->
              (CASE Ch(0) \in {Space, NUL} -> Done
                 [] Ch(0) = Quote -> [Skip EXCEPT !.mode = "inq"]
                 [] Ch(0) = Single -> [Skip EXCEPT !.mode = "insq"]
                 [] OTHER -> Take(Ch(0), 1))
         [] st.mode = "inq" ->
              (CASE Ch(0) = Back /\ Ch(1) = "x" /\ Ch(2) \in Hex /\ Ch(3) \in Hex
                      -> Take(HexByte(Ch(2), Ch(3)), 4)
                 [] Ch(0) = Back /\ Ch(1) # NUL
                      /\ ~(Ch(1) = "x" /\ Ch(2) \in Hex /\ Ch(3) \in Hex) -> Take(Escaped(Ch(1)), 2)
                 [] Ch(0) = Quote -> Closed
                 [] Ch(0) = NUL -> Err
                 [] OTHER -> Take(Ch(0), 1))
         [] st.mode = "insq" ->
              (CASE Ch(0) = Back /\ Ch(1) = Single -> Take(Single, 2)
                 [] Ch(0) = Single -> Closed
                 [] Ch(0) = NUL -> Err
                 [] OTHER -> Take(Ch(0), 1))
         [] OTHER -> st

dstr_split_args(line) ==
    LET turn[i \in 0..2 * Len(line) + 2] ==
            IF i = 0 THEN [p |-> 1, mode |-> "between", cur |-> <<>>, argv |-> <<>>]
            ELSE LET before == turn[i - 1] IN ArgStep(line, before)
        last == turn[2 * Len(line) + 2]
    IN IF last.mode = "end" THEN last.argv ELSE NULL

(***************************************************************************)
(* How a caller may write an argument (external): plainly, in quotes with  *)
(* escapes, or in single quotes; a plain front may precede the quotes.     *)
(***************************************************************************)
Map(text, Op(_)) == FlattenSeq([i \in DOMAIN text |-> Op(text[i])])
InQuotes(c) ==
    CASE c \in {Quote, Back} -> <<Back, c>>
      [] c = "bell" -> <<Back, "a">>
      [] c = "byte" -> <<Back, "x", "a", "a">>
      [] OTHER -> <<c>>
InSingles(c) == IF c = Single THEN <<Back, c>> ELSE <<c>>
Plain(text) == ToSet(text) \cap {Space, Quote, Single} = {}
Quotings(text) ==
    {SubSeq(text, 1, k) \o <<Quote>> \o Map(SubSeq(text, k + 1, Len(text)), InQuotes) \o <<Quote>>
        : k \in {k \in 0..Len(text) : Plain(SubSeq(text, 1, k))}}
    \cup (IF Plain(text) /\ text # <<>> THEN {text} ELSE {})
    \cup (IF Back \notin ToSet(text) THEN {<<Single>> \o Map(text, InSingles) \o <<Single>>} ELSE {})

ArgInit == obj = <<>> /\ spec = <<>>
ArgNext ==
    \E text \in ArgTexts, spaces \in {<<Space>>, <<Space, Space>>} : \E written \in Quotings(text) :
        /\ Len(spec) < MaxArgs
        /\ obj' = (IF obj = <<>> THEN obj ELSE obj \o spaces) \o written
        /\ spec' = Append(spec, text)

Joined(texts, sep) ==
    FlattenSeq([i \in DOMAIN texts |-> IF i = 1 THEN texts[i] ELSE sep \o texts[i]])

(***************************************************************************)
(* dstr_split_args gives back the arguments of a line however they were    *)
(* quoted, and refuses the line when a quotation stays open or is followed *)
(* by a letter.  dstr_split_len gives back the texts a separator joins,    *)
(* except that the empty text has no token.                                *)
(***************************************************************************)
ArgsExact ==
    /\ dstr_split_args(obj) = spec
    /\ \A rest \in {<<Quote>>, <<Single>>, <<Quote, "a">>, <<Quote, Quote, "a">>, <<Single, Single, Back>>} :
         dstr_split_args(obj \o <<Space>> \o rest) = NULL
    /\ \A sep \in {<<",">>, <<",", ";">>} :
         LET joined == Joined(spec, sep)
         IN Len(joined) >= Len(sep) =>
              dstr_split_len(joined, sep) = (IF joined = <<>> THEN <<>> ELSE spec)
=============================================================================
