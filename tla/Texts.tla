------------------------------- MODULE Texts -------------------------------
(***************************************************************************)
(* The text and number helpers of ztl_utils.c and, on top of them, the     *)
(* configuration of ztl_config.c: a list of items read from the lines of a *)
(* file.  A text is a sequence of characters from a small set.  obj is a   *)
(* text, a number, a sorted array or the list of items; spec is used by    *)
(* the configuration only.                                                 *)
(***************************************************************************)
EXTENDS Integers, Sequences, FiniteSets, SequencesExt

CONSTANTS TextChars,    \* characters of the texts walked through
          MaxText,      \* bound on their length
          MaxDigits,    \* numbers have at most so many digits
          SizeMax,      \* INT64_MAX, as far as parse_size goes
          MaxSorted,    \* bound on the length of a searched array
          ConfLines,    \* lines of a configuration file
          ConfComment, ConfDelimiter,
          ZTL_CONFIG_DEFAULT_ITEMS   \* items a configuration has room for

VARIABLES obj, spec

Blank == {" ", "\t", "\r", "\n"}
Slash == {"/", "\\"}

(***************************************************************************)
(* ztl_utils.c: texts.                                                     *)
(***************************************************************************)
FirstAt(text, from, Test(_)) ==    \* the first place from `from' on, or the one behind the end
    LET hits == {i \in from..Len(text) : Test(i)}
    IN IF hits = {} THEN Len(text) + 1 ELSE CHOOSE i \in hits : \A j \in hits : i <= j
lefttrim(text) ==
    SubSeq(text, FirstAt(text, 1, LAMBDA i : text[i] \notin Blank), Len(text))
righttrim(text) ==
    LET keep == {0} \cup {i \in DOMAIN text : text[i] \notin Blank}
    IN SubSeq(text, 1, CHOOSE i \in keep : \A j \in keep : j <= i)
remove_char(text, ch) == SelectSeq(text, LAMBDA c : c # ch)
replace_char(text, old, new) == [i \in DOMAIN text |-> IF text[i] = old THEN new ELSE text[i]]

\* The place of the last slash, 0 if there is none.
LastSlash(path) ==
    LET at == {0} \cup {i \in DOMAIN path : path[i] \in Slash}
    IN CHOOSE i \in at : \A j \in at : j <= i
ztl_basename(path) == SubSeq(path, LastSlash(path) + 1, Len(path))
ztl_dirname(path) ==
    LET keep == {0} \cup {i \in 1..LastSlash(path) : path[i] \notin Slash}
    IN SubSeq(path, 1, CHOOSE i \in keep : \A j \in keep : j <= i)

ztl_startwith(text, needle) == IsPrefix(needle, text)
ztl_endwith(text, needle) ==
    Len(text) >= Len(needle) /\ SubSeq(text, Len(text) - Len(needle) + 1, Len(text)) = needle
ztl_startswith(text, needles) == \E i \in DOMAIN needles : ztl_startwith(text, needles[i])
ztl_endswith(text, needles) == \E i \in DOMAIN needles : ztl_endwith(text, needles[i])

Found(text, from, sep) == FirstAt(text, from, LAMBDA i : IsPrefix(sep, SubSeq(text, i, Len(text))))

\* The last item takes what is left only while the array has a place for it.
str_delimiters(text, size, sep) ==
    LET items[n \in 0..size] ==     \* <<items, where the next starts, 0 for nowhere>>
            IF n = 0 THEN <<<<>>, 1>>
            ELSE LET p == items[n - 1]
                     at == Found(text, p[2], sep)
                 IN IF p[2] = 0 THEN p
                    ELSE <<Append(p[1], SubSeq(text, p[2], at - 1)),
                           IF at > Len(text) THEN 0 ELSE at + Len(sep)>>
    IN items[size][1]

\* With an explicit length; an empty item at the end is left out.
str_delimiter_ex(text, size, sep) ==
    LET items[n \in 0..size] ==
            IF n = 0 THEN <<<<>>, 1>>
            ELSE LET p == items[n - 1]
                     at == Found(text, p[2], sep)
                 IN CASE p[2] = 0 -> p
                      [] p[2] # 0 /\ at > Len(text) /\ p[2] > Len(text) -> <<p[1], 0>>
                      [] OTHER -> <<Append(p[1], SubSeq(text, p[2], at - 1)),
                                    IF at > Len(text) THEN 0 ELSE at + Len(sep)>>
    IN items[size][1]

(***************************************************************************)
(* ztl_utils.c: numbers.                                                   *)
(***************************************************************************)
Pow10[k \in Nat] == IF k = 0 THEN 1 ELSE 10 * Pow10[k - 1]
digits10(v) == CHOOSE k \in 1..9 : v < Pow10[k] /\ (k = 1 \/ v >= Pow10[k - 1])
Digits == <<"0", "1", "2", "3", "4", "5", "6", "7", "8", "9">>
DigitOf(c) == (CHOOSE i \in 1..10 : Digits[i] = c) - 1

\* Two digits at a time, from the back.
ll2string(dstlen, svalue) ==
    LET negative == svalue < 0
        value == IF negative THEN -svalue ELSE svalue
        length == digits10(value) + IF negative THEN 1 ELSE 0
        put[k \in 0..5] ==
            IF k = 0 THEN <<value, <<>>>>
            ELSE LET p == put[k - 1]
                 IN IF p[1] < 100 THEN p
                    ELSE <<p[1] \div 100,
                           <<Digits[((p[1] % 100) \div 10) + 1], Digits[(p[1] % 10) + 1]>> \o p[2]>>
        rest == put[5][1]
        head == IF rest < 10 THEN <<Digits[rest + 1]>>
                ELSE <<Digits[(rest \div 10) + 1], Digits[(rest % 10) + 1]>>
    IN IF length >= dstlen THEN <<>>
       ELSE (IF negative THEN <<"-">> ELSE <<>>) \o head \o put[5][2]

atoi_n(text) ==
    LET start == FirstAt(text, 1, LAMBDA i : text[i] # " ")
        sign == IF start <= Len(text) /\ text[start] = "-" THEN -1 ELSE 1
        first == IF start <= Len(text) /\ text[start] \in {"+", "-"} THEN start + 1 ELSE start
        end == FirstAt(text, first, LAMBDA i : text[i] \notin ToSet(Digits))
        val[i \in first - 1..end - 1] ==
            IF i = first - 1 THEN 0 ELSE 10 * val[i - 1] + DigitOf(text[i])
    IN sign * val[end - 1]

Scale(c) == IF c = "k" THEN 1024 ELSE 1
parse_size(text) ==
    LET scale == Scale(text[Len(text)])
        size == atoi_n(IF scale = 1 THEN text ELSE SubSeq(text, 1, Len(text) - 1))
    IN IF size = 0 \/ size > SizeMax \div scale THEN 0 ELSE size * scale

get_next_power(n) ==
    LET power[k \in Nat] == IF k = 0 THEN 2 ELSE 2 * power[k - 1]
    IN power[CHOOSE k \in 0..20 : power[k] >= n /\ (k = 0 \/ power[k - 1] < n)]

binary_search(arr, val) ==
    LET look[k \in 0..Len(arr)] ==     \* <<low, high, found>> after k turns
            IF k = 0 THEN <<0, Len(arr), -1>>
            ELSE LET p == look[k - 1]
                     middle == (p[1] + p[2]) \div 2
                 IN CASE p[1] >= p[2] \/ p[3] # -1 -> p
                      [] p[1] < p[2] /\ p[3] = -1 /\ arr[middle + 1] = val -> <<p[1], p[2], middle>>
                      [] p[1] < p[2] /\ p[3] = -1 /\ arr[middle + 1] > val -> <<p[1], middle, -1>>
                      [] p[1] < p[2] /\ p[3] = -1 /\ arr[middle + 1] < val -> <<middle + 1, p[2], -1>>
    IN look[Len(arr)][3]

(***************************************************************************)
(* Walks over texts, numbers and sorted arrays.                            *)
(***************************************************************************)
TextInit == obj = <<>> /\ spec = 0
TextNext == /\ Len(obj) < MaxText
            /\ \E c \in TextChars : obj' = Append(obj, c)
            /\ UNCHANGED spec
NumInit == obj = 0 /\ spec = 0
NumNext == /\ \/ obj' = 10 * obj
              \/ \E d \in {-1, 1, 9} : obj' = obj + d
              \/ obj' = -obj
           /\ obj' \in -Pow10[MaxDigits]..Pow10[MaxDigits]
           /\ UNCHANGED spec
SortedInit == obj = <<>> /\ spec = 0
SortedNext == /\ Len(obj) < MaxSorted
              /\ \E d \in 0..2 : obj' = Append(obj, d + IF obj = <<>> THEN 0 ELSE Last(obj))
              /\ UNCHANGED spec

(***************************************************************************)
(* Trimming takes all blanks of one end and nothing else; removing and     *)
(* replacing a character keep the others in order; directory and           *)
(* base name put together are the path; the two ways to cut a text at      *)
(* separators agree but for a last empty item, and give the text back.     *)
(***************************************************************************)
TextExact ==
    LET Before(text) == SubSeq(obj, 1, Len(obj) - Len(text))
        Behind(text) == SubSeq(obj, Len(text) + 1, Len(obj))
        left == lefttrim(obj)
        right == righttrim(obj)
        dir == ztl_dirname(obj)
        base == ztl_basename(obj)
        Joined(items, sep) ==
            FlattenSeq([i \in DOMAIN items |-> IF i = 1 THEN items[i] ELSE sep \o items[i]])
    IN /\ obj = Before(left) \o left /\ ToSet(Before(left)) \subseteq Blank
       /\ left # <<>> => Head(left) \notin Blank
       /\ obj = right \o Behind(right) /\ ToSet(Behind(right)) \subseteq Blank
       /\ right # <<>> => Last(right) \notin Blank
       /\ \E slashes \in {Before(base), <<>>} :
            /\ IsPrefix(dir, slashes) /\ slashes \o base = obj
            /\ ToSet(SubSeq(slashes, Len(dir) + 1, Len(slashes))) \subseteq Slash
       /\ ToSet(base) \cap Slash = {}
       /\ \A ch \in TextChars :
            /\ Len(remove_char(obj, ch)) = Cardinality({i \in DOMAIN obj : obj[i] # ch})
            /\ remove_char(replace_char(obj, "a", ch), ch) = remove_char(remove_char(obj, ch), "a")
       /\ ztl_startwith(obj, Before(base)) /\ ztl_endwith(obj, base)
       /\ ztl_startswith(obj, <<<<" ">>, <<"/">>, <<"a">>>>) <=> obj # <<>>
       /\ ztl_endswith(obj, <<<<" ">>, <<"/">>, <<"a">>>>) <=> obj # <<>>
       /\ \A sep \in {<<" ">>, <<" ", "a">>} :
            LET items == str_delimiters(obj, MaxText + 1, sep)
                given == str_delimiter_ex(obj, MaxText + 1, sep)
            IN /\ Joined(items, sep) = obj
               /\ \A i \in DOMAIN items : Found(items[i], 1, sep) = Len(items[i]) + 1
               /\ given = IF Last(items) = <<>> THEN Front(items) ELSE items
               /\ str_delimiters(obj, 2, sep) = SubSeq(items, 1, IF Len(items) < 2 THEN Len(items) ELSE 2)

(***************************************************************************)
(* ll2string writes the number that atoi_n reads, also behind blanks, in   *)
(* exactly the room digits10 asks for, parse_size scales it or says 0, and *)
(* get_next_power rounds up to a power of two, leaving one as it is.       *)
(***************************************************************************)
NumExact ==
    LET size == digits10(IF obj < 0 THEN -obj ELSE obj) + IF obj < 0 THEN 1 ELSE 0
        text == ll2string(size + 1, obj)
    IN /\ Len(text) = size /\ ll2string(size, obj) = <<>>
       /\ atoi_n(text) = obj /\ atoi_n(<<" ", " ">> \o text \o <<"k", "1">>) = obj
       /\ parse_size(text) = (IF obj > SizeMax THEN 0 ELSE obj)
       /\ obj > 2 => get_next_power(obj) \in obj..2 * obj - 1
       /\ get_next_power(get_next_power(obj)) = get_next_power(obj)
       /\ obj \in 0..Pow10[5] =>
            parse_size(Append(text, "k")) = (IF 1024 * obj > SizeMax THEN 0 ELSE 1024 * obj)

(***************************************************************************)
(* binary_search finds a place of the value in a sorted array, also with   *)
(* repeated values, exactly if there is one.                               *)
(***************************************************************************)
SearchExact ==
    \A val \in -1..2 * MaxSorted + 1 :
        LET at == binary_search(obj, val)
        IN IF val \in ToSet(obj) THEN at + 1 \in DOMAIN obj /\ obj[at + 1] = val ELSE at = -1

(***************************************************************************)
(* ztl_config.c: items are <<key, value>>.                                 *)
(***************************************************************************)
Folded(text) == replace_char(text, "K", "k")     \* what ztl_stricmp tells apart

ztl_config_set_item(items, key, val, overwrite) ==
    LET same == {i \in DOMAIN items : items[i][1] = key}
    IN CASE key = <<>> \/ val = <<>> -> items
         [] key # <<>> /\ val # <<>> /\ same # {} ->
              [i \in DOMAIN items |-> IF overwrite /\ i \in same THEN <<key, val>> ELSE items[i]]
         [] OTHER -> Append(items, <<key, val>>)

\* One turn of ztl_read_file_content: <<key, value>>, or <<>> for a line that is skipped.
ParsedLine(line) ==
    LET buffer == replace_char(lefttrim(line), "\t", " ")
        at == FirstAt(buffer, 1, LAMBDA i : buffer[i] = ConfDelimiter)
    IN IF at > Len(buffer) \/ buffer[1] = ConfComment THEN <<>>
       ELSE <<righttrim(SubSeq(buffer, 1, at - 1)),
              righttrim(lefttrim(SubSeq(buffer, at + 1, Len(buffer))))>>

ztl_config_have(items, key, strictly) ==
    LET hits == {i \in DOMAIN items :
                   \/ strictly /\ items[i][1] = key
                   \/ Folded(items[i][1]) = Folded(key)}
    IN IF hits = {} THEN <<>> ELSE items[CHOOSE i \in hits : \A j \in hits : i <= j][2]

ztl_config_all_items(items, size) ==
    SubSeq(items, 1, IF Len(items) < size THEN Len(items) ELSE size)

(***************************************************************************)
(* spec.seq is the last assignment to each key.  spec.harm says that the   *)
(* list was full: ztl_config_set_item then calls realloc on memory it has  *)
(* from ztl_pcalloc, after which nothing is said.                          *)
(***************************************************************************)
ConfInit == obj = <<>> /\ spec = [seq |-> <<>>, harm |-> FALSE]

\* What the caller has assigned, the first item of a key being kept unless overwritten.
Assigned(key, val, overwrite) ==
    IF \/ key = <<>> \/ val = <<>>
       \/ ~overwrite /\ (\E i \in DOMAIN spec.seq : spec.seq[i][1] = key)
    THEN spec.seq
    ELSE Append(SelectSeq(spec.seq, LAMBDA a : a[1] # key), <<key, val>>)
Assign(key, val, overwrite) ==
    /\ obj' = ztl_config_set_item(obj, key, val, overwrite)
    /\ spec' = [seq |-> Assigned(key, val, overwrite),
                harm |-> Len(obj') > Len(obj) /\ Len(obj) >= ZTL_CONFIG_DEFAULT_ITEMS]
ReadLine(line) ==
    LET item == ParsedLine(line)
    IN item # <<>> /\ Assign(item[1], item[2], TRUE)
SetItem(line) ==
    LET item == ParsedLine(line)
    IN item # <<>> /\ Assign(item[1], item[2], FALSE)
ConfNext == /\ ~spec.harm
            /\ \E line \in ConfLines : ReadLine(line) \/ SetItem(line)

(***************************************************************************)
(* Whatever lines were read and items set, until the list is full: a key   *)
(* has one item, with the value assigned last; a key is found if a variant *)
(* of it, in any case, was assigned, and gives the item that came first;   *)
(* no key or value begins or ends with a blank.  The header has a strict   *)
(* look-up, which the code does not: a key whose variant came first is     *)
(* answered with that variant's value, and the property does not say       *)
(* which of the two a strict caller should get.                            *)
(***************************************************************************)
ConfExact ==
    LET Latest(key) == spec.seq[CHOOSE i \in DOMAIN spec.seq : spec.seq[i][1] = key][2]
        Asked == {ParsedLine(line)[1] : line \in {l \in ConfLines : ParsedLine(l) # <<>>}}
    IN spec.harm \/
       /\ \A i, j \in DOMAIN obj : obj[i][1] = obj[j][1] => i = j
       /\ {obj[i][1] : i \in DOMAIN obj} = {spec.seq[i][1] : i \in DOMAIN spec.seq}
       /\ \A i \in DOMAIN obj :
            /\ obj[i][2] = Latest(obj[i][1])
            /\ \A k \in 1..2 : Head(obj[i][k]) \notin Blank /\ Last(obj[i][k]) \notin Blank
            /\ (\A j \in 1..i - 1 : Folded(obj[j][1]) # Folded(obj[i][1]))
                 => \A strictly \in BOOLEAN : ztl_config_have(obj, obj[i][1], strictly) = obj[i][2]
       /\ \A key \in Asked :
            LET first == FirstAt(spec.seq, 1, LAMBDA i : Folded(spec.seq[i][1]) = Folded(key))
            IN (ztl_config_have(obj, key, FALSE) = <<>>) <=> first > Len(spec.seq)
       /\ \A size \in 0..ZTL_CONFIG_DEFAULT_ITEMS : IsPrefix(ztl_config_all_items(obj, size), obj)
=============================================================================
