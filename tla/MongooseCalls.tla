---------------------------- MODULE MongooseCalls ----------------------------
(***************************************************************************)
(* The text functions of mongoose.c beside what they are meant to compute. *)
(* Where a text has parts, a call is made of the parts, and the answer     *)
(* must show them again.                                                   *)
(***************************************************************************)
EXTENDS Integers

B == INSTANCE MongooseBytes
T == INSTANCE MongooseHeaders
LOCAL INSTANCE Loops
LOCAL INSTANCE Sequences
LOCAL INSTANCE FiniteSets
LOCAL INSTANCE TLC

CONSTANTS Datas,       \* sequences of bytes to encode
          Users,       \* names and passwords, sequences of bytes
          Formats,     \* conversions, see MongooseHeaders
          Addresses,   \* URIs by their parts
          Years        \* of the dates to read

(* One call of a pure function: a behaviour picks the call with its        *)
(* arguments, then the code answers it.                                    *)
VARIABLES call, answer, done

vars == <<call, answer, done>>

Init == call = <<"none">> /\ answer = 0 /\ done = FALSE

Ask(questions) == call[1] = "none" /\ \E q \in questions : call' = q /\ UNCHANGED <<answer, done>>
Asked(name) == call[1] = name /\ ~ done /\ done' = TRUE /\ UNCHANGED call

Sequences(n, S) == UNION {[1 .. i -> S] : i \in 0 .. n}
Concat(parts) == ForUp(<< >>, 1, Len(parts), LAMBDA t, i : t \o parts[i])
Between(parts, sep) == ForUp(<< >>, 1, Len(parts), LAMBDA t, i : t \o parts[i] \o IF i < Len(parts) THEN sep ELSE << >>)
(* The pieces of a text between the characters sep, in order.              *)
Split(text, sep) ==
    LET cuts == {i \in DOMAIN text : text[i] = sep} \cup {0, Len(text) + 1}
        Cut(k) == CHOOSE c \in cuts : Cardinality({b \in cuts : b < c}) = k
    IN  [k \in 1 .. Cardinality(cuts) - 1 |-> SubSeq(text, Cut(k - 1) + 1, Cut(k) - 1)]
Upper(text, n) == IF n < Len(text) THEN n ELSE Len(text)

-----------------------------------------------------------------------------
(* Bytes and texts of them.                                                *)
Escaped == {<< <<97>>, 97 >>, << <<43>>, 32 >>, << <<37, 52, 49>>, 65 >>, << <<37, 102, 70>>, 255 >>, << <<37>>, -1 >>}
MbufOps == {<<"append", <<1, 2, 3>>, TRUE>>, <<"append", <<4>>, FALSE>>, <<"insert", <<5, 6>>, TRUE>>,
            <<"remove", << >>, TRUE>>, <<"trim", << >>, FALSE>>, <<"trim", << >>, TRUE>>, <<"resize", << >>, TRUE>>}

ByteCalls ==
    UNION {{<<"base64", d, cut>> : cut \in 0 .. Len(d)} : d \in Datas}
    \cup {<<"unbase64", s>> : s \in [1 .. 4 -> {65, 47, 61, 63}] \cup [1 .. 6 -> {122, 43}]}
    \cup {<<"auth", u, has, p, least>> : u, p \in Users, has \in BOOLEAN, least \in {2, 10}}
    \cup {<<"hex", d>> : d \in Datas}
    \cup {<<"escape", pieces, room, form>> : pieces \in Sequences(3, Escaped), room \in {1, 3, 8}, form \in BOOLEAN}
    \cup {<<"var", form, name>> : form \in Sequences(5, {97, 65, 61, 38}), name \in {<< >>, <<97>>, <<97, 97>>}}
    \cup {<<"mbuf", ops>> : ops \in Sequences(4, MbufOps)}

Base64 == Asked("base64") /\ \E d \in {call[2]} : answer' =
    <<B!cs_base64_encode(d),
      B!cs_base64_finish(B!cs_base64_update(B!cs_base64_update(B!cs_base64_init, SubSeq(d, 1, call[3])), B!From(d, call[3] + 1)))>>
Unbase64 == Asked("unbase64") /\ answer' = B!cs_base64_decode(call[2], Len(call[2]))
BasicAuth == Asked("auth") /\ answer' =
    B!mg_parse_http_basic_auth(B!mg_basic_auth_header(call[2], call[3], call[4]), <<13, 10, 13, 10, 65, 65>>, call[5], call[5])
Hex == Asked("hex") /\ answer' = <<B!cs_to_hex(call[2]), B!cs_from_hex(B!cs_to_hex(call[2])), B!mg_url_encode(call[2], 64)>>
Escape == Asked("escape") /\ answer' = B!mg_url_decode(Concat([i \in DOMAIN call[2] |-> call[2][i][1]]), call[3], call[4])
Var == Asked("var") /\ answer' = B!mg_get_http_var(call[2], call[3], 8)

(* The buffers after each of a sequence of operations.                     *)
MbufRun(ops) ==
    ForUp(<<B!mbuf_free>>, 1, Len(ops), LAMBDA s, i :
        LET a == s[Len(s)] IN
        Append(s, CASE ops[i][1] = "append" -> B!mbuf_append(a, ops[i][2], ops[i][3]).mbuf
                    [] ops[i][1] = "insert" -> B!mbuf_insert(a, Len(a.buf) \div 2, ops[i][2], ops[i][3]).mbuf
                    [] ops[i][1] = "remove" -> B!mbuf_remove(a, 2)
                    [] ops[i][1] = "trim" -> B!mbuf_trim(a, ops[i][3])
                    [] ops[i][1] = "resize" -> B!mbuf_resize(a, 4, ops[i][3])))
Mbuf == Asked("mbuf") /\ answer' = MbufRun(call[2])

(* Base64 of data, in one piece or in two, is four characters for three    *)
(* bytes, decodes to the data, and clean text decodes to what it encodes;  *)
(* a name and a password come back from their header, cut to the room for  *)
(* them; hexadecimal and URL escapes come back as the bytes; a decoded     *)
(* text is refused when an escape is broken or there is no room and else   *)
(* complete; the value of a form is the one of the first pair of that      *)
(* name; a buffer holds what was put into it even when there is no memory  *)
(* (mongoose.c:353-542, 1040-1108, 1749-1785, 6388-6450, 6554-6575, 6739,  *)
(* 9560-9575).                                                             *)
BytesExact ==
    done =>
    CASE call[1] = "base64" ->
            /\ answer[1] = answer[2] /\ Len(answer[1]) = 4 * ((Len(call[2]) + 2) \div 3)
            /\ B!cs_base64_decode(answer[1], Len(answer[1])) =
                   [out |-> call[2], consumed |-> Len(answer[1]), stop |-> Len(call[2]) % 3 # 0]
      [] call[1] = "unbase64" ->
            /\ answer.consumed <= Len(call[2]) /\ Len(answer.out) <= 3 * (answer.consumed \div 4)
            /\ (\A i \in DOMAIN call[2] : call[2][i] \notin {61, 63}) =>
                   /\ answer.consumed = 4 * (Len(call[2]) \div 4)
                   /\ B!cs_base64_encode(answer.out) = SubSeq(call[2], 1, answer.consumed)
      [] call[1] = "auth" ->
            LET user == SubSeq(call[2], 1, Upper(call[2], call[5] - 1))
                pass == SubSeq(call[4], 1, Upper(call[4], call[5] - 1))
            IN  answer = IF user = << >> /\ call[3] THEN [res |-> -1, user |-> << >>, pass |-> << >>]
                         ELSE [res |-> 0, user |-> user,
                               pass |-> IF call[3] /\ user = call[2] THEN pass ELSE << >>]
      [] call[1] = "hex" ->
            /\ answer[2] = call[2] /\ Len(answer[1]) = 2 * Len(call[2])
            /\ B!mg_url_decode(answer[3], 64, TRUE) = [dst |-> call[2], len |-> Len(call[2])]
      [] call[1] = "escape" ->
            LET meant == [i \in DOMAIN call[2] |-> IF call[2][i][2] = 32 /\ ~ call[4] THEN 43 ELSE call[2][i][2]]
                broken == \E i \in DOMAIN call[2] : call[2][i][2] = -1
                                /\ (i = Len(call[2]) \/ call[2][i + 1][2] # 97 \/ i + 1 = Len(call[2]) \/ call[2][i + 2][2] # 97)
            IN  /\ broken => answer.len = -1
                /\ (\A i \in DOMAIN meant : meant[i] # -1) =>
                      answer = IF Len(meant) < call[3] THEN [dst |-> meant, len |-> Len(meant)]
                               ELSE [dst |-> SubSeq(meant, 1, call[3] - 1), len |-> -1]
      [] call[1] = "var" ->
            \E pieces \in {Split(call[2], 38)} :
                LET Named(p) == \E i \in DOMAIN p : p[i] = 61 /\ B!LowerAll(SubSeq(p, 1, i - 1)) = B!LowerAll(call[3])
                    those == {k \in DOMAIN pieces : Named(pieces[k])}
                    k == T!Least(those)
                IN  IF those = {} THEN answer.len = -1
                    ELSE answer.len >= 0 /\ answer.dst = B!From(pieces[k], Len(call[3]) + 2)
      [] call[1] = "mbuf" ->
            \A i \in DOMAIN answer :
                /\ Len(answer[i].buf) <= answer[i].size
                /\ i > 1 =>
                     \E op \in {call[2][i - 1]}, was \in {answer[i - 1].buf} :
                       LET h == Len(was) \div 2
                           more == CASE op[1] = "append" -> was \o op[2]
                                     [] op[1] = "insert" -> SubSeq(was, 1, h) \o op[2] \o B!From(was, h + 1)
                                     [] OTHER -> was
                       IN  /\ op[1] = "remove" => answer[i].buf = IF Len(was) < 2 THEN was ELSE B!From(was, 3)
                           /\ op[1] # "remove" =>
                                answer[i].buf = IF op[3] \/ Len(more) <= answer[i - 1].size THEN more ELSE was
                           /\ op[1] = "trim" /\ op[3] => answer[i].size = Len(was)
      [] OTHER -> TRUE

-----------------------------------------------------------------------------
(* Texts.                                                                  *)
Order == [c \in {"a", "b"} |-> IF c = "a" THEN 1 ELSE 2]
AddressText(u) ==
    (IF u.scheme = << >> THEN << >> ELSE u.scheme \o <<":", "/", "/">>)
    \o (IF u.user = << >> THEN << >> ELSE u.user \o <<"@">>)
    \o u.host \o (IF u.port = << >> THEN << >> ELSE <<":">> \o u.port)
    \o u.path \o (IF u.query = << >> THEN << >> ELSE <<"?">> \o u.query)
    \o (IF u.fragment = << >> THEN << >> ELSE <<"#">> \o u.fragment)

Names == {<<"a">>, <<"A", "b">>}
Values == {<< >>, <<"b">>, <<"a", " ", ":", "b">>, <<"b", " ">>}
HeaderText(h) == Concat([i \in DOMAIN h |-> h[i][1] \o <<":", " ">> \o h[i][2] \o <<"r", "n">>]) \o <<"r", "n">>

(* A value in quotes, or as it is; its quote escaped in quotes.            *)
FieldValues == {<<"x">>, <<"x", "=", ";", "y">>, <<"q", "x", "q">>, <<"x", "q">>}
FieldText(f) ==
    f[1] \o <<"=">> \o (IF f[3] THEN <<"q">> \o Concat([i \in DOMAIN f[2] |-> IF f[2][i] = "q" THEN <<"\\", "q">> ELSE <<f[2][i]>>]) \o <<"q">>
                        ELSE f[2])
FieldsText(fields) == Between([i \in DOMAIN fields |-> FieldText(fields[i])], <<",", " ">>)

Lines(before, name, file, data) ==
    before \o <<"r", "n", "D">> \o FieldsText(<< <<<<"N">>, name, TRUE>>, <<<<"F">>, file, TRUE>> >>)
    \o <<"r", "n", "r", "n">> \o data \o <<"r", "n">> \o before \o <<"-", "-">>

TextCalls ==
    {<<"compare", s, t, n>> : s, t \in Sequences(3, {"a", "b"}), n \in 0 .. 2}
    \cup {<<"format", <<f, [conv |-> "", arg |-> "c"], f>>, size>> : f \in Formats, size \in {0, 1, 4, 10, 40}}
    \cup {<<"uri", u>> : u \in Addresses}
    \cup {<<"normal", <<"/">> \o p>> : p \in Sequences(7, {"/", "."}) \cup Sequences(5, {"/", ".", "a"})}
    \cup {<<"head", s>> : s \in Sequences(5, {"r", "n", "a", "x"})}
    \cup {<<"headers", h>> : h \in Sequences(3, Names \X Values)}
    \cup {<<"field", fields, size>> : size \in {3, 9}, fields \in
              Sequences(2, {<<"a">>, <<"b">>, <<"b", "a">>} \X FieldValues \X {TRUE}) \cup Sequences(2, {<<"a">>, <<"b">>} \X {<<"x">>} \X {FALSE})}
    \cup {<<"part", Lines(<<"-", "-">> \o b, name, file, data), data, name, file>> : b \in {<<"a">>, <<"a", "-", "b">>},
              name, file \in {<<"y">>, <<"z", "y">>}, data \in Sequences(4, {"-", "r", "x"})}
    \cup {<<"list", entries>> : entries \in Sequences(3, {<<"a">>, <<"b", "=", "a">>, <<"=">>, <<"a", "=", "=", "b">>})}

Compare == Asked("compare") /\ answer' =
    <<T!mg_strcmp(call[2], call[3], Order), T!mg_strncmp(call[2], call[3], call[4], Order), T!c_strnstr(call[2], call[3])>>
Format == Asked("format") /\ answer' = T!c_vsnprintf(call[3], call[2])
Uri == Asked("uri") /\ answer' = T!mg_parse_uri(AddressText(call[2]))
Normal == Asked("normal") /\ answer' = T!mg_normalize_uri_path(call[2])
HeadLen == Asked("head") /\ answer' = T!mg_http_get_request_len(call[2])
Headers == Asked("headers") /\ answer' = T!mg_http_parse_headers(HeaderText(call[2]), 3)
Field == Asked("field") /\ answer' = T!mg_http_parse_header(FieldsText(call[2]), <<"b">>, call[3])
Part == Asked("part") /\ answer' = T!mg_parse_multipart(call[2], 9)
List == Asked("list") /\ answer' = T!Entries(Between(call[2], <<",">>))

(* What printf of C makes of a conversion.                                 *)
Printed(f) ==
    LET digits == T!c_itoa(IF f.arg < 0 THEN -f.arg ELSE f.arg, IF f.conv = "x" THEN 16 ELSE 10, FALSE, 0)
        sign == IF f.arg < 0 THEN <<"-">> ELSE << >>
        pad == T!Many(f.width - Len(digits) - Len(sign), IF f.zero THEN "0" ELSE " ")
        text == IF f.precision = 0 THEN f.arg ELSE SubSeq(f.arg, 1, Upper(f.arg, f.precision))
    IN  CASE f.conv = "s" -> T!Many(f.width - Len(text), " ") \o text
          [] f.conv = "" -> <<f.arg>>
          [] OTHER -> IF f.zero THEN sign \o pad \o digits ELSE pad \o sign \o digits

(* The uses that come out otherwise: a width without the flag 0 for a      *)
(* number, with it for a negative one, or without a precision for a text.  *)
Odd(f) == CASE f.conv = "s" -> f.width > 0 /\ f.precision = 0
            [] f.conv = "" -> FALSE
            [] OTHER -> f.width > 0 /\ (~ f.zero \/ f.arg < 0)

(* Comparison orders texts as a dictionary does and finds the first place; *)
(* a format writes what C writes, as far as it has room, and says how long *)
(* it is; the parts of a URI, of a head, of a header, of a list and of a   *)
(* form are found again, with the exceptions the code makes.               *)
PartsExact ==
    done =>
    CASE call[1] = "compare" ->
            LET s == call[2]
                t == call[3]
                Before(x, y) == x # y /\ \/ SubSeq(y, 1, Upper(y, Len(x))) = x
                                         \/ \E i \in DOMAIN x \cap DOMAIN y : SubSeq(x, 1, i - 1) = SubSeq(y, 1, i - 1)
                                                                             /\ x[i] = "a" /\ y[i] = "b"
                Ordered(x, y) == IF x = y THEN 0 ELSE IF Before(x, y) THEN -1 ELSE 1
                Begins(i) == SubSeq(T!Rest(s, i), 1, Upper(T!Rest(s, i), Len(t))) = t
            IN  /\ answer[1] = Ordered(s, t)
                /\ answer[2] = Ordered(SubSeq(s, 1, Upper(s, call[4])), SubSeq(t, 1, Upper(t, call[4])))
                /\ answer[3] # 0 => Begins(answer[3]) /\ \A i \in 1 .. answer[3] - 1 : ~ Begins(i)
                /\ answer[3] = 0 => \A i \in DOMAIN s : ~ Begins(i)
      [] call[1] = "format" ->
            \E whole \in {Concat([i \in DOMAIN call[2] |-> Printed(call[2][i])])} :
                (\A i \in DOMAIN call[2] : ~ Odd(call[2][i])) =>
                    answer = [ret |-> Len(whole), stored |-> SubSeq(whole, 1, Upper(whole, call[3] - 1))]
      [] call[1] = "uri" ->
            LET u == call[2]
                port == ForUp(0, 1, Len(u.port), LAMBDA n, i : 10 * n + T!Value(u.port[i]))
                merged == IF u.query = << >> /\ u.fragment # << >>
                          THEN [u EXCEPT !.path = @ \o <<"#">> \o u.fragment, !.fragment = << >>] ELSE u
            IN  answer = [merged EXCEPT !.port = port]
      [] call[1] = "normal" ->
            LET parts == Split(T!Rest(call[2], 2), "/")
                Piece(k) == parts[k] \o IF k < Len(parts) THEN <<"/">> ELSE << >>
                kept == ForUp(<< >>, 1, Len(parts), LAMBDA t, k :
                    CASE parts[k] = <<".">> -> t
                      [] parts[k] = <<".", ".">> -> IF t = << >> THEN t ELSE SubSeq(t, 1, Len(t) - 1)
                      [] OTHER -> Append(t, Piece(k)))
            IN  answer = <<"/">> \o Concat(kept)
      [] call[1] = "head" ->
            LET s == call[2]
                Blank(i) == \E j \in 1 .. i - 1 : s[j] = "n" /\ s[i] = "n" /\ SubSeq(s, j + 1, i - 1) \in {<< >>, <<"r">>}
            IN  /\ answer > 0 => Blank(answer) /\ (\A i \in 1 .. answer - 1 : ~ Blank(i) /\ s[i] # "x")
                /\ answer = 0 => \A i \in DOMAIN s : ~ Blank(i) /\ s[i] # "x"
                /\ answer = -1 => \E i \in DOMAIN s : s[i] = "x" /\ \A j \in 1 .. i - 1 : ~ Blank(j)
      [] call[1] = "headers" ->
            \E shown \in {SelectSeq([i \in DOMAIN call[2] |-> <<call[2][i][1], T!Trimmed(call[2][i][2])>>], LAMBDA h : h[2] # << >>)} :
                /\ answer.headers = SubSeq(shown, 1, Upper(shown, 2))
                /\ \A n \in Names : T!mg_get_http_header(answer.headers, n) =
                       LET those == SelectSeq(answer.headers, LAMBDA h : h[1] = n) IN IF those = << >> THEN << >> ELSE those[1][2]
      [] call[1] = "field" ->
            \E those \in {SelectSeq(call[2], LAMBDA f : f[1] = <<"b">>)} :
                answer = IF those = << >> \/ Len(those[1][2]) >= call[3] THEN << >> ELSE those[1][2]
      [] call[1] = "part" ->
            answer.data = call[3] /\ answer.name = call[4] /\ answer.file = call[5]
      [] call[1] = "list" ->
            /\ Len(answer) = Len(call[2])
            /\ \A i \in DOMAIN answer :
                   call[2][i] = answer[i][1] \o (IF "=" \in {call[2][i][j] : j \in DOMAIN call[2][i]} THEN <<"=">> \o answer[i][2] ELSE << >>)
                   /\ \A j \in DOMAIN answer[i][1] : answer[i][1][j] # "="
      [] OTHER -> TRUE

-----------------------------------------------------------------------------
(* Names: patterns, networks, files, passwords, dates.                     *)
Patterns == Sequences(3, {"a", "/", "?", "*", "$", "|"}) \cup
            {<<"/", "*", "*", "a", "$">>, <<"*", "a", "/", "*", "b">>, <<"a", "*", "|", "*", "*", "b">>, <<"*", "*", "*", "a">>}
Behind == [space |-> <<" ", " ">>, query |-> <<"?", " ">>]
Rules(width) == {[flag |-> f, valid |-> TRUE, net |-> n, slash |-> l] : f \in {"+", "-"}, n \in 0 .. 2 ^ width - 1, l \in 0 .. width}
                \cup {[flag |-> "a", valid |-> TRUE, net |-> 0, slash |-> 0], [flag |-> "+", valid |-> FALSE, net |-> 0, slash |-> 0]}
RootDir == <<"w">>
Files == (RootDir :> "dir") @@ (<<"w", "/", "a">> :> "dir") @@ (<<"w", "/", "a", "/", "a">> :> "file")
         @@ (<<"w", "/", ".", ".", ".">> :> "file") @@ (<<"v", "/", "a">> :> "file")
Request(now, uri, hdr) == [now |-> now, method |-> "GET", uri |-> uri, has_hdr |-> TRUE, hdr |-> hdr]
Passwords == {<< >>, << <<"u", "d", T!ha1("u", "d", "p")>> >>,
              << <<"v", "d", T!ha1("v", "d", "p")>>, <<"u", "d", T!ha1("u", "d", "p")>>, <<"u", "d", T!ha1("u", "d", "q")>> >>}

NameCalls ==
    {<<"match", p, s, "space">> : p \in Patterns, s \in Sequences(3, {"a", "A", "/"}) \cup {<<"a", "/", "b", "a", "b">>}}
    \cup {<<"match", p, s, "query">> : p \in {<<"/", "?">>, <<"a", "?", "$">>}, s \in Sequences(2, {"a", "/"})}
    \cup {<<"endpoint", e, s>> : e \in Sequences(3, {<<"/">>, <<"/", "a">>, <<"/", "*">>, <<"b", "*">>}), s \in {<<"/">>, <<"/", "a", "b">>, <<"a">>}}
    \cup {<<"network", acl, ip>> : acl \in Sequences(2, Rules(2)), ip \in 0 .. 3}
    \cup {<<"file", <<"/">> \o u, << >>>> : u \in Sequences(5, {"/", "a", ".", "%."}) \cup Sequences(3, {"/", "a", "%", "%/", "%0"})
                                              \cup {<<"a", "/", "a", "/", "b">>, <<".", ".", ".", "/", "a">>, <<"b", "/", ".", ".", "/", "a", "/", "a", "/">>}}
    \cup {<<"file", <<"/">> \o u, rules>> : u \in Sequences(3, {"/", "a"}),
              rules \in {<< <<<<"/", "a">>, <<"v">>>> >>, << <<<<"@", "h">>, <<"v">>>> >>, << <<<<"@", "g">>, <<"v">>>>, <<<<"/", "a", "/">>, <<"v", "/">>>> >>}}
    \cup {<<"password", later, user, passwd, uri, lines, global>> : later \in {-1, 0, 3599, 3600}, user \in {"u", "v", "x"}, passwd \in {"p", "q"},
              uri \in {"/", "/a"}, lines \in Passwords, global \in BOOLEAN}
    \cup {<<"date", y, m, d>> : y \in Years, m \in 1 .. 12, d \in {1, 17, 28}} \cup {<<"date", y, 2, 29>> : y \in {x \in Years : x % 4 = 0 /\ (x % 100 # 0 \/ x % 400 = 0)}}

Match == Asked("match") /\ answer' = T!mg_match_prefix_n(call[2], call[3] \o Behind[call[4]], Len(call[3]))
Endpoint == Asked("endpoint") /\ answer' = T!mg_http_get_endpoint_handler(call[2], call[3] \o Behind.space, Len(call[3]))
Network == Asked("network") /\ answer' = T!mg_check_ip_acl(call[2], call[3], 2)
LocalPath == Asked("file") /\ answer' = T!mg_uri_to_local_path(call[2], call[3], <<"h">>, RootDir \o <<"/">>, Files)
Password == Asked("password") /\ answer' =
    LET hdr == T!mg_http_create_digest_auth_header(5000, "GET", "/", "d", call[3], call[4])
        name == IF call[7] THEN <<"p", "w">> ELSE <<"a", "/", "p", "w">>
    IN  T!mg_is_authorized(Request(5000 + call[2], call[5], hdr), <<"a", "/", "b">>, FALSE, "d", <<"p", "w">>, call[7],
                           IF call[6] = << >> THEN << >> ELSE name :> call[6])
Date == Asked("date") /\ answer' = T!mg_parse_date_string([year |-> call[2], month |-> call[3], day |-> call[4], second |-> 1])

(* The places where a pattern may end in a text.                           *)
Ends(pattern, text) ==
    LET E[i \in 1 .. Len(pattern) + 1, j \in 0 .. Len(text)] ==
            IF i > Len(pattern) THEN {j}
            ELSE CASE pattern[i] = "?" -> IF j < Len(text) THEN E[i + 1, j + 1] ELSE {}
                   [] pattern[i] = "$" -> IF j = Len(text) THEN {j} ELSE {}
                   [] pattern[i] = "*" ->
                        LET deep == i < Len(pattern) /\ pattern[i + 1] = "*" IN
                        UNION {E[IF deep THEN i + 2 ELSE i + 1, k] :
                                  k \in {k \in j .. Len(text) : deep \/ \A l \in j + 1 .. k : text[l] # "/"}}
                   [] OTHER -> IF j < Len(text) /\ T!Lower(text[j + 1]) = T!Lower(pattern[i]) THEN E[i + 1, j + 1] ELSE {}
    IN  E[1, 0]

LeapYear(y) == y % 4 = 0 /\ (y % 100 # 0 \/ y % 400 = 0)
(* Days before the first of March of year 0, counted in years from March.  *)
DayNumber(y, m, d) ==
    LET yy == IF m <= 2 THEN y - 1 ELSE y
        mm == IF m <= 2 THEN m + 9 ELSE m - 3
    IN  365 * yy + (yy \div 4) - (yy \div 100) + (yy \div 400) + ((153 * mm + 2) \div 5) + d

(* A pattern ends where it may end, unless an alternative that could only  *)
(* match nothing makes way for the last one, or a "?" meets the query; the *)
(* endpoint found is one whose match no other exceeds; the last rule that  *)
(* fits an address decides and one with bits behind its mask fits none; a  *)
(* path never leaves its root, is its URI without dots and what follows    *)
(* the file found, unless a rule that matched half a component has moved   *)
(* its start; a password is good for an hour, for the method and the URI   *)
(* it was meant for; a date is right but in the first two months of a leap *)
(* year, when it is a day late.                                            *)
NamesExact ==
    done =>
    CASE call[1] = "match" ->
            \E alts \in {Split(call[2], "|")} :
            \E ends \in {[k \in DOMAIN alts |-> Ends(alts[k], call[3])]} :
                LET any == UNION {ends[k] : k \in DOMAIN ends}
                    only == \A k \in 1 .. Len(alts) - 1 : ends[k] \subseteq {0}
                IN  \/ answer \in any
                    \/ answer = -1 /\ only /\ ends[Len(ends)] = {}
                    \/ call[4] = "query" /\ any = {} /\ answer = Len(call[3]) + 1
      [] call[1] = "endpoint" ->
            LET Best(e) == T!Most(Ends(call[2][e], call[3]) \cup {0}) IN
            IF answer = 0 THEN \A e \in DOMAIN call[2] : Best(e) = 0
            ELSE Best(answer) > 0 /\ \A e \in DOMAIN call[2] : Best(e) <= Best(answer)
      [] call[1] = "network" ->
            LET Fits(r) == call[3] \div 2 ^ (2 - r.slash) = r.net \div 2 ^ (2 - r.slash) /\ r.net % 2 ^ (2 - r.slash) = 0
                fit == SelectSeq(call[2], Fits)
            IN  answer = CASE \E k \in DOMAIN call[2] : call[2][k].flag = "a" \/ ~ call[2][k].valid -> -1
                           [] call[2] = << >> -> 1
                           [] fit = << >> /\ call[2] # << >> -> 0
                           [] OTHER -> IF fit[Len(fit)].flag = "+" THEN 1 ELSE 0
      [] call[1] = "file" /\ answer.ok ->
            LET uri == call[2]
                rule == IF call[3] = << >> THEN << >> ELSE call[3][1][1]
                Begins(p) == SubSeq(uri, 1, Upper(uri, Len(p))) = p
                moved == rule = <<"/", "a">> /\ Begins(<<"/", "a", "a">>)
                under == \/ rule = <<"/", "a">> /\ uri \in {<<"/", "a">>} \cup {u \in {uri} : Begins(<<"/", "a", "/">>)}
                         \/ rule = <<"@", "g">> /\ Begins(<<"/", "a", "/">>)
                base == IF under \/ rule = <<"@", "h">> THEN <<"v">> ELSE RootDir
                taken == SubSeq(uri, IF under THEN 3 ELSE 1, Len(uri) - Len(answer.remainder))
                parts == Split([i \in 1 .. Len(taken) - 1 |-> T!Plain(taken[i + 1])], "/")
                stack == ForUp(<< >>, 1, Len(parts), LAMBDA t, k :
                    CASE parts[k] \in {<< >>, <<".">>} -> t
                      [] parts[k] = <<".", ".">> -> IF t = << >> THEN t ELSE SubSeq(t, 1, Len(t) - 1)
                      [] OTHER -> Append(t, parts[k]))
            IN  ~ moved =>
                /\ answer.path = base \o Concat([k \in DOMAIN stack |-> <<"/">> \o stack[k]])
                /\ answer.remainder # << >> => answer.path \in DOMAIN Files /\ Files[answer.path] = "file" /\ answer.remainder[1] = "/"
                /\ \A i \in DOMAIN taken : taken[i] \notin {"%", "%0", "%/"}
      [] call[1] = "file" /\ ~ answer.ok -> \E i \in DOMAIN call[2] : call[2][i] \in {"%", "%0", "%/"}
      [] call[1] = "password" ->
            answer <=> \/ call[6] = << >>
                       \/ call[3] # "x" /\ call[4] = "p" /\ call[5] = "/" /\ call[2] < 3600
                          /\ \E i \in DOMAIN call[6] : call[6][i][1] = call[3]
      [] call[1] = "date" ->
            LET late == IF LeapYear(call[2]) /\ call[3] <= 2 THEN 1 ELSE 0 IN
            answer = 24 * 3600 * (DayNumber(call[2], call[3], call[4]) - DayNumber(1970, 1, 1) + late) + 1
      [] OTHER -> TRUE
-----------------------------------------------------------------------------
(* Sites: URLs to connect to, the pages of other servers, files, includes, *)
(* uploads.                                                                *)
UrlText(u) == u.scheme \o (IF u.has_user THEN u.user \o <<":">> \o u.pass \o <<"@">> ELSE << >>) \o u.host
              \o (IF u.port = << >> THEN << >> ELSE <<":">> \o u.port) \o u.path
Urls == {[scheme |-> s, has_user |-> h, user |-> u, pass |-> p, host |-> <<"h", "o">>, port |-> n, path |-> t] :
            s \in {<< >>, <<"H">>, <<"S">>}, h \in BOOLEAN, u, p \in {<< >>, <<"u">>}, n \in {<< >>, <<"9", "9">>},
            t \in {<< >>, <<"/", "a", ":", "@">>}}

HeaderSet == {<<"X", "1">>, <<"Host", "h">>, <<"Expect", "100-continue">>, <<"Expect", "2">>,
              <<"Transfer-encoding", "chunked">>, <<"Transfer-encoding", "2">>}

(* What may happen to a linked pair: the server refuses or replies, at     *)
(* most once, and goes; the client goes when it likes.                     *)
LinkEvents == {<<"refused", "close", "server">>, <<"reply", "close", "server">>, <<"close", "server">>}
Links == UNION {{e} \cup {SubSeq(e, 1, i) \o <<"client">> \o SubSeq(e, i + 1, Len(e)) : i \in 0 .. Len(e)} : e \in LinkEvents}

(* A directory w with a page i, a file h that is hidden, a program g, the  *)
(* passwords p; a directory a with an index file; a directory b with none. *)
Under(s) == <<"w">> \o s
Site == (Under(<< >>) :> "dir") @@ (Under(<<"/", "a">>) :> "dir") @@ (Under(<<"/", "a", "/", "i">>) :> "file") @@ (Under(<<"/", "a", "/", "x">>) :> "dir")
        @@ (Under(<<"/", "b">>) :> "dir") @@ (Under(<<"/", "b", "/", "s">>) :> "file") @@ (Under(<<"/", "h">>) :> "file")
        @@ (Under(<<"/", "f">>) :> "file") @@ (Under(<<"/", "g">>) :> "file") @@ (Under(<<"/", "p">>) :> "file")
UriParts == {<<"a">>, <<"b">>, <<"f">>, <<"g">>, <<"h">>, <<"i">>, <<"p">>, <<"s">>, <<"z">>, <<".", ".">>}
Uris == {<<"/">> \o Between(parts, <<"/">>) \o tail : parts \in Sequences(2, UriParts), tail \in {<< >>, <<"/">>}} \ {<<"/", "/">>}
Options(domain, global, listing) ==
    [acl |-> <<[flag |-> "+", valid |-> TRUE, net |-> 2, slash |-> 1]>>, rewrites |-> T!Entries(<<"/", "o", "=", "H", "e", "/", "y", ",", "%", "9", "=", "H", "k">>),
     document_root |-> <<"w">>, auth_file |-> <<"p">>, hidden |-> <<"h">>, index_files |-> <<"x", ",", "i">>, cgi |-> <<"*", "*", "g", "$">>,
     ssi |-> <<"*", "*", "s", "$">>, listing |-> listing, domain |-> domain, global_auth_file |-> global]
Asks(uri, method, remote, none_match, auth) ==
    [uri |-> uri, query |-> <<"?", "q">>, method |-> method, remote |-> remote, none_match |-> none_match, port |-> <<"8">>, host |-> << >>, now |-> 9,
     headers |-> << >>, body |-> << >>, has_hdr |-> auth # "none", hdr |-> T!mg_http_create_digest_auth_header(9, method, uri, "d", "u", auth)]
Known == << <<"u", "d", T!ha1("u", "d", "right")>> >>

(* PagePieces of a page: text, a word that looks like a tag, and directives;   *)
(* beside each what becomes of it, or the page it includes.                *)
Tag(text) == T!btag \o text \o <<" ", "-", "-", ">">>
Include(kind, name) == Tag(<<"i", " ", kind>> \o name \o <<"q">>)
PagePieces == {<< <<"a">>, <<"a">>, << >> >>, << <<">">>, <<">">>, << >> >>, << T!Many(25, "b"), T!Many(25, "b"), << >> >>,
           << <<"<", "!", "-", "-", "c", " ", "-", "-", ">">>, <<"<", "!", "-", "-", "c", " ", "-", "-", ">">>, << >> >>,
           << Tag(<<"x">>), << >>, << >> >>, << Tag(<< >>), << >>, << >> >>, << Tag(<<"c", " ", "y">>), <<"C", "y">>, << >> >>,
           << Include("V", <<"a", "/", "s">>), << >>, <<"w", "/", "a", "/", "s">> >>, << Include("F", <<"t">>), << >>, <<"w", "/", "t">> >>,
           << Include("A", <<"w", "/", "a", "/", "t">>), << >>, <<"w", "/", "a", "/", "t">> >>, << Include("q", <<"z">>), <<"E">>, << >> >>,
           << Tag(<<"i", " ", "z">>), <<"B">>, << >> >>}
Self == << Include("F", <<"s">>), << >>, <<"w", "/", "s">> >>
ShortTag == << <<"<", "!", "-", "-", ">">>, << >>, << >> >>
PageTexts == Sequences(2, PagePieces) \cup {<<Self>>} \cup {<<p, Self, q>> : p, q \in PagePieces} \cup {<<ShortTag, p, q>> : p \in PagePieces \cup {Self}, q \in PagePieces}
Texts(page) == (Under(<<"/", "s">>) :> Concat([i \in DOMAIN page |-> page[i][1]])) @@ (Under(<<"/", "t">>) :> <<"1">>)
               @@ (Under(<<"/", "a", "/", "s">>) :> <<"2">> \o Include("q", <<"t">>)) @@ (Under(<<"/", "a", "/", "t">>) :> <<"3">>)

Uploads == {<<b>> \o d \o <<e>> : b \in {"begin", "begin forbidden", "begin unopened"}, d \in Sequences(3, {"data", "data full", "data failed"}),
                                  e \in {"end", "end closed"}}

SiteCalls ==
    {<<"connect", u, post>> : u \in Urls, post \in {<< >>, <<"b", "c">>}}
    \cup {<<"forward", hs, body, uri>> : hs \in Sequences(3, HeaderSet), body \in {<< >>, <<"b", "c">>}, uri \in {<<"/", "o">>, <<"/", "o", "/", "a">>}}
    \cup {<<"link", es>> : es \in Links}
    \cup {<<"serve", Asks(uri, "GET", 2, "none", auth), o>> : uri \in Uris, auth \in {"none", "right", "wrong"},
              o \in {Options("none", << >>, TRUE), Options("d", << >>, FALSE), Options("d", <<"w", "/", "p">>, TRUE)}}
    \cup {<<"serve", Asks(uri, m, remote, "old", "none"), Options("none", << >>, TRUE)>> : uri \in Uris, m \in {"GET", "OPTIONS"}, remote \in {1, 2}}
    \cup {<<"serve", Asks(uri, "GET", 2, "new", "none"), Options("none", << >>, FALSE)>> : uri \in Uris}
    \cup {<<"serve", [Asks(<<"/", c>>, "GET", 2, "none", "none") EXCEPT !.port = <<"9">>], Options("d", << >>, TRUE)>> : c \in {"a", "z"}}
    \cup {<<"include", p>> : p \in PageTexts}
    \cup {<<"upload", es>> : es \in Uploads}

Connect == Asked("connect") /\ answer' = T!mg_connect_http_opt(UrlText(call[2]), call[3])
Forward == Asked("forward") /\ answer' =
    T!mg_serve_http([Asks(call[4], "GET", 2, "none", "none") EXCEPT !.headers = call[2], !.body = call[3]], Options("none", << >>, TRUE), << >>, << >>)
Link == Asked("link") /\ answer' =
    ForUp(<<[linked |-> TRUE, back |-> TRUE, sent |-> << >>, closing |-> {}]>>, 1, Len(call[2]), LAMBDA ps, i :
        Append(ps, IF call[2][i] \in {"client", "server"} THEN T!mg_http_free_reverse_proxy_data(ps[i], call[2][i])
                   ELSE T!mg_reverse_proxy_handler(ps[i], call[2][i])))
Serve == Asked("serve") /\ answer' = T!mg_serve_http(call[2], call[3], Site, Under(<<"/", "p">>) :> Known)
IncludePage == Asked("include") /\ answer' =
    T!mg_send_ssi_file(Under(<<"/", "s">>), Texts(call[2]), [document_root |-> <<"w">>, ssi |-> <<"*", "*", "s", "$">>], 20)
Upload == Asked("upload") /\ answer' = ForUp(T!NoUpload, 1, Len(call[2]), LAMBDA u, i : T!mg_file_upload_handler(u, call[2][i]))

(* What a page shows, level includes deep.                                 *)
Shows(page) ==
    LET Show[level \in 0 .. 11] ==
            IF level = 11 THEN <<"D">>
            ELSE Concat([i \in DOMAIN page |->
                 CASE page[i] = Self -> Show[level + 1]
                   [] page[i][3] = Under(<<"/", "a", "/", "s">>) -> IF level = 10 THEN <<"D">> ELSE <<"2", "3">>
                   [] page[i][3] = Under(<<"/", "a", "/", "t">>) -> <<"3">>
                   [] page[i][3] = Under(<<"/", "t">>) -> <<"1">>
                   [] OTHER -> page[i][2]])
    IN  Show[0]

(* A URL is taken apart into what it was made of; the host is told without *)
(* the port that was added, if there is no user to confuse it. What is     *)
(* asked of another server is what the client asked, without its query; an *)
(* answer goes to a client that is there, once, and a client whose server  *)
(* is gone is closed (for the server of a client that is gone see          *)
(* DieTogether). A file that is served is under the root, not hidden, not  *)
(* changed since, and the client is known; a stranger does not learn what  *)
(* is there but directories; a page shows its text and what it includes,   *)
(* ten deep; an upload that ends is answered once, and told to be good if  *)
(* and only if all of it is in the file (mongoose.c:5099, 6373, 6932-7069, *)
(* 7308-7720, 8344-8490).                                                  *)
SitesExact ==
    done =>
    CASE call[1] = "connect" ->
            LET u == call[2]
                to == u.host \o <<":">> \o IF u.port = << >> THEN <<"8", "0">> ELSE u.port
                host == IF u.port = << >> THEN u.host ELSE to
            IN  IF u.scheme = <<"S">> THEN ~ answer.ok
                ELSE /\ answer.ok /\ answer.to = to /\ (answer.host = host \/ (u.port = << >> /\ u.has_user)) /\ answer.body = call[3] /\ answer.length = Len(call[3])
                     /\ answer.path = (IF u.path = << >> THEN <<"/">> ELSE u.path)
                     /\ answer.auth = (IF u.has_user THEN <<u.user, u.pass>> ELSE << >>)
                     /\ answer.method = "POST" <=> call[3] # << >>
      [] call[1] = "forward" ->
            \E kept \in {SelectSeq(call[2], LAMBDA h : h[1] = "X" \/ h = <<"Expect", "2">> \/ h[1] = "Transfer-encoding")} :
                /\ answer.to = <<"e", ":", "8", "0">> /\ answer.host = <<"e">> /\ answer.path = <<"/", "y">> \o T!Rest(call[4], 3)
                /\ answer.body = call[3] /\ Len(answer.headers) = Len(kept)
                /\ \A i \in DOMAIN kept : answer.headers[i] = IF kept[i] = <<"Transfer-encoding", "chunked">> THEN <<"Content-Length", call[3]>> ELSE kept[i]
      [] call[1] = "link" ->
            \A i \in DOMAIN call[2] :
                LET Gone(who, k) == \E j \in 1 .. k : call[2][j] = who
                    was == answer[i]
                    is == answer[i + 1]
                IN  /\ Len(is.sent) <= 1 /\ is.linked = is.back
                    /\ Gone("client", i) => is.sent = was.sent
                    /\ ~ Gone("client", i) /\ Gone("server", i) => "client" \in is.closing
                    /\ ~ Gone("client", i) => \A j \in 1 .. i : call[2][j] = "reply" => is.sent = <<200>> /\ "server" \in is.closing
                    /\ ~ Gone("client", i) => \A j \in 1 .. i : call[2][j] = "refused" => is.sent = <<502>>
      [] call[1] = "serve" /\ call[2].port = <<"9">> -> answer = [status |-> 301, to |-> <<"H", "k">> \o call[2].uri \o call[2].query]
      [] call[1] = "serve" /\ call[2].port # <<"9">> ->
            LET req == call[2]
                opts == call[3]
                uri == T!mg_normalize_uri_path(req.uri)
                bare == IF uri[Len(uri)] = "/" THEN SubSeq(uri, 1, Len(uri) - 1) ELSE uri
                path == Under(bare)
                There(kind) == path \in DOMAIN Site /\ Site[path] = kind
                name == path[Len(path)]
                guarded == \/ opts.global_auth_file # << >>
                           \/ bare = << >>
                           \/ Len(bare) = 2 /\ ~ There("dir")
                known == opts.domain = "none" \/ ~ guarded \/ (req.has_hdr /\ req.hdr.response[1] = Known[1][3] /\ req.uri = uri)
                mayRead == known /\ req.remote = 2
            IN  /\ (answer.status = 200 /\ req.method = "GET") =>
                       /\ mayRead /\ name \notin {"h", "p"} /\ (req.none_match = "new" => answer.kind = "listing")
                       /\ answer.path \in DOMAIN Site /\ (answer.kind = "listing" <=> Site[answer.path] = "dir")
                       /\ answer.path \in {path, path \o <<"/", "i">>}
                       /\ answer.kind = "ssi" <=> answer.path[Len(answer.path)] = "s"
                /\ (There("file") /\ uri = bare /\ mayRead /\ name \in {"f", "i", "s"} /\ req.method = "GET" /\ req.none_match # "new") =>
                       answer.status = 200 /\ answer.path = path
                /\ (There("dir") /\ bare # uri /\ mayRead /\ req.method = "GET" /\ req.none_match # "new") =>
                       IF path = Under(<<"/", "a">>) THEN answer.status = 200 /\ answer.path = Under(<<"/", "a", "/", "i">>)
                       ELSE answer.status = IF opts.listing THEN 200 ELSE 403
                /\ ~ mayRead => answer.status \in {301, 401, 403, 501}
                /\ answer.status = 301 => There("dir") /\ answer.to = Append(uri, "/")
                /\ answer.status = 404 => path \notin DOMAIN Site \/ name \in {"h", "p"}
                /\ req.remote # 2 <=> answer.status = 403 /\ ~ (There("dir") /\ ~ opts.listing)
      [] call[1] = "include" -> answer = Shows(call[2])
      [] call[1] = "upload" ->
            LET es == call[2]
                all == \A i \in DOMAIN es : es[i] \in {"begin", "data", "end", "end closed"}
                cut == es[Len(es)] = "end closed"
            IN  /\ Len(answer.told) = IF all /\ cut THEN 0 ELSE 1
                /\ answer.told = <<200>> <=> all /\ ~ cut
                /\ answer.stored = IF all THEN Len(es) - 2 ELSE -1
                /\ answer.closing /\ answer.fus = "none"
                /\ answer.lost = IF es[1] = "begin forbidden" THEN 1 ELSE 0
      [] OTHER -> TRUE

(* Two connections of a proxy "must live and die together"                 *)
(* (mongoose.c:7012): when one has ended the other one has, too, or is     *)
(* told to close.  The comment of the code that unlinks them says so       *)
(* again (mongoose.c:5101-5105), but it marks the connection that dies.    *)
DieTogether ==
    done /\ call[1] = "link" =>
        \A i \in DOMAIN call[2] :
            LET ended == {call[2][j] : j \in 1 .. i} \cap {"client", "server"} IN
            ended # {} => {"client", "server"} \subseteq ended \cup answer[i + 1].closing
=============================================================================
