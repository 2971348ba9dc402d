--------------------------- MODULE MongooseHeaders --------------------------
(***************************************************************************)
(* What mongoose.c does with texts: strings, formats, URIs, patterns and   *)
(* comma lists; with the parts of a request: its headers, lists of         *)
(* options, the way from a URI to a file, passwords, dates and parts of a  *)
(* form; and how a site is served with them: files, their includes, other  *)
(* servers' pages, uploads.  A text is a sequence of characters, each a    *)
(* string of one letter; a character stands for a word where only the      *)
(* whole word is ever looked at, and it is then told how.                  *)
(***************************************************************************)
EXTENDS Loops, Sequences, FiniteSets

Rest(s, first) == SubSeq(s, first, Len(s))
Least(S) == CHOOSE x \in S : \A y \in S : x <= y
Most(S) == CHOOSE x \in S : \A y \in S : y <= x

(* The position of the first character of set from position first on, one  *)
(* beyond the end when there is none.                                      *)
Find(s, first, set) == Least({i \in first .. Len(s) : s[i] \in set} \cup {Len(s) + 1})

-----------------------------------------------------------------------------
(* Strings: the difference of the lengths decides when one text starts     *)
(* with the other.  Order is the order of the characters.                  *)
Sign(n) == IF n > 0 THEN 1 ELSE IF n < 0 THEN -1 ELSE 0

mg_strcmp(s, t, order) ==
    LET both == IF Len(s) < Len(t) THEN Len(s) ELSE Len(t)
        i == Least({j \in 1 .. both : s[j] # t[j]} \cup {both + 1})
    IN  IF i <= both THEN Sign(order[s[i]] - order[t[i]]) ELSE Sign(Len(s) - Len(t))

mg_strncmp(s, t, n, order) ==
    mg_strcmp(SubSeq(s, 1, IF Len(s) > n THEN n ELSE Len(s)), SubSeq(t, 1, IF Len(t) > n THEN n ELSE Len(t)), order)

(* The place, from 1 on, of find in s, 0 when there is none; an empty find *)
(* is found in no empty s.                                                 *)
c_strnstr(s, find) ==
    LET at == {i \in 1 .. Len(s) : i + Len(find) - 1 <= Len(s) /\ SubSeq(s, i, i + Len(find) - 1) = find} IN
    IF at = {} THEN 0 ELSE Least(at)

-----------------------------------------------------------------------------
(* Formats.  A format is a sequence of characters and conversions, a       *)
(* conversion a record [zero, width, precision, conv, arg].                *)
Figures == <<"0", "1", "2", "3", "4", "5", "6", "7", "8", "9", "a", "b", "c", "d", "e", "f">>
TmpSize == 40
Many(n, c) == [i \in 1 .. n |-> c]

(* The figures of a number, the last one first.                            *)
Reversed(num, base) ==
    ForUp([n |-> num, out |-> << >>], 1, TmpSize, LAMBDA s, i :
        IF i > 1 /\ s.n = 0 THEN s
        ELSE [n |-> s.n \div base, out |-> Append(s.out, Figures[(s.n % base) + 1])]).out

(* Zeros up to the width, and then the sign.                               *)
c_itoa(num, base, zero, width) ==
    With(Reversed(IF num < 0 THEN -num ELSE num, base), LAMBDA tmp :
        LET least == IF width < TmpSize - 1 THEN width ELSE TmpSize - 1
            padded == IF zero /\ Len(tmp) < least THEN tmp \o Many(least - Len(tmp), "0") ELSE tmp
            signed == IF num < 0 THEN Append(padded, "-") ELSE padded
        IN  [i \in DOMAIN signed |-> signed[Len(signed) + 1 - i]])

(* A text is set to the right of as many blanks as the width, less what    *)
(* the precision shows of it: no precision is a precision of 0 there, and  *)
(* no limit when the text is copied.                                       *)
Converted(f) ==
    CASE f.conv = "s" ->
            LET shown == IF Len(f.arg) < f.precision THEN Len(f.arg) ELSE f.precision
                pad == f.width - (IF f.precision >= 0 THEN shown ELSE 0)
            IN  Many(pad, " ") \o (IF f.precision <= 0 THEN f.arg ELSE SubSeq(f.arg, 1, shown))
      [] f.conv = "c" -> <<f.arg>>
      [] f.conv \in {"d", "u"} -> c_itoa(f.arg, 10, f.zero, f.width)
      [] f.conv = "x" -> c_itoa(f.arg, 16, f.zero, f.width)
      [] f.conv = "p" -> <<"0", "x">> \o c_itoa(f.arg, 16, f.zero, 0)

(* What is stored, without the NUL, and the length of the whole text.      *)
c_vsnprintf(buf_size, fmt) ==
    With(ForUp(<< >>, 1, Len(fmt), LAMBDA out, i : out \o (IF fmt[i].conv = "" THEN <<fmt[i].arg>> ELSE Converted(fmt[i]))),
         LAMBDA out : [stored |-> SubSeq(out, 1, IF Len(out) < buf_size THEN Len(out) ELSE buf_size - 1), ret |-> Len(out)])

-----------------------------------------------------------------------------
(* URIs.                                                                   *)
(* The part of s before sep and the position behind it.                    *)
parse_uri_component(s, p, sep) ==
    LET e == Find(s, p, {sep}) IN
    [res |-> SubSeq(s, p, e - 1), p |-> IF e <= Len(s) THEN e + 1 ELSE e]

NoUri == [scheme |-> << >>, user |-> << >>, host |-> << >>, port |-> 0, path |-> << >>, query |-> << >>, fragment |-> << >>]

ReadRest(u, uri, p) ==
    With(parse_uri_component(uri, p, "?"), LAMBDA path :
    With(parse_uri_component(uri, path.p, "#"), LAMBDA query :
        [u EXCEPT !.path = path.res, !.query = query.res, !.fragment = Rest(uri, query.p)]))

(* A port is made of digits; nothing in the code looks whether it is.      *)
Value(c) == (CHOOSE i \in 1 .. 10 : Figures[i] = c) - 1
ReadPort(u, uri, p) ==
    LET e == Find(uri, p, {"/"}) IN
    ReadRest([u EXCEPT !.port = ForUp(0, p, e - 1, LAMBDA n, i : 10 * n + Value(uri[i]))], uri, e)

ReadHost(u, uri, p) ==
    LET e == Find(uri, p, {":", "/"})
        v == [u EXCEPT !.host = SubSeq(uri, p, e - 1)]
    IN  IF e <= Len(uri) /\ uri[e] = ":" THEN ReadPort(v, uri, e + 1) ELSE ReadRest(v, uri, e)

ReadUser(u, uri, p) ==
    LET e == Find(uri, p, {"@", "/"}) IN
    IF e <= Len(uri) /\ uri[e] = "@" THEN ReadHost([u EXCEPT !.user = SubSeq(uri, p, e - 1)], uri, e + 1)
    ELSE ReadHost(u, uri, p)

mg_parse_uri(uri) ==
    LET e == Find(uri, 1, {":", "/"})
        before == SubSeq(uri, 1, e - 1)
    IN  CASE e > Len(uri) -> [NoUri EXCEPT !.host = uri]
          [] e <= Len(uri) /\ uri[e] = "/" -> ReadRest([NoUri EXCEPT !.host = before], uri, e)
          [] OTHER ->
               IF SubSeq(uri, e, e + 2) = <<":", "/", "/">> /\ e + 2 <= Len(uri)
               THEN ReadUser([NoUri EXCEPT !.scheme = before], uri, e + 3)
               ELSE ReadPort([NoUri EXCEPT !.host = before], uri, e + 1)

(* The path without "." and "..", written over itself piece by piece.      *)
LastSlash(d) == Most({i \in DOMAIN d : d[i] = "/"} \cup {0})
mg_normalize_uri_path(in) ==
    IF in = << >> \/ in[1] # "/" THEN << >>
    ELSE With(ForUp([d |-> << >>, s |-> 1], 1, Len(in), LAMBDA r, k :
            IF r.s > Len(in) THEN r
            ELSE With(parse_uri_component(in, r.s, "/"), LAMBDA c :
                [s |-> c.p,
                 d |-> CASE c.res = <<".">> -> r.d
                         [] c.res = <<".", ".">> ->
                              LET up == IF Len(r.d) > 1 /\ r.d[Len(r.d)] = "/" THEN SubSeq(r.d, 1, Len(r.d) - 1) ELSE r.d
                              IN  SubSeq(up, 1, LastSlash(up))
                         [] OTHER -> r.d \o SubSeq(in, r.s, c.p - 1)])),
         LAMBDA r : IF r.d = << >> THEN <<"/">> ELSE r.d)

-----------------------------------------------------------------------------
(* The parts of a request.                                                 *)

CR == "r"        \* the two characters that end a line
LF == "n"
MaxHeaders == 40
Content == "C"   \* "Content-Length", in one character
Capitals == [c \in {"A", "B"} |-> IF c = "A" THEN "a" ELSE "b"]
Lower(c) == IF c \in DOMAIN Capitals THEN Capitals[c] ELSE c
LowerAll(s) == [i \in DOMAIN s |-> Lower(s[i])]

(* Where the head of a request ends, 0 when it goes on, -1 at a character  *)
(* that cannot be printed, here "x".                                       *)
mg_http_get_request_len(s) ==
    LET Ends(i) ==
            \/ s[i] = LF /\ i < Len(s) /\ s[i + 1] = LF
            \/ s[i] = LF /\ i + 1 < Len(s) /\ s[i + 1] = CR /\ s[i + 2] = LF
        at == Least({i \in DOMAIN s : s[i] = "x" \/ Ends(i)} \cup {Len(s) + 1})
    IN  CASE at > Len(s) -> 0
          [] at <= Len(s) /\ s[at] = "x" -> -1
          [] OTHER -> IF s[at + 1] = LF THEN at + 1 ELSE at + 2

(* The text before a delimiter, and the position behind all that follow.   *)
mg_skip(s, p, delims) ==
    LET e == Find(s, p, delims) IN
    [v |-> SubSeq(s, p, e - 1), p |-> Least({i \in e .. Len(s) : s[i] \notin delims} \cup {Len(s) + 1})]

Trimmed(v) == SubSeq(v, 1, Most({i \in DOMAIN v : v[i] # " "} \cup {0}))

(* Name, value; a header without a value is left out, and nothing is left  *)
(* out of a line without a colon: its name goes on in the next line.       *)
mg_http_parse_headers(s, max) ==
    ForUp([headers |-> << >>, p |-> 1, done |-> FALSE, length |-> << >>], 1, Len(s) + 1, LAMBDA r, i :
        IF r.done \/ Len(r.headers) = max - 1 THEN r
        ELSE With(mg_skip(s, r.p, {":", " "}), LAMBDA k :
             With(mg_skip(s, k.p, {CR, LF}), LAMBDA raw :
             LET v == Trimmed(raw.v) IN
             CASE k.v # << >> /\ v = << >> -> [r EXCEPT !.p = raw.p]
               [] k.v = << >> -> [r EXCEPT !.p = raw.p, !.done = TRUE]
               [] OTHER -> [r EXCEPT !.p = raw.p, !.headers = Append(@, <<k.v, v>>),
                                     !.length = IF k.v[1] = Content THEN v ELSE @])))

(* The value of the first header of that name, << >> when there is none.   *)
mg_get_http_header(headers, name) ==
    LET at == {i \in DOMAIN headers : LowerAll(headers[i][1]) = LowerAll(name)} IN
    IF at = {} THEN << >> ELSE headers[Least(at)][2]

(* The variable of a header, up to buf_size - 1 characters: none, and      *)
(* length 0, if there are more, or when a quote is not closed.             *)
QuoteMarks == {"'", "q"}    \* "q" is the double one
mg_http_parse_header(hdr, var_name, buf_size) ==
    LET n == Len(var_name)
        At(i) == /\ i = 1 \/ hdr[i - 1] \in {" ", ",", ";"}
                 /\ hdr[i + n] = "=" /\ SubSeq(hdr, i, i + n - 1) = var_name
        starts == {i \in 1 .. Len(hdr) - n : At(i)}
        first == Least(starts) + n + 1
    IN  IF starts = {} \/ first > Len(hdr) THEN << >>
        ELSE LET quoted == hdr[first] \in QuoteMarks
                 s == IF quoted THEN first + 1 ELSE first
                 stops == IF quoted THEN {hdr[first]} ELSE {" ", ","}
             IN  With(ForUp([p |-> s, buf |-> << >>], s, Len(hdr), LAMBDA r, k :
                        IF r.p > Len(hdr) \/ hdr[r.p] \in stops \/ Len(r.buf) >= buf_size THEN r
                        ELSE LET p == IF quoted /\ hdr[r.p] = "\\" /\ r.p < Len(hdr) /\ hdr[r.p + 1] \in stops
                                      THEN r.p + 1 ELSE r.p
                             IN  [p |-> p + 1, buf |-> Append(r.buf, hdr[p])]),
                      LAMBDA r :
                        LET open == quoted /\ ~ (r.p <= Len(hdr) /\ hdr[r.p] \in stops)
                            l1 == IF Len(r.buf) > 0 /\ hdr[s + Len(r.buf) - 1] = "," THEN Len(r.buf) - 1 ELSE Len(r.buf)
                            l2 == IF l1 > 0 /\ hdr[s + l1 - 1] = ";" THEN l1 - 1 ELSE l1
                        IN  IF Len(r.buf) >= buf_size \/ open THEN << >> ELSE SubSeq(r.buf, 1, l2))

(* A part of a form as a whole, between its boundary and the next: names   *)
(* from the Content-Disposition header, here one character, and the data.  *)
(* The head can be printed: its length is not looked at for being negative.*)
Disposition == "D"
LineLen(s, from) == LET e == Find(s, from, {LF}) IN IF e > Len(s) THEN 0 ELSE e - from + 1
NoPart == [pos |-> 0, name |-> << >>, file |-> << >>, data |-> << >>]
NameVar == <<"N">>       \* "name"
FileVar == <<"F">>       \* "filename"
mg_parse_multipart(buf, var_len) ==
    LET hl == mg_http_get_request_len(buf)
        bl == LineLen(buf, 1)
        head == SubSeq(buf, 1, hl)
    IN  IF hl = 0 \/ SubSeq(buf, 1, 2) # <<"-", "-">> \/ buf[3] = LF THEN NoPart
        ELSE With(ForUp([n |-> bl + 1, name |-> << >>, file |-> << >>], 1, Len(head), LAMBDA r, i :
                LET ll == LineLen(head, r.n)
                    header == SubSeq(head, r.n + 1, r.n + ll - 3)
                IN  IF ll = 0 THEN r
                    ELSE IF buf[r.n] # Disposition THEN [r EXCEPT !.n = @ + ll]
                    ELSE [n |-> r.n + ll, name |-> mg_http_parse_header(header, NameVar, var_len),
                          file |-> mg_http_parse_header(header, FileVar, var_len)]),
             LAMBDA r :
                LET ends == {pos \in hl + 1 .. Len(buf) - bl + 2 : SubSeq(buf, pos, pos + bl - 3) = SubSeq(buf, 1, bl - 2)} IN
                IF ends = {} THEN [NoPart EXCEPT !.name = r.name, !.file = r.file]
                ELSE [pos |-> Least(ends) - 1, name |-> r.name, file |-> r.file,
                      data |-> SubSeq(buf, hl + 1, Least(ends) - 3)])

-----------------------------------------------------------------------------
(* Comma lists and patterns.                                               *)
(* The entries of a list, each before and behind its first "=".            *)
mg_next_comma_list_entry(list, p) ==
    LET e == Find(list, p, {","})
        eq == Find(SubSeq(list, p, e - 1), 1, {"="})
        entry == SubSeq(list, p, e - 1)
    IN  [val |-> SubSeq(entry, 1, eq - 1), eq_val |-> Rest(entry, eq + 1), p |-> e + 1]

Entries(list) ==
    ForUp([out |-> << >>, p |-> 1], 1, Len(list), LAMBDA r, i :
        IF r.p > Len(list) THEN r
        ELSE With(mg_next_comma_list_entry(list, r.p), LAMBDA e : [out |-> Append(r.out, <<e.val, e.eq_val>>), p |-> e.p])).out

(* Where the pattern, without "|", ends in the first len characters of     *)
(* str, -1 when it does not match.  The longest run is tried first for a   *)
(* "*".  Behind the text stands a character: a pattern looks at it.        *)
MatchOne(pattern, str, len) ==
    LET n == Len(pattern)
        M[i \in 1 .. n + 2, j \in 0 .. Len(str) + 1] ==
            CASE i > n -> j
              [] i <= n /\ pattern[i] = "?" /\ j # len -> M[i + 1, j + 1]
              [] i <= n /\ pattern[i] = "$" -> IF j = len THEN j ELSE -1
              [] i <= n /\ pattern[i] = "*" ->
                    LET two == i < n /\ pattern[i + 1] = "*"
                        next == IF two THEN i + 2 ELSE i + 1
                        run == IF two THEN len - j ELSE Find(SubSeq(str, 1, len), j + 1, {"/"}) - 1 - j
                        ends == {l \in 0 .. run : M[next, j + l] # -1}
                    IN  IF ends = {} THEN -1 ELSE M[next, j + Most(ends)]
              [] OTHER -> IF Lower(pattern[i]) = Lower(str[j + 1]) THEN M[i + 1, j + 1] ELSE -1
    IN  M[1, 0]

(* The first alternative that matches something, and if none does what the *)
(* last one says.                                                          *)
Alternatives(pattern) ==
    LET cuts == {i \in DOMAIN pattern : pattern[i] = "|"} \cup {0, Len(pattern) + 1}
        Cut(k) == CHOOSE c \in cuts : Cardinality({b \in cuts : b < c}) = k - 1
    IN  [k \in 1 .. Cardinality(cuts) - 1 |-> SubSeq(pattern, Cut(k) + 1, Cut(k + 1) - 1)]

mg_match_prefix_n(pattern, str, len) ==
    With(Alternatives(pattern), LAMBDA alts :
    With([k \in DOMAIN alts |-> MatchOne(alts[k], str, len)], LAMBDA res :
        LET some == {k \in DOMAIN res : res[k] > 0} IN
        res[IF some = {} THEN Len(res) ELSE Least(some)]))

(* The endpoint whose pattern matches most of a path, the first of equals; *)
(* 0 for none.                                                             *)
mg_http_get_endpoint_handler(endpoints, str, len) ==
    With([e \in DOMAIN endpoints |-> mg_match_prefix_n(endpoints[e], str, len)], LAMBDA matched :
        LET some == {e \in DOMAIN matched : matched[e] > 0 /\ \A d \in DOMAIN matched : matched[d] <= matched[e]} IN
        IF some = {} THEN 0 ELSE Least(some))

(* The rules a network list applies to an address of width bits: the last  *)
(* that fits decides.  An entry is what sscanf reads of it; slash is the   *)
(* length of its mask.                                                     *)
mg_check_ip_acl(acl, remote, width) ==
    LET Mask(ip, slash) == ip - (ip % 2 ^ (width - slash)) IN
    IF \E k \in DOMAIN acl : acl[k].flag \notin {"+", "-"} \/ ~ acl[k].valid THEN -1
    ELSE LET fits == {k \in DOMAIN acl : acl[k].net = Mask(remote, acl[k].slash)} IN
         IF (IF fits = {} THEN acl = << >> ELSE acl[Most(fits)].flag = "+") THEN 1 ELSE 0

-----------------------------------------------------------------------------
(* From a URI to a file.  The rules put a directory in the place of a      *)
(* prefix, or of a host; the prefix must end where a component does.  A    *)
(* rule that does not leaves the start behind what it matched.             *)
Root(uri, rewrites, host) ==
    ForUp([root |-> << >>, start |-> 0, done |-> FALSE], 1, Len(rewrites), LAMBDA r, k :
        LET a == rewrites[k][1]
            m == IF a # << >> THEN mg_match_prefix_n(a, uri \o <<" ">>, Len(uri)) ELSE 0
        IN  CASE r.done -> r
              [] ~ r.done /\ Len(a) > 1 /\ a[1] = "@" ->
                    IF LowerAll(host) = LowerAll(Rest(a, 2)) THEN [r EXCEPT !.root = rewrites[k][2], !.done = TRUE] ELSE r
              [] OTHER ->
                    CASE m <= 0 -> r
                      [] m > 0 /\ (m = Len(uri) \/ uri[m + 1] = "/") -> [root |-> rewrites[k][2], start |-> m, done |-> TRUE]
                      [] OTHER -> IF uri[m] = "/" THEN [root |-> rewrites[k][2], start |-> m - 1, done |-> TRUE]
                                  ELSE [r EXCEPT !.start = m])

(* An escape is one character here: "%a" of a letter, "%/" of a slash,     *)
(* "%0" of a NUL, "%" by itself when it is broken.                         *)
Plain(c) == IF c = "%a" THEN "a" ELSE IF c = "%." THEN "." ELSE c

(* Component by component: the path grows while it is not a file, ".."     *)
(* takes one back, and what follows a file is the remainder.  Once a path  *)
(* is not there none behind it is looked for.  files tells what stat says  *)
(* of each path that is there.                                             *)
mg_uri_to_local_path(uri, rewrites, host, document_root, files) ==
    With(Root(uri, rewrites, host), LAMBDA top :
    LET root == IF top.done THEN top.root ELSE document_root
        base == IF root[Len(root)] = "/" THEN SubSeq(root, 1, Len(root) - 1) ELSE root
    IN  With(ForUp([lp |-> << >>, u |-> top.start + 2, exists |-> TRUE, ok |-> TRUE, done |-> FALSE],
                   1, Len(uri) + 1, LAMBDA r, i :
                LET there == r.exists /\ (base \o r.lp) \in DOMAIN files
                    c == parse_uri_component(uri, r.u, "/")
                    name == [j \in DOMAIN c.res |-> Plain(c.res[j])]
                    seen == [r EXCEPT !.exists = there]
                IN  CASE r.done \/ r.u > Len(uri) + 1 -> r
                      [] r.u <= Len(uri) + 1 /\ ~ r.done /\ there /\ files[base \o r.lp] = "file" ->
                            [seen EXCEPT !.done = TRUE, !.u = IF uri[@ - 1] = "/" THEN @ - 1 ELSE @]
                      [] ~ r.done /\ ~ (there /\ files[base \o r.lp] = "file") /\ r.u = Len(uri) + 1 -> [seen EXCEPT !.done = TRUE]
                      [] OTHER ->
                            CASE name = << >> -> [seen EXCEPT !.u = c.p]
                              [] name # << >> /\ \E j \in DOMAIN name : name[j] = "%" -> [seen EXCEPT !.ok = FALSE, !.done = TRUE]
                              [] name = <<".">> -> [seen EXCEPT !.u = c.p]
                              [] name = <<".", ".">> ->
                                    [seen EXCEPT !.u = c.p, !.lp = SubSeq(@, 1, Most({j \in DOMAIN @ : @[j] = "/"} \cup {1}) - 1)]
                              [] OTHER -> [seen EXCEPT !.u = c.p, !.lp = @ \o <<"/">> \o name,
                                                       !.ok = @ /\ \A j \in DOMAIN name : name[j] \notin {"%/", "%0"}]),
             LAMBDA r :
                IF ~ r.ok THEN [ok |-> FALSE, path |-> << >>, remainder |-> << >>]
                ELSE [ok |-> TRUE, path |-> base \o r.lp, remainder |-> Rest(uri, r.u)]))

-----------------------------------------------------------------------------
(* Passwords.  A digest is injective: it is written as what it is made of. *)
ha1(user, domain, passwd) == <<user, domain, passwd>>
mg_mkmd5resp(method, uri, h, nonce, nc, cnonce, qop) == <<h, nonce, nc, cnonce, qop, <<method, uri>> >>

mg_http_create_digest_auth_header(now, method, uri, domain, user, passwd) ==
    [user |-> user, uri |-> uri, qop |-> "auth", nc |-> 1, cnonce |-> now, nonce |-> now,
     response |-> mg_mkmd5resp(method, uri, ha1(user, domain, passwd), now, 1, now, "auth")]

mg_check_nonce(now, val) == now < val \/ now - val < 3600

(* The first line of the user and the domain decides.  The URI compared is *)
(* the one of the request, with its query, not the one of the header.      *)
mg_http_check_digest_auth(req, domain, lines) ==
    LET at == {i \in DOMAIN lines : lines[i][1] = req.hdr.user /\ lines[i][2] = domain} IN
    /\ req.has_hdr /\ mg_check_nonce(req.now, req.hdr.nonce) /\ at # {}
    /\ req.hdr.response = mg_mkmd5resp(req.method, req.uri, lines[Least(at)][3], req.hdr.nonce, req.hdr.nc, req.hdr.cnonce, req.hdr.qop)

(* The passwords are in one file for all, or in the directory of the path; *)
(* without that file everybody is authorized.                              *)
mg_is_authorized(req, path, is_directory, domain, passwords_file, is_global, files) ==
    LET directory == IF is_directory THEN path ELSE SubSeq(path, 1, Most({i \in DOMAIN path : path[i] = "/"} \cup {1}) - 1)
        name == IF is_global THEN passwords_file ELSE directory \o <<"/">> \o passwords_file
    IN  domain = "none" \/ passwords_file = << >> \/ name \notin DOMAIN files
        \/ mg_http_check_digest_auth(req, domain, files[name])

-----------------------------------------------------------------------------
(* Seconds since 1970 of a date, and whether a file is no newer.           *)
days_before_month == <<0, 31, 59, 90, 120, 151, 181, 212, 243, 273, 304, 334>>
mg_num_leap_years(year) == (year \div 4) - (year \div 100) + (year \div 400)

mg_parse_date_string(d) ==
    LET leap_days == mg_num_leap_years(d.year) - mg_num_leap_years(1970)
        days == (d.year - 1970) * 365 + days_before_month[d.month] + (d.day - 1) + leap_days
    IN  IF d.year > 1970 THEN days * 24 * 3600 + d.second ELSE 0

(* An entity tag goes before a date; "none" and -1 are no header.          *)
mg_is_not_modified(none_match, since, etag, mtime) ==
    IF none_match # "none" THEN none_match = etag ELSE since # -1 /\ mtime <= since

-----------------------------------------------------------------------------
(* Connecting by URL.  "H" stands for http://, "S" for https://, which is  *)
(* not built in.  The last "@" ends a user and a password, which must have *)
(* a ":" between them, and is taken off if it is asked for; the place of a *)
(* port that is added stays counted from the user on.                      *)
mg_http_common_url_parse(url, wants_user) ==
    LET from == IF url # << >> /\ url[1] = "H" THEN 2 ELSE 1
        e == Find(url, from, {"/"})
        addr == SubSeq(url, from, e - 1)
        Last(c, i, j) == Most({k \in i .. j : addr[k] = c} \cup {0})
        auth == Last("@", 1, Len(addr))
        sep == Last(":", Last("@", 1, auth - 1) + 1, auth - 1)
        port == Last(":", auth + 1, Len(addr))
    IN  IF addr = << >> \/ url[1] = "S" THEN [ok |-> FALSE]
        ELSE [ok |-> TRUE, has_user |-> auth # 0, user |-> SubSeq(addr, 1, sep - 1), pass |-> SubSeq(addr, sep + 1, auth - 1),
              addr |-> Rest(addr, IF wants_user THEN auth + 1 ELSE 1) \o IF port = 0 THEN <<":", "8", "0">> ELSE << >>,
              port_i |-> IF port = 0 THEN Len(addr) ELSE -1,
              path |-> IF e > Len(url) THEN <<"/">> ELSE Rest(url, e)]

(* The request of a client; its host is the address without a port added.  *)
mg_connect_http_base(url, wants_user) ==
    With(mg_http_common_url_parse(url, wants_user), LAMBDA u :
         IF ~ u.ok THEN u
         ELSE [ok |-> TRUE, to |-> u.addr, path |-> u.path, has_user |-> u.has_user, user |-> u.user, pass |-> u.pass,
               host |-> IF u.port_i \in 0 .. Len(u.addr) THEN SubSeq(u.addr, 1, u.port_i) ELSE u.addr])
mg_connect_http_opt(url, post_data) ==
    With(mg_connect_http_base(url, TRUE), LAMBDA c :
         IF ~ c.ok THEN c
         ELSE [ok |-> TRUE, to |-> c.to, method |-> IF post_data = << >> THEN "GET" ELSE "POST", path |-> c.path, host |-> c.host,
               length |-> Len(post_data), auth |-> IF c.has_user THEN <<c.user, c.pass>> ELSE << >>, body |-> post_data])

-----------------------------------------------------------------------------
(* Pages of another server.  Its connection and the client's are linked    *)
(* to each other: linked and back.  Whichever ends first unlinks both, and *)
(* is itself told to close.  A length is written as what it is the length  *)
(* of, and the query is left behind.                                       *)
mg_http_reverse_proxy(req, mount, upstream) ==
    LET passed(h) == h[1] # "Host" /\ h # <<"Expect", "100-continue">>
        rewritten(h) == IF h = <<"Transfer-encoding", "chunked">> THEN <<"Content-Length", req.body>> ELSE h
        hs == SelectSeq(req.headers, passed)
    IN  With(mg_connect_http_base(upstream \o Rest(req.uri, Len(mount) + 1), FALSE), LAMBDA be :
             IF ~ be.ok THEN [status |-> 502]
             ELSE [status |-> 0, to |-> be.to, path |-> be.path, host |-> be.host, body |-> req.body,
                   headers |-> [i \in DOMAIN hs |-> rewritten(hs[i])]])

mg_reverse_proxy_handler(p, ev) ==
    CASE ~ p.linked -> p
      [] p.linked /\ ev = "refused" -> [p EXCEPT !.sent = Append(@, 502), !.closing = @ \cup {"client"}]
      [] p.linked /\ ev = "reply" -> [p EXCEPT !.sent = Append(@, 200), !.closing = {"client", "server"}]
      [] p.linked /\ ev = "close" -> [p EXCEPT !.closing = @ \cup {"client"}]
      [] OTHER -> p
mg_http_free_reverse_proxy_data(p, dying) ==
    IF (IF dying = "client" THEN p.back ELSE p.linked)
    THEN [p EXCEPT !.linked = FALSE, !.back = FALSE, !.closing = @ \cup {dying}] ELSE p

-----------------------------------------------------------------------------
(* Files.  A site maps the paths that are there to "file" or "dir"; << >>  *)
(* is an option that is not given.                                         *)
mg_match_prefix(pattern, str) == mg_match_prefix_n(pattern, str \o <<"0">>, Len(str))
Starts(s, prefix) == Len(prefix) <= Len(s) /\ SubSeq(s, 1, Len(prefix)) = prefix

mg_is_file_hidden(path, opts, exclude_specials) ==
    LET name == Rest(path, LastSlash(path) + 1) IN
    \/ exclude_specials /\ name \in {<<".">>, <<".", ".">>}
    \/ mg_match_prefix(opts.auth_file, name) = Len(opts.auth_file)
    \/ opts.hidden # << >> /\ mg_match_prefix(opts.hidden, name) > 0

mg_find_index_file(path, list, site) ==
    LET names == Entries(list)
        At(i) == path \o <<"/">> \o names[i][1]
        there == {i \in DOMAIN names : At(i) \in DOMAIN site /\ site[At(i)] = "file"}
    IN  IF there = {} THEN << >> ELSE At(Least(there))

(* The page another server is asked for, or another port: the first rule   *)
(* that says so.                                                           *)
mg_http_handle_forwarding(req, rewrites) ==
    LET those == {k \in DOMAIN rewrites : Starts(req.uri, rewrites[k][1]) /\ rewrites[k][2] # << >> /\ rewrites[k][2][1] \in {"H", "S"}} IN
    IF those = {} THEN << >> ELSE <<mg_http_reverse_proxy(req, rewrites[Least(those)][1], rewrites[Least(those)][2])>>
mg_http_send_port_based_redirect(req, rewrites) ==
    LET those == {k \in DOMAIN rewrites : rewrites[k][1] = <<"%">> \o req.port} IN
    IF those = {} THEN << >> ELSE <<[status |-> 301, to |-> rewrites[Least(those)][2] \o req.uri \o req.query]>>

mg_http_serve_file2(path, opts) == [status |-> 200, kind |-> IF mg_match_prefix(opts.ssi, path) > 0 THEN "ssi" ELSE "file", path |-> path]

(* PUT and MKCOL are let through to where WebDAV would handle them.  What  *)
(* a file is for is decided by its own name, what it is allowed by the     *)
(* name it was asked for.                                                  *)
mg_send_http_file(req, path, path_info, opts, site, passwords) ==
    LET exists == path \in DOMAIN site
        is_directory == exists /\ site[path] = "dir"
        index_file == IF is_directory THEN mg_find_index_file(path, opts.index_files, site) ELSE << >>
        file == IF index_file = << >> THEN path ELSE index_file
        is_cgi == mg_match_prefix(opts.cgi, file) > 0
        Authorized(name, is_global) == mg_is_authorized(req, path, is_directory, opts.domain, name, is_global, passwords)
    IN  IF is_directory /\ req.uri[Len(req.uri)] # "/" THEN [status |-> 301, to |-> Append(req.uri, "/")]
        ELSE IF path_info # << >> /\ ~ is_cgi THEN [status |-> 501]
        ELSE IF ~ Authorized(opts.global_auth_file, TRUE) \/ ~ Authorized(opts.auth_file, FALSE) THEN [status |-> 401]
        ELSE IF is_cgi THEN [status |-> 501]
        ELSE IF (~ exists \/ mg_is_file_hidden(path, opts, FALSE)) /\ req.method \notin {"PUT", "MKCOL"} THEN [status |-> 404]
        ELSE IF req.method = "OPTIONS" THEN [status |-> 200, kind |-> "options"]
        ELSE IF is_directory /\ index_file = << >>
             THEN IF opts.listing THEN [status |-> 200, kind |-> "listing", path |-> path] ELSE [status |-> 403]
        ELSE IF mg_is_not_modified(req.none_match, -1, "new", 0) THEN [status |-> 304]
        ELSE mg_http_serve_file2(file, opts)

mg_serve_http(req, opts, site, passwords) ==
    LET forward == mg_http_handle_forwarding(req, opts.rewrites)
        redirect == mg_http_send_port_based_redirect(req, opts.rewrites)
        uri == mg_normalize_uri_path(req.uri)
        at == mg_uri_to_local_path(uri, opts.rewrites, req.host, opts.document_root, site)
    IN  IF mg_check_ip_acl(opts.acl, req.remote, 2) # 1 THEN [status |-> 403]
        ELSE IF forward # << >> THEN forward[1]
        ELSE IF redirect # << >> THEN redirect[1]
        ELSE IF uri = << >> THEN [status |-> 400]
        ELSE IF ~ at.ok THEN [status |-> 404]
        ELSE mg_send_http_file([req EXCEPT !.uri = uri], at.path, at.remainder, opts, site, passwords)

-----------------------------------------------------------------------------
(* Includes.  A site maps paths to texts.  In a directive "i" stands for   *)
(* include, "c" for call, "V", "A" and "F" for virtual=", abspath=" and    *)
(* file=", "q" for the quote at the end; "0" is NUL.  What is wrong is     *)
(* shown in the page: "B" a bad include, "E" a file that is not there, "D" *)
(* one that is too deep, "L" a directive too long for the buffer.          *)
btag == <<"<", "!", "-", "-", "#">>
Included(tag, path, document_root) ==
    LET first == Least({i \in DOMAIN tag : tag[i] # " "} \cup {Len(tag) + 1})
        name == SubSeq(tag, first + 1, Find(tag, first + 1, {"q"}) - 1)
    IN  IF name = << >> THEN << >>
        ELSE CASE tag[first] = "V" -> document_root \o <<"/">> \o name
               [] tag[first] = "A" -> name
               [] tag[first] \in {"F", "q"} -> SubSeq(path, 1, LastSlash(path)) \o name
               [] OTHER -> << >>

(* What a page is made of: texts, and pages that are sent in their turn.   *)
Shown(text) == <<[text |-> text, page |-> << >>]>>
mg_do_ssi_include(tag, path, site, opts) ==
    LET file == Included(tag, path, opts.document_root) IN
    IF file = << >> THEN Shown(<<"B">>)
    ELSE IF file \notin DOMAIN site THEN Shown(<<"E">>)
    ELSE IF mg_match_prefix(opts.ssi, file) > 0 THEN <<[text |-> << >>, page |-> file]>>
    ELSE Shown(site[file])

(* A directive is looked for behind the five characters it begins with,    *)
(* even if the tag that ended has fewer.                                   *)
Directive(buf, path, site, opts) ==
    LET Behind(i) == SubSeq(buf, i, Find(buf, i, {"0"}) - 1) IN
    IF buf[6] = "i" THEN mg_do_ssi_include(Behind(8), path, site, opts)
    ELSE IF buf[6] = "c" THEN Shown(<<"C">> \o Behind(8))
    ELSE << >>

(* One character of a page goes into the buffer; the tag that it ends is   *)
(* done, and the rest of the buffer is text.                               *)
Read(s, ch, path, site, opts, bufsiz) ==
    LET Kept(t) == [t EXCEPT !.buf[t.len + 1] = ch, !.len = @ + 1]
        Flushed(t) == [t EXCEPT !.out = @ \o Shown(SubSeq(t.buf, 1, t.len)), !.len = 0]
        last == Most({k \in 2 .. s.len - 2 : s.buf[k] # " "} \cup {1})
        trimmed == [k \in DOMAIN s.buf |-> IF k \in last + 1 .. s.len - 1 THEN "0" ELSE s.buf[k]]
    IN  IF s.tag /\ ch = ">" /\ s.len >= 2 /\ SubSeq(s.buf, s.len - 1, s.len) = <<"-", "-">>
        THEN [buf |-> trimmed, len |-> 0, tag |-> FALSE, out |-> s.out \o Directive(trimmed, path, site, opts)]
        ELSE IF ch = "<" THEN Kept([Flushed(s) EXCEPT !.tag = TRUE])
        ELSE IF s.tag /\ s.len = Len(btag) /\ SubSeq(s.buf, 1, s.len) # btag THEN Kept([s EXCEPT !.tag = FALSE])
        ELSE IF s.tag /\ s.len = bufsiz - 2 THEN Kept([s EXCEPT !.out = @ \o Shown(<<"L">>), !.len = 0])
        ELSE IF ~ s.tag /\ s.len = bufsiz - 1 THEN Flushed(Kept(s))
        ELSE Kept(s)

mg_send_ssi_file(path, site, opts, bufsiz) ==
    LET Sent[include_level \in 0 .. 11, at \in DOMAIN site] ==
            IF include_level > 10 THEN <<"D">>
            ELSE With(ForUp([buf |-> Many(bufsiz, "0"), len |-> 0, tag |-> FALSE, out |-> << >>], 1, Len(site[at]), LAMBDA s, i :
                            Read(s, site[at][i], at, site, opts, bufsiz)),
                 LAMBDA s :
                    ForUp(<< >>, 1, Len(s.out), LAMBDA t, k :
                          t \o IF s.out[k].page = << >> THEN s.out[k].text ELSE Sent[include_level + 1, s.out[k].page])
                    \o SubSeq(s.buf, 1, s.len))
    IN  Sent[0, path]

-----------------------------------------------------------------------------
(* One part of an upload: its state, fus, which a file that is not allowed *)
(* leaves behind; what the client is told; how much of it is in the file,  *)
(* -1 when there is none.                                                  *)
NoUpload == [fus |-> "none", told |-> << >>, stored |-> -1, closing |-> FALSE, lost |-> 0]
mg_file_upload_handler(u, ev) ==
    LET Fails(status) == [u EXCEPT !.told = Append(@, status), !.stored = -1, !.fus = "no file"] IN
    CASE ev = "begin" -> [u EXCEPT !.fus = "open", !.stored = 0]
      [] ev = "begin forbidden" -> [u EXCEPT !.told = Append(@, 403), !.closing = TRUE, !.lost = @ + 1]
      [] ev = "begin unopened" -> [u EXCEPT !.told = Append(@, 500), !.fus = "no file"]
      [] u.fus = "open" /\ ev = "data" -> [u EXCEPT !.stored = @ + 1]
      [] u.fus = "open" /\ ev = "data full" -> Fails(413)
      [] u.fus = "open" /\ ev = "data failed" -> Fails(500)
      [] u.fus # "none" /\ ev \in {"end", "end closed"} ->
            [u EXCEPT !.fus = "none", !.closing = TRUE, !.told = IF ev = "end" /\ u.fus = "open" THEN Append(@, 200) ELSE @]
      [] OTHER -> u
=============================================================================
