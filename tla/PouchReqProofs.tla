--------------------------- MODULE PouchReqProofs ---------------------------
(***************************************************************************)
(* Proofs about one CouchDB request, for documents, answers and pieces of  *)
(* any size.                                                               *)
(***************************************************************************)
EXTENDS PouchReq, SequenceTheorems, FiniteSetTheorems, WellFoundedInduction, TLAPS

Header == {"Destination", "octet-stream", "json", "chunked"}
Token  == Rev \cup Part \cup {"?", "&"}

\* SendsInside and UrlIsParsable as predicates, for the struct a builder returns.
Inside(p) ==
  IF p.req.data = NULL THEN p.req.size = 0
  ELSE p.req.offset + p.req.size = Len(p.req.data)

Marks(u) == {i \in DOMAIN u : u[i] \in {"?", "&"}}

Parsable(u) == \A i \in Marks(u) : u[i] = "?" <=> \A j \in Marks(u) : i <= j

Fine(p) == p \in Request /\ Inside(p) /\ Parsable(p.url)

\* A URL without parameters.
Plain(u) == u \in Seq(Token) /\ Marks(u) = {}

-----------------------------------------------------------------------------
(* Data. *)

\* The least-number principle.
LEMMA Least ==
  ASSUME NEW T \in SUBSET Nat, T # {}
  PROVE  \E n \in T : \A m \in T : n <= m
<1>1. PICK k \in T : TRUE
  OBVIOUS
<1> DEFINE S == 0 .. k
           Below == {0 .. n : n \in {m \in T : m <= k}}
<1>2. Below # {}
  BY <1>1
<1>3. Below \subseteq FiniteSubsetsOf(S)
  <2>1. SUFFICES ASSUME NEW n \in T, n <= k
                 PROVE  0 .. n \subseteq S /\ IsFiniteSet(0 .. n)
    BY DEF FiniteSubsetsOf
  <2>2. IsFiniteSet(0 .. n)
    BY FS_Interval
  <2>3. QED
    BY <2>1, <2>2
<1>4. PICK x \in Below : \A y \in Below : <<y, x>> \notin StrictSubsetOrdering(S)
  <2> HIDE DEF Below, S
  <2>1. QED
    BY <1>2, <1>3, FS_StrictSubsetOrderingWellFounded, WFMin
<1>5. PICK n \in T : n <= k /\ x = 0 .. n
  OBVIOUS
<1>6. ASSUME NEW m \in T, m < n PROVE FALSE
  <2>1. 0 .. m \in Below
    BY <1>5, <1>6
  <2>2. 0 .. m \subseteq 0 .. n /\ 0 .. m # 0 .. n /\ 0 .. n \subseteq S
    BY <1>5, <1>6
  <2>3. <<0 .. m, x>> \in StrictSubsetOrdering(S)
    BY <1>5, <2>2 DEF StrictSubsetOrdering
  <2>4. QED
    BY <1>4, <2>1, <2>3
<1>7. QED
  BY <1>6

\* A piece of a string inside it is a string.
LEMMA PieceIsString ==
  ASSUME NEW A, NEW d \in Seq(A), NEW i \in Nat, NEW n \in Nat, i + n <= Len(d)
  PROVE  /\ Piece(d, i, n) \in Seq(A)
         /\ Len(Piece(d, i, n)) = n
         /\ \A k \in 1 .. n : Piece(d, i, n)[k] = d[i + k]
<1>1. \A k \in 1 .. n : d[i + k] \in A
  OBVIOUS
<1>2. QED
  BY <1>1, IsASeq DEF Piece

LEMMA FilledIsString ==
  ASSUME NEW A, NEW x \in A, NEW n \in Nat
  PROVE  /\ [i \in 1 .. n |-> x] \in Seq(A)
         /\ Len([i \in 1 .. n |-> x]) = n
         /\ \A k \in 1 .. n : [i \in 1 .. n |-> x][k] = x
OBVIOUS

\* Two pieces in a row are one.
LEMMA PiecesJoin ==
  ASSUME NEW A, NEW d \in Seq(A), NEW i \in Nat, NEW m \in Nat, NEW n \in Nat,
         i + m + n <= Len(d)
  PROVE  Piece(d, i, m) \o Piece(d, i + m, n) = Piece(d, i, m + n)
<1> DEFINE a == Piece(d, i, m)
           b == Piece(d, i + m, n)
           c == Piece(d, i, m + n)
<1>1. a \in Seq(A) /\ Len(a) = m /\ \A k \in 1 .. m : a[k] = d[i + k]
  BY PieceIsString
<1>2. b \in Seq(A) /\ Len(b) = n /\ \A k \in 1 .. n : b[k] = d[(i + m) + k]
  BY PieceIsString
<1>3. c \in Seq(A) /\ Len(c) = m + n /\ \A k \in 1 .. (m + n) : c[k] = d[i + k]
  BY PieceIsString
<1> HIDE DEF a, b, c
<1>4. /\ a \o b \in Seq(A) /\ Len(a \o b) = Len(a) + Len(b)
      /\ \A k \in 1 .. Len(a) + Len(b) :
           (a \o b)[k] = IF k <= Len(a) THEN a[k] ELSE b[k - Len(a)]
  BY <1>1, <1>2, ConcatProperties
<1>5. \A k \in 1 .. (m + n) : (a \o b)[k] = c[k]
  <2>1. ASSUME NEW k \in 1 .. m PROVE (a \o b)[k] = c[k]
    <3>1. (a \o b)[k] = a[k]
      BY <1>1, <1>2, <1>4
    <3>2. QED
      BY <1>1, <1>3, <3>1
  <2>2. ASSUME NEW k \in m + 1 .. m + n PROVE (a \o b)[k] = c[k]
    <3>1. (a \o b)[k] = b[k - m] /\ k - m \in 1 .. n
      BY <1>1, <1>2, <1>4
    <3>2. b[k - m] = d[(i + m) + (k - m)] /\ (i + m) + (k - m) = i + k
      BY <1>2, <3>1
    <3>3. QED
      BY <1>3, <3>1, <3>2
  <2>3. \A k \in 1 .. (m + n) : k \in 1 .. m \/ k \in m + 1 .. m + n
    OBVIOUS
  <2>4. QED
    BY <2>1, <2>2, <2>3
<1>6. a \o b = c
  BY <1>1, <1>2, <1>3, <1>4, <1>5, SeqEqual
<1>7. QED
  BY <1>6 DEF a, b, c

\* What is between the first and the last of two or more quotes is a string.
LEMMA RevisionIsString ==
  ASSUME NEW d \in Seq(Octet), ~ (Cardinality(Quotes(d)) < 2)
  PROVE  Revision(d) \in Seq(Octet)
<1> DEFINE Q == Quotes(d)
           R == {Len(d) - i : i \in Q}
<1>1. Q \in SUBSET (1 .. Len(d))
  BY DEF Quotes
<1>2. Q # {} /\ \A i \in Q : Q # {i}
  <2>1. Cardinality({}) = 0 /\ \A i : Cardinality({i}) = 1
    BY FS_EmptySet, FS_Singleton
  <2>2. ~ (0 < 2) \/ Q # {}
    BY <2>1
  <2>3. ASSUME NEW i \in Q, Q = {i} PROVE FALSE
    <3>1. Cardinality(Q) = 1
      BY <2>1, <2>3
    <3>2. QED
      BY <3>1
  <2>4. QED
    BY <2>2, <2>3
<1> HIDE DEF Q
<1>3. PICK i \in Q : \A j \in Q : i <= j
  BY <1>1, <1>2, Least
<1>4. PICK r \in R : \A q \in R : r <= q
  <2>1. R \in SUBSET Nat /\ R # {}
    BY <1>1, <1>2
  <2>2. QED
    BY <2>1, Least
<1>5. PICK l \in Q : \A j \in Q : l >= j
  <2>1. PICK l \in Q : r = Len(d) - l
    OBVIOUS
  <2>2. \A j \in Q : Len(d) - l <= Len(d) - j
    BY <1>4, <2>1
  <2>3. QED
    BY <1>1, <2>2
<1> DEFINE first == CHOOSE k \in Q : \A j \in Q : k <= j
           last  == CHOOSE k \in Q : \A j \in Q : k >= j
<1>6. first \in Q /\ \A j \in Q : first <= j
  BY <1>3
<1>7. last \in Q /\ \A j \in Q : last >= j
  BY <1>5
<1> HIDE DEF first, last
<1>8. first # last
  <2>1. SUFFICES ASSUME first = last PROVE FALSE
    OBVIOUS
  <2>2. \A k \in Q : k = first
    BY <1>1, <1>6, <1>7, <2>1
  <2>3. QED
    BY <1>2, <1>6, <2>2
<1>9. /\ first \in Nat /\ last - first - 1 \in Nat
      /\ first + (last - first - 1) <= Len(d)
  BY <1>1, <1>6, <1>7, <1>8
<1>10. Piece(d, first, last - first - 1) \in Seq(Octet)
  BY <1>9, PieceIsString
<1>11. QED
  BY <1>10 DEF Revision, first, last, Q

\* An empty answer has no quotes.
LEMMA NothingQuoted == Cardinality(Quotes(<< >>)) < 2
<1>1. Quotes(<< >>) = {}
  BY DEF Quotes
<1>2. QED
  BY <1>1, FS_EmptySet

-----------------------------------------------------------------------------
(* Setters and builders. *)

\* Only the parts named change.
LEMMA SettersKeep ==
  ASSUME NEW p, Fine(p)
  PROVE  /\ \A h \in Header : Fine(pr_add_header(p, h))
         /\ Fine(pr_add_usrpwd(p))
         /\ \A m \in Method : Fine(pr_set_method(p, m))
         /\ \A u : Plain(u) => Fine(pr_set_url(p, u))
         /\ \A d \in Seq(Octet) : Fine(pr_set_bdata(p, d))
         /\ Fine(pr_clear_data(p))
         /\ Fine(Emptied(p)) /\ Fine(Finished(p))
<1>1. ASSUME NEW h \in Header PROVE Fine(pr_add_header(p, h))
  BY DEF Fine, Inside, Request, pr_add_header, Header
<1>2. Fine(pr_add_usrpwd(p))
  BY DEF Fine, Inside, Request, pr_add_usrpwd
<1>3. ASSUME NEW m \in Method PROVE Fine(pr_set_method(p, m))
  BY DEF Fine, Inside, Request, pr_set_method
<1>4. ASSUME NEW u, Plain(u) PROVE Fine(pr_set_url(p, u))
  <2>1. Parsable(u)
    BY <1>4 DEF Plain, Parsable
  <2>2. QED
    BY <1>4, <2>1 DEF Fine, Inside, Request, pr_set_url, Plain, Token
<1>5. ASSUME NEW d \in Seq(Octet) PROVE Fine(pr_set_bdata(p, d))
  <2>1. d \in Block /\ Len(d) \in Nat
    BY DEF Block
  <2>2. d # NULL
    BY NullAssumption DEF Octet
  <2> DEFINE r == [data |-> d, offset |-> 0, size |-> Len(d)]
             q == [p EXCEPT !.req = r]
  <2>3. r \in [data : Block, offset : Nat, size : Nat]
    BY <2>1
  <2>4. r.data = d /\ r.offset + r.size = Len(d)
    BY <2>1
  <2> HIDE DEF r
  <2>5. q \in Request /\ q.req = r /\ q.url = p.url
    BY <2>3 DEF Fine, Request
  <2>6. Inside(q)
    BY <2>2, <2>4, <2>5 DEF Inside
  <2>7. QED
    BY <2>5, <2>6 DEF Fine, pr_set_bdata, r
<1>6. Fine(pr_clear_data(p))
  BY DEF Fine, Inside, Request, Block, pr_clear_data
<1>7. Fine(Emptied(p)) /\ Fine(Finished(p))
  BY DEF Fine, Inside, Request, Block, Emptied, Finished
<1>8. QED
  BY <1>1, <1>2, <1>3, <1>4, <1>5, <1>6, <1>7

\* combine adds no mark.
LEMMA CombinePlain ==
  ASSUME NEW u, Plain(u), NEW s \in Part
  PROVE  Plain(combine(u, s))
<1>1. <<"/", s>> \in Seq(Token) /\ Len(<<"/", s>>) = 2
  BY DEF Token, Part
<1> DEFINE t == <<"/", s>>
<1>2. t[1] = "/" /\ t[2] = s
  OBVIOUS
<1> HIDE DEF t
<1>3. /\ u \o t \in Seq(Token) /\ Len(u \o t) = Len(u) + 2
      /\ \A i \in 1 .. Len(u) + 2 :
           (u \o t)[i] = IF i <= Len(u) THEN u[i] ELSE t[i - Len(u)]
  BY <1>1, ConcatProperties DEF Plain, t
<1>4. ASSUME NEW i \in 1 .. Len(u) + 2 PROVE (u \o t)[i] \notin {"?", "&"}
  <2>1. CASE i \in 1 .. Len(u)
    BY <1>3, <2>1 DEF Plain, Marks
  <2>2. CASE i \in {Len(u) + 1, Len(u) + 2}
    <3>1. i - Len(u) \in {1, 2} /\ ~ (i <= Len(u))
      BY <2>2 DEF Plain
    <3>2. QED
      BY <1>2, <1>3, <3>1 DEF Part
  <2>3. Len(u) \in Nat
    BY DEF Plain
  <2>4. i \in 1 .. Len(u) \/ i \in {Len(u) + 1, Len(u) + 2}
    BY <2>3
  <2>5. QED
    BY <2>1, <2>2, <2>4
<1>5. QED
  BY <1>3, <1>4 DEF combine, Plain, Marks, t

LEMMA UrlsPlain ==
  /\ Plain(Server) /\ Plain(Db) /\ Plain(DocUrl)
  /\ \A s \in Part :
       Plain(combine(Server, s)) /\ Plain(combine(Db, s)) /\ Plain(combine(DocUrl, s))
<1>1. Plain(Server)
  BY DEF Plain, Server, Marks, Token, Part
<1>2. Plain(Db)
  BY <1>1, CombinePlain DEF Db, Part
<1>3. Plain(DocUrl)
  BY <1>2, CombinePlain DEF DocUrl, Part
<1>4. QED
  BY <1>1, <1>2, <1>3, CombinePlain

LEMMA UrlPlain == \A u \in Url : Plain(u)
<1>1. SUFFICES ASSUME NEW u \in Url PROVE Plain(u)
  OBVIOUS
<1>2. u \in Seq(Rev \cup Part) /\ {"?", "&"} \cap (Rev \cup Part) = {}
  BY UrlAssumption, RevAssumption DEF Part
<1>3. \A i \in DOMAIN u : u[i] \in Rev \cup Part
  BY <1>2
<1>4. u \in Seq(Token)
  BY <1>2 DEF Token
<1>5. QED
  BY <1>2, <1>3, <1>4 DEF Plain, Marks

\* The first parameter brings the '?', the others an '&'.
LEMMA AddParamKeeps ==
  ASSUME NEW p, Fine(p), NEW k \in Part, NEW v \in Token \ {"?", "&"}
  PROVE  Fine(pr_add_param(p, k, v))
<1> DEFINE u == p.url
           mark == IF Has(u, "?") THEN "&" ELSE "?"
           t == <<mark, k, "=", v>>
           w == u \o t
<1>1. u \in Seq(Token) /\ Parsable(u)
  BY DEF Fine, Request, Token
<1>2. t \in Seq(Token) /\ Len(t) = 4
  BY DEF Token, Part
<1>3. t[1] = mark /\ t[2] = k /\ t[3] = "=" /\ t[4] = v
  OBVIOUS
<1>4. mark \in {"?", "&"} /\ (mark = "?" <=> ~ Has(u, "?"))
  OBVIOUS
<1> HIDE DEF u, mark, t
<1>4a. /\ w \in Seq(Token) /\ Len(w) = Len(u) + Len(t)
      /\ \A i \in 1 .. Len(u) + Len(t) :
           w[i] = IF i <= Len(u) THEN u[i] ELSE t[i - Len(u)]
  BY <1>1, <1>2, ConcatProperties
<1> HIDE DEF w
<1>5. /\ w \in Seq(Token) /\ Len(w) = Len(u) + 4
      /\ \A i \in 1 .. Len(u) + 4 : w[i] = IF i <= Len(u) THEN u[i] ELSE t[i - Len(u)]
  BY <1>2, <1>4a
<1>6. \A i \in 1 .. Len(u) : w[i] = u[i]
  BY <1>1, <1>5
<1>7. w[Len(u) + 1] = mark
  BY <1>1, <1>3, <1>5
<1>8. \A i \in Len(u) + 2 .. Len(u) + 4 : w[i] \notin {"?", "&"}
  <2>1. ASSUME NEW i \in Len(u) + 2 .. Len(u) + 4 PROVE w[i] \notin {"?", "&"}
    <3>1. i - Len(u) \in {2, 3, 4} /\ w[i] = t[i - Len(u)]
      BY <1>1, <1>5
    <3>2. QED
      BY <1>3, <3>1 DEF Part
  <2>2. QED
    BY <2>1
<1>9. Marks(w) = Marks(u) \cup {Len(u) + 1}
  BY <1>1, <1>4, <1>5, <1>6, <1>7, <1>8 DEF Marks
<1>10. \A i \in Marks(u) : i < Len(u) + 1 /\ w[i] = u[i] /\ i \in Nat
  BY <1>1, <1>6 DEF Marks
<1>11. ~ Has(u, "?") => Marks(u) = {}
  <2>1. SUFFICES ASSUME ~ Has(u, "?"), Marks(u) # {} PROVE FALSE
    OBVIOUS
  <2>2. PICK i \in Marks(u) : \A j \in Marks(u) : i <= j
    <3>1. Marks(u) \in SUBSET Nat
      BY <1>10
    <3>2. QED
      BY <2>1, <3>1, Least
  <2>3. u[i] = "?" /\ i \in DOMAIN u
    BY <1>1, <2>2 DEF Parsable, Marks
  <2>4. QED
    BY <2>1, <2>3 DEF Has
<1>12. Has(u, "?") => Marks(u) # {}
  BY DEF Has, Marks
<1>13. Parsable(w)
  <2>1. ASSUME NEW i \in Marks(u)
        PROVE  w[i] = "?" <=> \A j \in Marks(w) : i <= j
    BY <1>1, <1>9, <1>10 DEF Parsable
  <2>2. w[Len(u) + 1] = "?" <=> \A j \in Marks(w) : Len(u) + 1 <= j
    <3>1. CASE Has(u, "?")
      BY <1>1, <1>4, <1>7, <1>9, <1>10, <1>12, <3>1
    <3>2. CASE ~ Has(u, "?")
      BY <1>1, <1>4, <1>7, <1>9, <1>11, <3>2
    <3>3. QED
      BY <3>1, <3>2
  <2>3. QED
    BY <1>9, <2>1, <2>2 DEF Parsable
<1>14. pr_add_param(p, k, v) = [p EXCEPT !.url = w]
  BY DEF pr_add_param, w, u, t, mark
<1>15. QED
  BY <1>5, <1>13, <1>14 DEF Fine, Inside, Request, Token

\* The URL is cut at its only '?'.
LEMMA ClearParamsKeeps ==
  ASSUME NEW p, Fine(p)
  PROVE  Fine(pr_clear_params(p))
<1> DEFINE u == p.url
           last == CHOOSE i \in DOMAIN u :
                     u[i] = "?" /\ \A j \in DOMAIN u : u[j] = "?" => j <= i
           w == SubSeq(u, 1, last - 1)
<1>1. u \in Seq(Token) /\ Parsable(u)
  BY DEF Fine, Request, Token
<1>2. CASE ~ Has(u, "?")
  BY <1>2 DEF pr_clear_params, Fine, Inside, Request
<1>3. CASE Has(u, "?")
  <2>1. PICK i \in DOMAIN u : u[i] = "?"
    BY <1>3 DEF Has
  <2>2. \A j \in DOMAIN u : u[j] = "?" => j = i
    BY <1>1, <2>1 DEF Parsable, Marks
  <2>3. \A j \in Marks(u) : i <= j
    BY <1>1, <2>1 DEF Parsable, Marks
  <2>4. last = i
    BY <1>1, <2>1, <2>2
  <2> HIDE DEF last
  <2>5. i \in 1 .. Len(u)
    BY <1>1
  <2> HIDE DEF u
  <2>6. /\ w \in Seq(Token) /\ Len(w) = i - 1
        /\ \A j \in 1 .. i - 1 : w[j] = u[j]
    BY <1>1, <2>4, <2>5
  <2>7. Marks(w) = {}
    <3>1. ASSUME NEW j \in 1 .. i - 1 PROVE w[j] \notin {"?", "&"}
      <4>1. j \in DOMAIN u /\ ~ (i <= j)
        BY <1>1, <2>5
      <4>2. j \notin Marks(u)
        BY <2>3, <4>1
      <4>3. QED
        BY <2>6, <4>1, <4>2 DEF Marks
    <3>2. QED
      BY <2>6, <3>1 DEF Marks
  <2> HIDE DEF w
  <2>8. pr_clear_params(p) = pr_set_url(p, w)
    BY <1>3 DEF pr_clear_params, pr_set_url, w, u, last
  <2>9. Plain(w)
    BY <2>6, <2>7 DEF Plain
  <2>10. QED
    BY <2>8, <2>9, SettersKeep
<1>4. QED
  BY <1>2, <1>3

\* A target is a method and a URL without parameters.
LEMMA TargetKeeps ==
  ASSUME NEW p, Fine(p), NEW u, Plain(u), NEW m \in Method
  PROVE  Fine(Target(p, m, u))
BY SettersKeep DEF Target

LEMMA GettersKeep ==
  ASSUME NEW p, Fine(p)
  PROVE  /\ Fine(get_all_dbs(p)) /\ Fine(db_delete(p)) /\ Fine(db_create(p))
         /\ Fine(db_get(p)) /\ Fine(db_get_changes(p)) /\ Fine(db_get_revs_limit(p))
         /\ Fine(doc_get(p)) /\ Fine(doc_get_info(p))
         /\ Fine(get_all_docs(p)) /\ Fine(get_all_docs_by_seq(p))
         /\ Fine(doc_get_attachment(p)) /\ Fine(doc_copy(p)) /\ Fine(doc_get_revs(p))
<1>1. {"_all_dbs", "_changes", "_revs_limit", "_all_docs", "_all_docs_by_seq", "name"}
        \subseteq Part
  BY DEF Part
<1>2. Fine(get_all_dbs(p)) /\ Fine(db_delete(p)) /\ Fine(db_create(p))
  BY <1>1, UrlsPlain, TargetKeeps DEF get_all_dbs, db_delete, db_create, Method
<1>3. Fine(db_get(p)) /\ Fine(db_get_changes(p)) /\ Fine(db_get_revs_limit(p))
  BY <1>1, UrlsPlain, TargetKeeps DEF db_get, db_get_changes, db_get_revs_limit, Method
<1>4. Fine(doc_get(p)) /\ Fine(doc_get_info(p)) /\ Fine(doc_get_attachment(p))
  BY <1>1, UrlsPlain, TargetKeeps DEF doc_get, doc_get_info, doc_get_attachment, Method
<1>5. Fine(get_all_docs(p)) /\ Fine(get_all_docs_by_seq(p))
  BY <1>1, UrlsPlain, TargetKeeps DEF get_all_docs, get_all_docs_by_seq, Method
<1>6. Fine(doc_copy(p))
  BY UrlsPlain, TargetKeeps, SettersKeep DEF doc_copy, Header, Method
<1>7. Fine(doc_get_revs(p))
  <2>1. "revs" \in Part /\ "true" \in Token \ {"?", "&"}
    BY DEF Part, Token
  <2>2. Fine(Target(p, "GET", DocUrl))
    BY UrlsPlain, TargetKeeps DEF Method
  <2>3. QED
    BY <2>1, <2>2, AddParamKeeps DEF doc_get_revs
<1>8. QED
  BY <1>2, <1>3, <1>4, <1>5, <1>6, <1>7

LEMMA RevisionBuildersKeep ==
  ASSUME NEW p, Fine(p), NEW r \in Rev
  PROVE  /\ Fine(pr_add_param(p, "key", r))
         /\ Fine(doc_get_rev(p, r)) /\ Fine(doc_delete(p, r))
<1>1. r \in Token \ {"?", "&"} /\ {"key", "rev"} \subseteq Part
  BY RevAssumption DEF Token, Part
<1>2. Fine(pr_add_param(p, "key", r))
  BY <1>1, AddParamKeeps
<1>3. Fine(Target(p, "GET", DocUrl)) /\ Fine(Target(p, "DELETE", DocUrl))
  BY UrlsPlain, TargetKeeps DEF Method
<1>4. Fine(doc_get_rev(p, r)) /\ Fine(doc_delete(p, r))
  BY <1>1, <1>3, AddParamKeeps DEF doc_get_rev, doc_delete
<1>5. QED
  BY <1>2, <1>4

LEMMA DataBuildersKeep ==
  ASSUME NEW p, Fine(p), NEW d \in Seq(Octet)
  PROVE  /\ Fine(db_set_revs_limit(p, d)) /\ Fine(db_compact(p))
         /\ Fine(doc_create_id(p, d)) /\ Fine(doc_create(p, d)) /\ Fine(doc_prcreate(p, d))
         /\ Fine(doc_add_attachment(p, d))
<1>1. {"_compact", "_revs_limit", "name"} \subseteq Part /\ "octet-stream" \in Header
  BY DEF Part, Header
<1>2. Fine(db_set_revs_limit(p, d))
  BY <1>1, UrlsPlain, TargetKeeps, SettersKeep DEF db_set_revs_limit, pr_set_data, Method
<1>3. Fine(db_compact(p))
  <2>1. "{" \in Octet /\ "}" \in Octet
    BY DEF Octet
  <2>2. \A x, y \in Octet : <<x, y>> \in Seq(Octet)
    OBVIOUS
  <2>3. QED
    BY <1>1, <2>1, <2>2, UrlsPlain, TargetKeeps, SettersKeep DEF db_compact, pr_set_data, Method
<1>4. Fine(doc_create_id(p, d)) /\ Fine(doc_create(p, d)) /\ Fine(doc_prcreate(p, d))
  BY UrlsPlain, TargetKeeps, SettersKeep
  DEF doc_create_id, doc_create, doc_prcreate, pr_set_data, pr_set_prdata, Method
<1>5. Fine(doc_add_attachment(p, d))
  BY <1>1, UrlsPlain, TargetKeeps, SettersKeep DEF doc_add_attachment, Method
<1>6. QED
  BY <1>2, <1>3, <1>4, <1>5

-----------------------------------------------------------------------------
(* The invariant. *)

\* libcurl reads the request only during a transfer.
OnlyInTransfer == phase \in {"idle", "freed"} => reader # "pr" /\ arrived = << >>

\* resp never counts more than arrived.
NothingInvented == phase = "perform" => pr.resp.size <= Len(arrived)

IInv ==
  /\ TypeOK /\ Fine(pr) /\ BodyIsDocument /\ ResponseIsWhatArrived
  /\ OnlyInTransfer /\ NothingInvented

LEMMA ByteIsOctet == Byte \subseteq Octet /\ Seq(Byte) \subseteq Seq(Octet) /\ Doc \subseteq Seq(Octet)
BY DocAssumption, SeqMonotonic DEF Octet

LEMMA EmptyQuotes == ASSUME NEW d, d = << >> PROVE Cardinality(Quotes(d)) < 2
<1>1. Quotes(d) = {}
  BY DEF Quotes
<1>2. QED
  BY <1>1, FS_EmptySet

LEMMA InitInv == Init => IInv
<1> SUFFICES ASSUME Init PROVE IInv
  OBVIOUS
<1>2. Fine(pr_init)
  BY DEF pr_init, Fine, Request, Block, Inside, Parsable, Marks
<1>3. TypeOK
  <2>1. {rev, eof, lost} \subseteq BOOLEAN
    BY DEF Init
  <2>2. sent \in Seq(Octet) /\ arrived \in Seq(Octet)
    BY DEF Init
  <2>3. QED
    BY <1>2, <2>1, <2>2 DEF Init, TypeOK, Fine
<1>4. Fine(pr)
  BY <1>2 DEF Init
<1>5. QED
  BY <1>3, <1>4
  DEF Init, IInv, BodyIsDocument, ResponseIsWhatArrived, OnlyInTransfer, NothingInvented

\* A call between transfers may change the struct in any way that leaves it fine.
LEMMA ClientStep ==
  ASSUME IInv, NEW q, Fine(q), Client(q)
  PROVE  IInv'
<1>1. pr' = q /\ Fine(pr') /\ pr' \in Request
  BY DEF Client, Fine
<1>2. TypeOK'
  BY <1>1 DEF Client, TypeOK, IInv, transfer
<1>3. reader' # "pr" /\ phase' = "idle" /\ arrived' = << >>
  BY DEF Client, IInv, OnlyInTransfer, transfer
<1>4. QED
  BY <1>1, <1>2, <1>3
  DEF IInv, BodyIsDocument, ResponseIsWhatArrived, OnlyInTransfer, NothingInvented

\* A transfer begins with nothing sent and an empty response.
LEMMA DoStep ==
  ASSUME IInv, NEW p, Fine(p), NEW b \in BOOLEAN, pr_do(b, p)
  PROVE  IInv'
<1> DEFINE e == Emptied(p)
<1>1. Fine(e) /\ e.req = p.req /\ e.resp = [data |-> NULL, size |-> 0]
  BY SettersKeep DEF Emptied, Fine, Request
<1>2. /\ Fine(Framed(e))
      /\ Framed(e).req = p.req /\ Framed(e).resp = [data |-> NULL, size |-> 0]
  <2> HIDE DEF e
  <2>1. Fine(pr_add_header(e, "json")) /\ pr_add_header(e, "json").req = e.req
        /\ pr_add_header(e, "json").resp = e.resp
    BY <1>1, SettersKeep DEF Header, pr_add_header, Fine, Request
  <2>2. ASSUME NEW q, Fine(q)
        PROVE  /\ Fine(pr_add_header(q, "chunked"))
               /\ pr_add_header(q, "chunked").req = q.req
               /\ pr_add_header(q, "chunked").resp = q.resp
    BY <2>2, SettersKeep DEF Header, pr_add_header, Fine, Request
  <2>3. QED
    BY <1>1, <2>1, <2>2 DEF Framed
<1>3. Fine(pr') /\ pr'.req = p.req /\ pr'.resp = [data |-> NULL, size |-> 0]
  BY <1>2 DEF pr_do
<1>4. TypeOK'
  <2>1. {rev', eof', lost'} \subseteq BOOLEAN
    BY DEF pr_do
  <2>2. sent' \in Seq(Octet) /\ arrived' \in Seq(Octet)
    BY DEF pr_do
  <2>3. pr' \in Request /\ start' \in Nat
    BY <1>3 DEF pr_do, Fine, Request
  <2>4. QED
    BY <2>1, <2>2, <2>3 DEF pr_do, TypeOK
<1>5. BodyIsDocument'
  <2>1. SUFFICES ASSUME reader' = "pr"
                 PROVE  /\ pr'.req.data # NULL
                        /\ << >> = Piece(pr'.req.data, start', 0)
                        /\ pr'.req.offset = start' + 0
    BY DEF pr_do, BodyIsDocument
  <2>2. HasData(p)
    BY <2>1 DEF pr_do
  <2>3. QED
    BY <1>3, <2>2 DEF HasData, Piece, pr_do, Fine, Request
<1>6. ResponseIsWhatArrived' /\ NothingInvented'
  BY <1>3 DEF pr_do, ResponseIsWhatArrived, NothingInvented
<1>7. QED
  BY <1>3, <1>4, <1>5, <1>6 DEF IInv, OnlyInTransfer, pr_do

-----------------------------------------------------------------------------
(* The callbacks of a transfer. *)

\* The next piece lies in the data and continues what was sent.
LEMMA SendPieceStep ==
  ASSUME IInv, SendPiece
  PROVE  IInv'
<1>1. PICK n \in 1 .. MaxChunk : send_data_callback(n)
  BY DEF SendPiece
<1> DEFINE d == pr.req.data
           o == pr.req.offset
           z == pr.req.size
           c == ToCopy(n)
           r == [data |-> d, offset |-> o + c, size |-> z - c]
<1>2. /\ d \in Block /\ o \in Nat /\ z \in Nat /\ start \in Nat
      /\ pr \in Request /\ sent \in Seq(Octet) /\ Parsable(pr.url)
  BY DEF IInv, TypeOK, Request, Fine
<1>3. /\ d # NULL /\ sent = Piece(d, start, Len(sent)) /\ o = start + Len(sent) /\ ~eof
  BY DEF SendPiece, Sending, Connected, IInv, BodyIsDocument
<1>4. d \in Seq(Octet) /\ Len(d) \in Nat /\ o + z = Len(d)
  BY <1>2, <1>3 DEF IInv, Fine, Inside, Block
<1>5. c \in Nat /\ c <= z /\ n \in Nat
  BY <1>2, ChunkAssumption DEF ToCopy
<1>6. sent' = sent \o Piece(d, o, c)
  BY <1>1 DEF send_data_callback
<1>7. pr' = [pr EXCEPT !.req = r]
  BY <1>1, <1>2 DEF send_data_callback, Request
<1> HIDE DEF d, o, z, c
<1>8. /\ r \in [data : Block, offset : Nat, size : Nat]
      /\ r.data = d /\ r.offset = o + c /\ r.size = z - c
  BY <1>2, <1>5
<1> HIDE DEF r
<1>9. /\ pr' \in Request /\ pr'.req = r /\ pr'.resp = pr.resp /\ pr'.url = pr.url
  BY <1>2, <1>7, <1>8 DEF Request
<1>10. sent' = Piece(d, start, Len(sent) + c) /\ Len(sent') = Len(sent) + c
       /\ sent' \in Seq(Octet)
  <2>1. Len(sent) \in Nat /\ start + Len(sent) + c <= Len(d)
    BY <1>2, <1>3, <1>4, <1>5
  <2>2. Piece(d, start, Len(sent)) \o Piece(d, start + Len(sent), c)
          = Piece(d, start, Len(sent) + c)
    <3>1. ASSUME NEW i \in Nat, NEW m \in Nat, NEW n_1 \in Nat, i + m + n_1 <= Len(d)
          PROVE  Piece(d, i, m) \o Piece(d, i + m, n_1) = Piece(d, i, m + n_1)
      BY <1>4, <3>1, PiecesJoin
    <3>2. QED
      BY <1>2, <1>5, <2>1, <3>1
  <2>3. sent' = Piece(d, start, Len(sent) + c)
    BY <1>3, <1>6, <2>2
  <2>4. start + (Len(sent) + c) <= Len(d) /\ Len(sent) + c \in Nat
    BY <1>2, <1>5, <2>1
  <2>5. QED
    BY <1>2, <1>4, <2>3, <2>4, PieceIsString
<1>11. Inside(pr')
  <2>1. (o + c) + (z - c) = Len(d)
    BY <1>2, <1>4, <1>5
  <2>2. QED
    BY <1>3, <1>8, <1>9, <2>1 DEF Inside
<1>12. TypeOK'
  BY <1>9, <1>10 DEF IInv, TypeOK, SendPiece
<1>13. Fine(pr')
  BY <1>2, <1>9, <1>11 DEF Fine
<1>14. BodyIsDocument'
  <2>1. pr'.req.data = d /\ pr'.req.offset = start + Len(sent')
    BY <1>2, <1>3, <1>5, <1>8, <1>9, <1>10
  <2>2. start' = start /\ eof' = eof
    BY DEF SendPiece
  <2>3. QED
    BY <1>3, <1>10, <2>1, <2>2 DEF BodyIsDocument
<1>15. ResponseIsWhatArrived' /\ OnlyInTransfer' /\ NothingInvented'
  BY <1>9 DEF SendPiece, IInv, ResponseIsWhatArrived, OnlyInTransfer, NothingInvented
<1>16. QED
  BY <1>12, <1>13, <1>14, <1>15 DEF IInv

LEMMA SendEndStep ==
  ASSUME IInv, SendEnd
  PROVE  IInv'
<1>1. TypeOK'
  BY DEF SendEnd, IInv, TypeOK
<1>2. BodyIsDocument'
  BY DEF SendEnd, Sending, Connected, IInv, BodyIsDocument, Fine, Inside, Request
<1>3. QED
  BY <1>1, <1>2
  DEF SendEnd, IInv, ResponseIsWhatArrived, OnlyInTransfer, NothingInvented

\* What changes in the struct when only resp does.
LEMMA RespChanges ==
  ASSUME IInv, NEW b \in Block, NEW z \in Nat,
         pr' = [pr EXCEPT !.resp = [data |-> b, size |-> z]]
  PROVE  /\ pr' \in Request /\ Fine(pr') /\ pr'.req = pr.req
         /\ pr'.resp.data = b /\ pr'.resp.size = z
<1>1. pr \in Request
  BY DEF IInv, TypeOK
<1>2. /\ pr' \in Request /\ pr'.req = pr.req /\ pr'.url = pr.url
      /\ pr'.resp.data = b /\ pr'.resp.size = z
  BY <1>1 DEF Request
<1>3. Fine(pr')
  BY <1>2 DEF IInv, Fine, Inside
<1>4. QED
  BY <1>2, <1>3

\* A piece of the answer goes behind what is there, or behind bytes never
\* written where a realloc has failed.
LEMMA RecvPieceStep ==
  ASSUME IInv, RecvPiece
  PROVE  IInv'
<1>1. PICK n \in 1 .. MaxChunk : \E c \in [1 .. n -> Byte] :
        recv_data_callback(c) /\ arrived' = arrived \o c
  BY DEF RecvPiece
<1>2. PICK c \in [1 .. n -> Byte] : recv_data_callback(c) /\ arrived' = arrived \o c
  BY <1>1
<1>3. c \in Seq(Octet) /\ Len(c) = n /\ n \in Nat
  BY ChunkAssumption, ByteIsOctet
<1> DEFINE d == pr.resp.data
           z == pr.resp.size
           k == Kept
<1>4. /\ d \in Block /\ z \in Nat /\ arrived \in Seq(Octet) /\ phase = "perform"
      /\ z <= Len(arrived) /\ Len(arrived) \in Nat
  BY DEF IInv, TypeOK, Request, NothingInvented, RecvPiece, Room, Connected
<1>5. /\ ~lost => z = Len(arrived)
      /\ d = NULL => lost \/ arrived = << >>
      /\ d # NULL => /\ Len(d) = z
                     /\ \A i \in 1 .. z :
                          LET j == Len(arrived) - z + i IN
                          IF lost THEN d[i] \in {Junk, arrived[j]} ELSE d[i] = arrived[j]
  BY <1>4 DEF IInv, ResponseIsWhatArrived
<1>6. k \in Seq(Octet) /\ Len(k) = z
      /\ \A i \in 1 .. z : LET j == Len(arrived) - z + i IN
           IF lost THEN k[i] \in {Junk, arrived[j]} ELSE k[i] = arrived[j]
  <2>1. CASE d = NULL
    <3>1. k = [i \in 1 .. z |-> Junk] /\ Junk \in Octet
      BY <2>1 DEF Kept, Octet
    <3>2. k \in Seq(Octet) /\ Len(k) = z /\ \A i \in 1 .. z : k[i] = Junk
      <4>1. z \in Nat
        BY <1>4
      <4>2. QED
        BY <4>1, <3>1, FilledIsString
    <3>3. lost \/ z = 0
      BY <1>5, <2>1
    <3>4. QED
      BY <1>4, <3>2, <3>3
  <2>2. CASE d # NULL
    BY <1>4, <1>5, <2>2 DEF Kept, Block
  <2>3. QED
    BY <2>1, <2>2
<1>7. pr' = [pr EXCEPT !.resp = [data |-> k \o c, size |-> z + Len(c)]]
  BY <1>2 DEF recv_data_callback, IInv, TypeOK, Request
<1> HIDE DEF d, z, k
<1>8. /\ k \o c \in Seq(Octet) /\ Len(k \o c) = Len(k) + Len(c)
      /\ \A i \in 1 .. Len(k) + Len(c) :
           (k \o c)[i] = IF i <= Len(k) THEN k[i] ELSE c[i - Len(k)]
  BY <1>3, <1>6, ConcatProperties
<1>9. /\ arrived' \in Seq(Octet) /\ Len(arrived') = Len(arrived) + Len(c)
      /\ \A i \in 1 .. Len(arrived) + Len(c) :
           arrived'[i] = IF i <= Len(arrived) THEN arrived[i] ELSE c[i - Len(arrived)]
  BY <1>2, <1>3, <1>4, ConcatProperties
<1>10. k \o c \in Block /\ k \o c # NULL /\ z + Len(c) \in Nat
  <2>1. NULL \notin Seq(Octet)
    BY NullAssumption DEF Octet
  <2>2. k \o c \in Seq(Octet)
    BY <1>8
  <2>3. z + Len(c) \in Nat
    BY <1>3, <1>4
  <2>4. QED
    BY <2>1, <2>2, <2>3 DEF Block
<1>11. /\ pr' \in Request /\ Fine(pr') /\ pr'.req = pr.req
       /\ pr'.resp.data = k \o c /\ pr'.resp.size = z + Len(c)
  BY <1>7, <1>10, RespChanges
<1>12. ASSUME NEW i \in 1 .. z + Len(c)
       PROVE  LET j == Len(arrived') - (z + Len(c)) + i IN
              IF lost THEN (k \o c)[i] \in {Junk, arrived'[j]} ELSE (k \o c)[i] = arrived'[j]
  <2> DEFINE j == Len(arrived) - z + i
  <2>1. Len(arrived') - (z + Len(c)) + i = j /\ j \in 1 .. Len(arrived) + Len(c)
    BY <1>3, <1>4, <1>9
  <2>2. CASE i <= z
    <3>1. j <= Len(arrived) /\ i \in 1 .. z
      BY <1>4, <2>2
    <3>2. (k \o c)[i] = k[i] /\ arrived'[j] = arrived[j]
      BY <1>3, <1>4, <1>6, <1>8, <1>9, <2>1, <2>2, <3>1
    <3>3. QED
      BY <1>6, <2>1, <3>1, <3>2
  <2>3. CASE ~ (i <= z)
    <3>1. ~ (j <= Len(arrived)) /\ j - Len(arrived) = i - z
      BY <1>4, <2>3
    <3>2. (k \o c)[i] = c[i - z]
      BY <1>3, <1>4, <1>6, <1>8, <2>3
    <3>3. arrived'[j] = c[i - z]
      BY <1>9, <2>1, <3>1
    <3>4. QED
      BY <2>1, <3>2, <3>3
  <2>4. QED
    BY <2>2, <2>3
<1>13. phase' = phase /\ lost' = lost
  BY DEF RecvPiece
<1>14. TypeOK'
  BY <1>9, <1>11 DEF IInv, TypeOK, RecvPiece
<1>15. ResponseIsWhatArrived' /\ NothingInvented'
  <2>1. ~lost => z + Len(c) = Len(arrived')
    BY <1>3, <1>4, <1>5, <1>9
  <2>2. Len(k \o c) = z + Len(c) /\ z + Len(c) <= Len(arrived')
    BY <1>3, <1>4, <1>6, <1>8, <1>9
  <2>3. QED
    BY <1>4, <1>10, <1>11, <1>12, <1>13, <2>1, <2>2
    DEF ResponseIsWhatArrived, NothingInvented
<1>16. BodyIsDocument' /\ OnlyInTransfer'
  BY <1>11 DEF RecvPiece, Room, Connected, IInv, BodyIsDocument, OnlyInTransfer
<1>17. QED
  BY <1>11, <1>14, <1>15, <1>16 DEF IInv

\* After a realloc that failed the response is unknown until more arrives.
LEMMA RecvFailsStep ==
  ASSUME IInv, RecvFails
  PROVE  IInv'
<1>1. PICK b \in Byte : arrived' = Append(arrived, b)
  BY DEF RecvFails
<1>2. /\ pr \in Request /\ pr.resp.size \in Nat /\ arrived \in Seq(Octet)
      /\ phase = "perform" /\ pr.resp.size <= Len(arrived) /\ b \in Octet
  BY ByteIsOctet DEF IInv, TypeOK, Request, NothingInvented, RecvFails, Room, Connected
<1>3. pr' = [pr EXCEPT !.resp = [data |-> NULL, size |-> pr.resp.size]]
  <2>1. [pr.resp EXCEPT !.data = NULL] = [data |-> NULL, size |-> pr.resp.size]
    BY <1>2 DEF Request
  <2>2. QED
    BY <2>1 DEF RecvFails
<1>4. /\ pr' \in Request /\ Fine(pr') /\ pr'.req = pr.req
      /\ pr'.resp.data = NULL /\ pr'.resp.size = pr.resp.size
  <2>1. NULL \in Block
    BY DEF Block
  <2>2. QED
    BY <1>2, <1>3, <2>1, RespChanges
<1>5. arrived' \in Seq(Octet) /\ Len(arrived') = Len(arrived) + 1 /\ lost'
  BY <1>1, <1>2 DEF RecvFails
<1>6. TypeOK'
  <2>1. {rev', eof', lost'} \subseteq BOOLEAN
    BY DEF RecvFails, IInv, TypeOK
  <2>2. QED
    BY <1>4, <1>5, <2>1 DEF RecvFails, IInv, TypeOK
<1>7. ResponseIsWhatArrived' /\ NothingInvented'
  BY <1>2, <1>4, <1>5 DEF RecvFails, ResponseIsWhatArrived, NothingInvented
<1>8. BodyIsDocument' /\ OnlyInTransfer'
  BY <1>4 DEF RecvFails, Room, Connected, IInv, BodyIsDocument, OnlyInTransfer
<1>9. QED
  BY <1>4, <1>6, <1>7, <1>8 DEF IInv

\* Any step to "idle" that leaves the request fine keeps the invariant.
LEMMA IdleStep ==
  ASSUME Fine(pr'), phase' = "idle", NoTransfer
  PROVE  IInv'
<1>1. {rev', eof', lost'} \subseteq BOOLEAN
  BY DEF NoTransfer
<1>2. sent' \in Seq(Octet) /\ arrived' \in Seq(Octet) /\ start' \in Nat
  BY DEF NoTransfer
<1>3. TypeOK'
  BY <1>1, <1>2 DEF TypeOK, Fine, NoTransfer
<1>4. QED
  BY <1>3 DEF IInv, NoTransfer, BodyIsDocument, ResponseIsWhatArrived, OnlyInTransfer,
              NothingInvented

LEMMA ReturnStep ==
  ASSUME IInv, Return
  PROVE  IInv'
BY SettersKeep, IdleStep DEF Return, IInv

LEMMA ReturnRevStep ==
  ASSUME IInv, ReturnRev
  PROVE  IInv'
<1> DEFINE d == pr.resp.data
           r == Revision(d)
<1>1. pr \in Request /\ Fine(Finished(pr)) /\ d \in Block
  BY SettersKeep DEF IInv, TypeOK, Request
<1>2. d # NULL /\ ~ (Cardinality(Quotes(d)) < 2)
  BY DEF ReturnRev, NoRevision
<1>3. r \in Block
  BY <1>1, <1>2, RevisionIsString DEF Block
<1> HIDE DEF r
<1>4. pr' = [Finished(pr) EXCEPT !.resp.data = r]
  BY <1>1 DEF ReturnRev, Finished, Request, r
<1>5. Fine(pr')
  BY <1>1, <1>3, <1>4 DEF Fine, Inside, Request, Finished
<1>6. QED
  BY <1>5, IdleStep DEF ReturnRev

\* doc_get_cur_rev fails only where no revision arrived.
LEMMA CrashRevStep ==
  ASSUME IInv, CrashRev
  PROVE  IInv'
<1> DEFINE d == pr.resp.data
<1>1. /\ d \in Block /\ arrived \in Seq(Octet) /\ phase = "perform"
      /\ d # NULL => Cardinality(Quotes(d)) < 2
  BY DEF CrashRev, NoRevision, IInv, TypeOK, Request
<1>2. lost \/ Cardinality(Quotes(arrived)) < 2
  <2> SUFFICES ASSUME ~lost PROVE Cardinality(Quotes(arrived)) < 2
    OBVIOUS
  <2>1. CASE d = NULL
    BY <1>1, <2>1, EmptyQuotes DEF IInv, ResponseIsWhatArrived
  <2>2. CASE d # NULL
    <3>1. d \in Seq(Octet) /\ Len(arrived) \in Nat
      BY <1>1, <2>2 DEF Block
    <3>2. Len(d) = Len(arrived)
      BY <1>1, <2>2 DEF IInv, ResponseIsWhatArrived
    <3>3. \A i \in 1 .. Len(d) : d[i] = arrived[Len(arrived) - Len(d) + i]
      BY <1>1, <2>2, <3>2 DEF IInv, ResponseIsWhatArrived
    <3>4. \A i \in 1 .. Len(d) : d[i] = arrived[i]
      BY <3>1, <3>2, <3>3
    <3>5. d = arrived
      BY <1>1, <3>1, <3>2, <3>4, SeqEqual
    <3>6. QED
      BY <1>1, <2>2, <3>5
  <2>3. QED
    BY <2>1, <2>2
<1>3. TypeOK'
  BY DEF CrashRev, IInv, TypeOK, transfer
<1>4. ResponseIsWhatArrived'
  BY <1>2 DEF CrashRev, transfer, ResponseIsWhatArrived
<1>5. QED
  BY <1>3, <1>4
  DEF CrashRev, transfer, IInv, BodyIsDocument, OnlyInTransfer, NothingInvented

\* Where the struct is replaced and no transfer begins.
LEMMA QuietStep ==
  ASSUME IInv, Fine(pr'), phase \in {"idle", "freed"}, phase' \in {"idle", "freed", "crashed"},
         UNCHANGED <<rev, transfer>>
  PROVE  IInv'
<1>1. TypeOK'
  BY DEF IInv, TypeOK, Fine, transfer
<1>2. reader' # "pr" /\ arrived' = << >>
  BY DEF IInv, OnlyInTransfer, transfer
<1>3. ResponseIsWhatArrived'
  BY <1>2, NothingQuoted DEF ResponseIsWhatArrived
<1>4. QED
  BY <1>1, <1>2, <1>3 DEF IInv, BodyIsDocument, OnlyInTransfer, NothingInvented

LEMMA StutterStep ==
  ASSUME IInv, UNCHANGED vars
  PROVE  IInv'
BY DEF vars, transfer, IInv, TypeOK, Fine, BodyIsDocument, ResponseIsWhatArrived,
       OnlyInTransfer, NothingInvented

-----------------------------------------------------------------------------
(* The theorems. *)

LEMMA NextInv == IInv /\ [Next]_vars => IInv'
<1> SUFFICES ASSUME IInv, [Next]_vars PROVE IInv'
  OBVIOUS
<1>1. Fine(pr)
  BY DEF IInv
<1>2. CASE Client(pr_add_header(pr, "Destination"))
  BY <1>1, <1>2, ClientStep, SettersKeep DEF Header
<1>3. CASE Client(pr_add_usrpwd(pr)) \/ Client(pr_clear_data(pr))
  BY <1>1, <1>3, ClientStep, SettersKeep
<1>3a. CASE \/ \E m \in Method : Client(pr_set_method(pr, m))
            \/ \E u \in Url : Client(pr_set_url(pr, u))
  BY <1>1, <1>3a, ClientStep, SettersKeep, UrlPlain
<1>3b. CASE \E d \in Doc : \/ Client(pr_set_data(pr, d)) \/ Client(pr_set_bdata(pr, d))
                          \/ Client(pr_set_prdata(pr, d))
  BY <1>1, <1>3b, ByteIsOctet, ClientStep, SettersKeep DEF pr_set_data, pr_set_prdata
<1>4. CASE Client(pr_clear_params(pr))
  BY <1>1, <1>4, ClientStep, ClearParamsKeeps
<1>5. CASE \E r \in Rev : Client(pr_add_param(pr, "key", r))
  BY <1>1, <1>5, ClientStep, RevisionBuildersKeep
<1>6. CASE \/ Client(get_all_dbs(pr)) \/ Client(db_delete(pr)) \/ Client(db_create(pr))
           \/ Client(db_get(pr)) \/ Client(db_get_changes(pr))
           \/ Client(db_get_revs_limit(pr))
  BY <1>1, <1>6, ClientStep, GettersKeep
<1>7. CASE \/ Client(doc_get(pr)) \/ Client(doc_get_info(pr))
           \/ Client(get_all_docs(pr)) \/ Client(get_all_docs_by_seq(pr))
           \/ Client(doc_get_attachment(pr)) \/ Client(doc_copy(pr))
  BY <1>1, <1>7, ClientStep, GettersKeep
<1>8. CASE Client(doc_get_revs(pr))
  BY <1>1, <1>8, ClientStep, GettersKeep
<1>9. CASE \E r \in Rev : Client(doc_get_rev(pr, r)) \/ Client(doc_delete(pr, r))
  BY <1>1, <1>9, ClientStep, RevisionBuildersKeep
<1>10. CASE Client(db_compact(pr))
  <2>1. << >> \in Seq(Octet)
    OBVIOUS
  <2>2. QED
    BY <1>1, <1>10, <2>1, ClientStep, DataBuildersKeep
<1>11. CASE \E d \in Doc : \/ Client(db_set_revs_limit(pr, d)) \/ Client(doc_create_id(pr, d))
                          \/ Client(doc_create(pr, d)) \/ Client(doc_prcreate(pr, d))
  BY <1>1, <1>11, ByteIsOctet, ClientStep, DataBuildersKeep
<1>12. CASE \E c \in Doc \cup {<< >>}, n \in 0 .. MaxFile :
              Client(doc_add_attachment(pr, FileBuffer(c, n)))
  <2>1. PICK c \in Doc \cup {<< >>}, n \in 0 .. MaxFile :
               Client(doc_add_attachment(pr, FileBuffer(c, n)))
    BY <1>12
  <2>2. n \in Nat
    BY ChunkAssumption
  <2>3. c \in Seq(Octet)
    <3>1. << >> \in Seq(Octet)
      OBVIOUS
    <3>2. QED
      BY <3>1, ByteIsOctet
  <2>4. \A i \in 1 .. n : (IF i <= Len(c) THEN c[i] ELSE Junk) \in Octet
    <3>1. Junk \in Octet
      BY DEF Octet
    <3>2. QED
      BY <2>3, <3>1
  <2>5. FileBuffer(c, n) \in Seq(Octet)
    BY <2>2, <2>4 DEF FileBuffer
  <2>6. QED
    BY <1>1, <2>1, <2>5, ClientStep, DataBuildersKeep
<1>13. CASE Do
  BY <1>1, <1>13, DoStep DEF Do
<1>14. CASE DocGetCurRev
  BY <1>1, <1>14, GettersKeep, DoStep DEF DocGetCurRev
<1>15. CASE DoFails
  <2>1. Fine(Finished(Emptied(pr)))
    BY <1>1, SettersKeep
  <2>2. QED
    BY <1>15, <2>1, QuietStep DEF DoFails
<1>15a. CASE DocGetCurRevFails
  <2>1. Fine(Finished(Emptied(doc_get_info(pr))))
    BY <1>1, GettersKeep, SettersKeep
  <2>2. QED
    BY <1>15a, <2>1, QuietStep DEF DocGetCurRevFails
<1>15b. CASE NullCrash
  BY <1>1, <1>15b, QuietStep DEF NullCrash
<1>16. CASE SendPiece \/ SendEnd
  BY <1>16, SendPieceStep, SendEndStep
<1>17. CASE RecvPiece \/ RecvFails
  BY <1>17, RecvPieceStep, RecvFailsStep
<1>18. CASE Return \/ ReturnRev \/ CrashRev
  BY <1>18, ReturnStep, ReturnRevStep, CrashRevStep
<1>19. CASE pr_free
  BY <1>1, <1>19, QuietStep DEF pr_free
<1>20. CASE PrInit
  <2>1. Fine(pr_init)
    BY DEF pr_init, Fine, Request, Block, Inside, Parsable, Marks
  <2>2. QED
    BY <1>20, <2>1, QuietStep DEF PrInit
<1>21. CASE UNCHANGED vars
  BY <1>21, StutterStep
<1>22. QED
  BY <1>2, <1>3, <1>3a, <1>3b, <1>4, <1>5, <1>6, <1>7, <1>8, <1>9, <1>10, <1>11, <1>12,
     <1>13, <1>14, <1>15, <1>15a, <1>15b, <1>16, <1>17, <1>18, <1>19, <1>20, <1>21 DEF Next

LEMMA InvHolds == Spec => []IInv
BY InitInv, NextInv, PTL DEF Spec

\* The types of the request and of libcurl's side of a transfer.
THEOREM RequestTypeOK == Spec => []TypeOK
<1>1. IInv => TypeOK
  BY DEF IInv
<1>2. QED
  BY <1>1, InvHolds, PTL

\* send_data_callback never reads behind the data, in whatever order data is
\* set, cleared, sent in part and used again.
THEOREM SendsInsideHolds == Spec => []SendsInside
<1>1. IInv => SendsInside
  BY DEF IInv, Fine, Inside, SendsInside
<1>2. QED
  BY <1>1, InvHolds, PTL

\* The body of a request is its data, however libcurl cuts it.
THEOREM BodyIsDocumentHolds == Spec => []BodyIsDocument
<1>1. IInv => BodyIsDocument
  BY DEF IInv
<1>2. QED
  BY <1>1, InvHolds, PTL

\* recv_data_callback puts an answer together, however it is cut, and
\* doc_get_cur_rev fails only on an answer without a revision.
THEOREM ResponseHolds == Spec => []ResponseIsWhatArrived
<1>1. IInv => ResponseIsWhatArrived
  BY DEF IInv
<1>2. QED
  BY <1>1, InvHolds, PTL

\* pr_add_param and pr_clear_params leave a URL with one '?', its first mark.
THEOREM UrlHolds == Spec => []UrlIsParsable
<1>1. IInv => UrlIsParsable
  BY DEF IInv, Fine, Parsable, Marks, UrlIsParsable
<1>2. QED
  BY <1>1, InvHolds, PTL
=============================================================================
