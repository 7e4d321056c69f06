------------------------------ MODULE PouchReq ------------------------------
(***************************************************************************)
(* One CouchDB request (a PouchReq of lib/pouch/pouch.c) over its life:    *)
(* the builders that set method, URL, headers and data, the blocking       *)
(* transfer pr_do with libcurl's two callbacks, doc_get_cur_rev, reuse.    *)
(*                                                                         *)
(* libcurl is external: during a transfer it asks for the body in pieces   *)
(* of any size, delivers the answer in pieces of any size, interleaves the *)
(* two as it likes, and gives up at any point.  A URL is a sequence of     *)
(* tokens; '?', '&', '=' and '/' are tokens of their own.                  *)
(***************************************************************************)
EXTENDS Integers, Sequences, FiniteSets

CONSTANTS
  NULL,      \* the null pointer
  Doc,       \* the documents and file contents a client sends: strings of bytes
  Rev,       \* revisions and other values of parameters, without a '?'
  Url,       \* URLs a client sets itself, without parameters
  Byte,      \* the bytes of answers; "quote" is '"'
  Junk,      \* a byte of memory that was never written
  MaxChunk,  \* the most libcurl asks for, or delivers, at once
  MaxResp,   \* bound: bytes of an answer before its last piece
  MaxUrl,    \* bound: tokens of a URL before a parameter is added
  MaxFile    \* bound: size that lstat gives for a file

ASSUME ChunkAssumption == MaxChunk \in Nat \ {0} /\ {MaxResp, MaxFile} \subseteq Nat
ASSUME DocAssumption   == Doc \subseteq Seq(Byte)
ASSUME RevAssumption   == Rev \cap {"?", "&"} = {}

\* What a URL is made of, but for values and marks.
Part    == {"/", "=", "server", "db", "id", "name", "_all_dbs", "_changes",
            "_revs_limit", "_compact", "_all_docs", "_all_docs_by_seq",
            "rev", "revs", "true", "key"}

ASSUME UrlAssumption   == Url \subseteq Seq(Rev \cup Part)
ASSUME NullAssumption  == NULL \notin Seq(Byte \cup {Junk, "{", "}"})

VARIABLES
  pr,      \* the struct
  phase,   \* "idle", "perform" (in curl_easy_perform), "freed", "crashed"
  rev,     \* the transfer is that of doc_get_cur_rev
  reader,  \* who gives libcurl the body: "pr" (send_data_callback), "stdin"
  start,   \* history: offset when the transfer began
  sent,    \* history: the bytes of the body libcurl has got in this transfer
  eof,     \* history: it was told that the body ends there
  arrived, \* history: the bytes libcurl has delivered in this transfer
  lost     \* history: a realloc failed in this transfer

transfer == <<reader, start, sent, eof, arrived, lost>>
vars     == <<pr, phase, rev, transfer>>

Octet  == Byte \cup {Junk, "{", "}"}
Method == {"GET", "PUT", "POST", "HEAD", "COPY", "DELETE"}

\* << >> is the URL of a request that has none yet, which is a null pointer.
pr_init ==
  [ method |-> NULL, url |-> << >>, headers |-> {}, usrpwd |-> FALSE,
    req  |-> [data |-> NULL, offset |-> 0, size |-> 0],
    resp |-> [data |-> NULL, size |-> 0] ]

Init ==
  /\ pr = pr_init /\ phase = "idle" /\ rev = FALSE
  /\ reader = "stdin" /\ start = 0 /\ sent = << >> /\ eof = FALSE
  /\ arrived = << >> /\ lost = FALSE

-----------------------------------------------------------------------------
(* Setters. *)

pr_add_header(p, h)  == [p EXCEPT !.headers = @ \cup {h}]
pr_add_usrpwd(p)     == [p EXCEPT !.usrpwd = TRUE]
pr_set_method(p, m)  == [p EXCEPT !.method = m]
pr_set_url(p, u)     == [p EXCEPT !.url = u]
combine(u, s)        == u \o <<"/", s>>

Has(u, t) == \E i \in DOMAIN u : u[i] = t

\* Mutant: every parameter begins with '?'.
pr_add_paramQuery(p, k, v) == [p EXCEPT !.url = @ \o <<"?", k, "=", v>>]

pr_add_param(p, k, v) ==
  [p EXCEPT !.url = @ \o <<IF Has(@, "?") THEN "&" ELSE "?", k, "=", v>>]

\* The URL is cut at its last '?'.
pr_clear_params(p) ==
  [p EXCEPT !.url =
     IF Has(@, "?")
       THEN SubSeq(@, 1, (CHOOSE i \in DOMAIN @ :
                            /\ @[i] = "?"
                            /\ \A j \in DOMAIN @ : @[j] = "?" => j <= i) - 1)
       ELSE @]

\* The buffer is a copy, and offset points to its first byte.
pr_set_bdata(p, d) == [p EXCEPT !.req = [data |-> d, offset |-> 0, size |-> Len(d)]]

pr_set_data(p, d) == pr_set_bdata(p, d)

\* The same, with the caller's own buffer.
pr_set_prdata(p, d) == pr_set_bdata(p, d)

\* offset still points into the freed buffer.
pr_clear_data(p) == [p EXCEPT !.req = [@ EXCEPT !.data = NULL, !.size = 0]]

-----------------------------------------------------------------------------
(* Builders. *)

Target(p, m, u) == pr_set_url(pr_set_method(p, m), u)
Server == <<"server">>
Db     == combine(Server, "db")
DocUrl == combine(Db, "id")

get_all_dbs(p)            == Target(p, "GET", combine(Server, "_all_dbs"))
db_delete(p)              == Target(p, "DELETE", Db)
db_create(p)              == Target(p, "PUT", Db)
db_get(p)                 == Target(p, "GET", Db)
db_get_changes(p)         == Target(p, "GET", combine(Db, "_changes"))
db_get_revs_limit(p)      == Target(p, "GET", combine(Db, "_revs_limit"))
db_set_revs_limit(p, d)   == Target(pr_set_data(p, d), "PUT", combine(Db, "_revs_limit"))
db_compact(p)             == Target(pr_set_data(p, <<"{", "}">>), "POST", combine(Db, "_compact"))
doc_get(p)                == Target(p, "GET", DocUrl)
doc_get_rev(p, r)         == pr_add_param(Target(p, "GET", DocUrl), "rev", r)
doc_get_revs(p)           == pr_add_param(Target(p, "GET", DocUrl), "revs", "true")
doc_get_info(p)           == Target(p, "HEAD", DocUrl)
doc_create_id(p, d)       == pr_set_data(Target(p, "PUT", DocUrl), d)
doc_create(p, d)          == pr_set_data(Target(p, "POST", Db), d)
doc_prcreate(p, d)        == pr_set_prdata(Target(p, "POST", Db), d)
get_all_docs(p)           == Target(p, "GET", combine(Db, "_all_docs"))
get_all_docs_by_seq(p)    == Target(p, "GET", combine(Db, "_all_docs_by_seq"))
doc_get_attachment(p)     == Target(p, "GET", combine(DocUrl, "name"))
doc_copy(p)               == pr_add_header(Target(p, "COPY", DocUrl), "Destination")
doc_delete(p, r)          == pr_add_param(Target(p, "DELETE", DocUrl), "rev", r)

\* What read leaves in a buffer of the size n that lstat gave: as much as the
\* file c has, or nothing if open failed, for the test of its result never
\* fails.  The rest of the buffer was never written.
FileBuffer(c, n) == [i \in 1 .. n |-> IF i <= Len(c) THEN c[i] ELSE Junk]

\* A header for the type that the name's extension suggests is left out.
doc_add_attachment(p, b) ==
  Target(pr_add_header(pr_set_bdata(p, b), "octet-stream"), "PUT", combine(DocUrl, "name"))

\* A call of the client between transfers, with the struct q afterwards.
Client(q) ==
  /\ phase = "idle" /\ pr' = q
  /\ UNCHANGED <<phase, rev, transfer>>

-----------------------------------------------------------------------------
(* pr_do. *)

HasData(p)    == p.req.data # NULL /\ p.req.size > 0
SendsBody(p)  == p.method \in {"PUT", "POST"}
\* The bytes from position i on, at most n.
Piece(d, i, n) == [k \in 1 .. n |-> d[i + k]]

\* The headers pr_do adds.
Framed(p) ==
  pr_add_header(IF p.method = "POST" THEN pr_add_header(p, "json") ELSE p, "chunked")

Emptied(p) == [p EXCEPT !.resp = [data |-> NULL, size |-> 0]]

\* pr_do up to curl_easy_perform.  Without data of its own the request gets
\* no READFUNCTION, and libcurl's default reads the standard input.
pr_do(forRev, p) ==
  /\ pr' = Framed(Emptied(p))
  /\ phase' = "perform" /\ rev' = forRev
  /\ reader' = IF HasData(p) THEN "pr" ELSE "stdin"
  /\ start' = p.req.offset /\ sent' = << >> /\ eof' = FALSE
  /\ arrived' = << >> /\ lost' = FALSE

Do == phase = "idle" /\ pr.method # NULL /\ pr_do(FALSE, pr)

\* Without a method pr_do gives strncmp a null pointer, as without a URL
\* pr_add_param and pr_clear_params give one to strlen and strchr.
NullCrash ==
  /\ phase = "idle" /\ (pr.method = NULL \/ pr.url = << >>)
  /\ phase' = "crashed"
  /\ UNCHANGED <<pr, rev, transfer>>

\* doc_get_cur_rev makes the request as well.
DocGetCurRev == phase = "idle" /\ pr_do(TRUE, doc_get_info(pr))

\* pr_do after the transfer; the result codes are the client's.
Finished(p) == [p EXCEPT !.headers = {}]

\* pr_do when curl_easy_init gives no handle.
DoFails ==
  /\ phase = "idle"
  /\ pr' = Finished(Emptied(pr))
  /\ UNCHANGED <<phase, rev, transfer>>

\* The same in doc_get_cur_rev, which looks for quotes in the answer there is not.
DocGetCurRevFails ==
  /\ phase = "idle" /\ phase' = "crashed"
  /\ pr' = Finished(Emptied(doc_get_info(pr)))
  /\ UNCHANGED <<rev, transfer>>

ToCopy(n) == IF pr.req.size > n THEN n ELSE pr.req.size

\* Mutant: offset moves on by what was asked for.
send_data_callbackAsked(n) ==
  /\ pr.req.size > 0
  /\ sent' = sent \o Piece(pr.req.data, pr.req.offset, ToCopy(n))
  /\ pr' = [pr EXCEPT !.req = [data |-> @.data, offset |-> @.offset + n, size |-> @.size - ToCopy(n)]]

\* Mutant: the piece is taken from the beginning of the data.
send_data_callbackRestarts(n) ==
  /\ pr.req.size > 0
  /\ sent' = sent \o Piece(pr.req.data, 0, ToCopy(n))
  /\ pr' = [pr EXCEPT !.req = [data |-> @.data, offset |-> @.offset + ToCopy(n), size |-> @.size - ToCopy(n)]]

\* libcurl asks for at most n bytes: the next piece of the data.
send_data_callback(n) ==
  /\ pr.req.size > 0
  /\ sent' = sent \o Piece(pr.req.data, pr.req.offset, ToCopy(n))
  /\ pr' = [pr EXCEPT !.req = [data |-> @.data, offset |-> @.offset + ToCopy(n), size |-> @.size - ToCopy(n)]]

\* Without a URL libcurl gives up at once.
Connected == phase = "perform" /\ pr.url # << >>

Sending == Connected /\ SendsBody(pr) /\ reader = "pr" /\ ~eof

SendPiece ==
  /\ Sending
  /\ \E n \in 1 .. MaxChunk : send_data_callback(n)
  /\ UNCHANGED <<phase, rev, reader, start, eof, arrived, lost>>

\* All is sent: the callback returns 0.
SendEnd ==
  /\ Sending /\ pr.req.size = 0
  /\ eof' = TRUE
  /\ UNCHANGED <<pr, phase, rev, reader, start, sent, arrived, lost>>

\* What realloc gives with room behind the response so far: after a realloc
\* that failed the old block is lost, but size still counts its bytes.
Kept == IF pr.resp.data = NULL THEN [i \in 1 .. pr.resp.size |-> Junk] ELSE pr.resp.data

\* Mutant: each piece overwrites the last.
recv_data_callbackLast(c) ==
  pr' = [pr EXCEPT !.resp = [data |-> c, size |-> Len(c)]]

\* libcurl delivers the piece c.
recv_data_callback(c) ==
  pr' = [pr EXCEPT !.resp = [data |-> Kept \o c, size |-> @.size + Len(c)]]

Room == Connected /\ Len(arrived) < MaxResp

RecvPiece ==
  /\ Room
  /\ \E n \in 1 .. MaxChunk : \E c \in [1 .. n -> Byte] :
       recv_data_callback(c) /\ arrived' = arrived \o c
  /\ UNCHANGED <<phase, rev, reader, start, sent, eof, lost>>

\* The same when realloc fails; the callback reports the piece as stored.
RecvFails ==
  /\ Room
  /\ \E b \in Byte : arrived' = Append(arrived, b)
  /\ pr' = [pr EXCEPT !.resp.data = NULL]
  /\ lost' = TRUE
  /\ UNCHANGED <<phase, rev, reader, start, sent, eof>>

Quotes(d) == {i \in DOMAIN d : d[i] = "quote"}

\* strchr and strrchr find no two quotes, or get no string.
NoRevision(d) == d # NULL => Cardinality(Quotes(d)) < 2

\* What is between the first and the last quote.
Revision(d) ==
  LET first == CHOOSE i \in Quotes(d) : \A j \in Quotes(d) : i <= j
      last  == CHOOSE i \in Quotes(d) : \A j \in Quotes(d) : i >= j
  IN  Piece(d, first, last - first - 1)

\* The histories begin anew with each transfer.
NoTransfer ==
  /\ rev' = FALSE /\ reader' = "stdin" /\ start' = 0 /\ sent' = << >>
  /\ eof' = FALSE /\ arrived' = << >> /\ lost' = FALSE

\* curl_easy_perform returns.
Return ==
  /\ phase = "perform" /\ ~rev
  /\ phase' = "idle" /\ pr' = Finished(pr)
  /\ NoTransfer

\* In doc_get_cur_rev, which goes on with the answer whether it came or not, and
\* leaves size as it is.
ReturnRev ==
  /\ phase = "perform" /\ rev
  /\ ~NoRevision(pr.resp.data)
  /\ phase' = "idle"
  /\ pr' = [Finished(pr) EXCEPT !.resp.data = Revision(@)]
  /\ NoTransfer

\* It uses a null pointer, or a length below zero.
CrashRev ==
  /\ phase = "perform" /\ rev
  /\ NoRevision(pr.resp.data)
  /\ phase' = "crashed"
  /\ UNCHANGED <<pr, rev, transfer>>

pr_free == phase = "idle" /\ phase' = "freed" /\ UNCHANGED <<pr, rev, transfer>>

\* The client makes another request.
PrInit ==
  /\ phase = "freed" /\ phase' = "idle" /\ pr' = pr_init
  /\ UNCHANGED <<rev, transfer>>

Next ==
  \/ PrInit
  \/ Client(pr_add_header(pr, "Destination"))
  \/ Client(pr_add_usrpwd(pr))
  \/ \E m \in Method : Client(pr_set_method(pr, m))
  \/ \E u \in Url : Client(pr_set_url(pr, u))
  \/ \E d \in Doc : Client(pr_set_data(pr, d)) \/ Client(pr_set_bdata(pr, d))
                    \/ Client(pr_set_prdata(pr, d))
  \/ pr.url # << >> /\ Client(pr_clear_params(pr))
  \/ Client(pr_clear_data(pr))
  \/ /\ Len(pr.url) \in 1 .. MaxUrl
     /\ \E r \in Rev : Client(pr_add_param(pr, "key", r))
  \/ Client(get_all_dbs(pr)) \/ Client(db_delete(pr)) \/ Client(db_create(pr))
  \/ Client(db_get(pr)) \/ Client(db_get_changes(pr)) \/ Client(db_get_revs_limit(pr))
  \/ \E d \in Doc : Client(db_set_revs_limit(pr, d))
  \/ Client(db_compact(pr))
  \/ Client(doc_get(pr)) \/ Client(doc_get_revs(pr)) \/ Client(doc_get_info(pr))
  \/ \E r \in Rev : Client(doc_get_rev(pr, r)) \/ Client(doc_delete(pr, r))
  \/ \E d \in Doc : Client(doc_create_id(pr, d)) \/ Client(doc_create(pr, d))
                    \/ Client(doc_prcreate(pr, d))
  \/ Client(get_all_docs(pr)) \/ Client(get_all_docs_by_seq(pr))
  \/ Client(doc_get_attachment(pr)) \/ Client(doc_copy(pr))
  \/ \E c \in Doc \cup {<< >>}, n \in 0 .. MaxFile :
       Client(doc_add_attachment(pr, FileBuffer(c, n)))
  \/ Do \/ DocGetCurRev \/ DoFails \/ DocGetCurRevFails \/ NullCrash
  \/ SendPiece \/ SendEnd \/ RecvPiece \/ RecvFails
  \/ Return \/ ReturnRev \/ CrashRev
  \/ pr_free

Spec == Init /\ [][Next]_vars

-----------------------------------------------------------------------------
(* Properties. *)

\* The struct PouchReq, and a string of bytes that a pointer in it names.
Block   == Seq(Octet) \cup {NULL}
Request ==
  [ method  : Method \cup {NULL},
    url     : Seq(Rev \cup Part \cup {"?", "&"}),
    headers : SUBSET {"Destination", "octet-stream", "json", "chunked"},
    usrpwd  : BOOLEAN,
    req     : [data : Block, offset : Nat, size : Nat],
    resp    : [data : Block, size : Nat] ]

TypeOK ==
  /\ pr \in Request
  /\ phase \in {"idle", "perform", "freed", "crashed"}
  /\ reader \in {"pr", "stdin"}
  /\ start \in Nat /\ sent \in Seq(Octet) /\ arrived \in Seq(Octet)
  /\ {rev, eof, lost} \subseteq BOOLEAN

\* Whatever was set, cleared, sent in part and used again: offset and size name
\* a piece at the end of the buffer, so send_data_callback reads nothing behind
\* it, and there is nothing to send without a buffer.
SendsInside ==
  IF pr.req.data = NULL THEN pr.req.size = 0
  ELSE pr.req.offset + pr.req.size = Len(pr.req.data)

\* However libcurl cuts the body, what it got so far is what follows in the data
\* the position where the transfer began, and all of that at the end.
BodyIsDocument ==
  reader = "pr" =>
    /\ pr.req.data # NULL
    /\ sent = Piece(pr.req.data, start, Len(sent))
    /\ pr.req.offset = start + Len(sent)
    /\ eof => pr.req.offset = Len(pr.req.data)

\* However the answer is cut, and whenever a realloc fails, resp holds what
\* arrived, in order, or at least an end of it behind bytes never written.  And
\* doc_get_cur_rev finds the quoted revision in whatever pieces it arrives: it
\* only fails on an answer without one.
ResponseIsWhatArrived ==
  /\ phase = "crashed" => lost \/ Cardinality(Quotes(arrived)) < 2
  /\ phase = "perform" =>
    /\ ~lost => pr.resp.size = Len(arrived)
    /\ pr.resp.data = NULL => lost \/ arrived = << >>
    /\ pr.resp.data # NULL =>
         /\ Len(pr.resp.data) = pr.resp.size
         /\ \A i \in 1 .. pr.resp.size :
              LET j == Len(arrived) - pr.resp.size + i IN
              IF lost THEN pr.resp.data[i] \in {Junk, arrived[j]}
              ELSE pr.resp.data[i] = arrived[j]

\* In every order of builders, pr_add_param and pr_clear_params, the first mark
\* in a URL is its only '?' and all later ones are '&'.
UrlIsParsable ==
  LET marks == {i \in DOMAIN pr.url : pr.url[i] \in {"?", "&"}}
  IN  \A i \in marks : pr.url[i] = "?" <=> \A j \in marks : i <= j
=============================================================================
