------------------------------ MODULE Gateway ------------------------------
(***************************************************************************)
(* The HTTP side of cmd/go-iroh-blobs-gateway: its four routes, the status  *)
(* each request is answered with, and the index of a collection with the    *)
(* links a client follows from it.  What the gateway does on the provider's *)
(* connection is program blobs_gateway of module ExamplePrograms; here a    *)
(* fetch succeeds or fails.                                                 *)
(*                                                                         *)
(* A name is a sequence of characters, of which only those matter that a    *)
(* line of text, a URL or its parser treats specially. An escape, a "%" and *)
(* two hexadecimal digits, counts as one character; none stands for a "%",  *)
(* which could make an escape of what follows it.                           *)
(***************************************************************************)
EXTENDS Sequences, Naturals

CONSTANTS
  Hash,
  Space,       \* white space, which ends a field of the index
  Mark,        \* "?" and "#", which end the path of a URL
  Percent,     \* a "%" that starts no escape, which no path may contain
  Decoded,     \* the character that each escape stands for
  Name,        \* the names entries and requests may have: sequences of Char
  Collections  \* what the provider may hold: sequences of [name, hash]

VARIABLES
  entries,   \* the provider's collection
  index,     \* the links of the index the client has read, <<>> before that
  followed,  \* the link it followed last, 0 if its last request is another
  reply      \* the answer to its last request

vars == <<entries, index, followed, reply>>

-----------------------------------------------------------------------------
(* Requests and answers.  A request's id is a hash or a ticket: one that    *)
(* does not parse, the hash of a blob, or that of the collection's root.    *)

Request == [get : BOOLEAN, route : {"blob", "collection", "ticket", "other"},
            id : {"bad", "blob", "root"}, format : {"raw", "seq"},
            slash : BOOLEAN, name : Name]

Status(code) == [status |-> code, body |-> <<>>]
Body(b)      == [status |-> 200, body |-> b]

MethodNotAllowed == Status(405)
BadRequest       == Status(400)
NotFound         == Status(404)
BadGateway       == Status(502)
NoRequest        == Status(0)     \* the client cannot even make the request

\* What precedes the first character of n that is in S.
before(n, S) ==
  IF \E i \in DOMAIN n : n[i] \in S
  THEN SubSeq(n, 1, (CHOOSE i \in DOMAIN n :
                       n[i] \in S /\ \A j \in 1..(i - 1) : n[j] \notin S) - 1)
  ELSE n

\* getBlob: the provider has every hash, but cannot always be reached.
getBlob(id) == {Body(<<"blob", id>>), BadGateway}

\* serveEntry: the first entry of that name.
serveEntry(id, name) ==
  {BadGateway} \cup
  (IF id # "root" THEN {}
   ELSE IF \E i \in DOMAIN entries : entries[i].name = name
   THEN {Body(<<"entry", entries[CHOOSE i \in DOMAIN entries :
             /\ entries[i].name = name
             /\ \A j \in 1..(i - 1) : entries[j].name # name].hash>>)}
   ELSE {NotFound})

\* serveIndex: a line for each entry, which ends in the entry's name as it is.
lines == [i \in DOMAIN entries |-> entries[i].name]
serveIndex(id) == {BadGateway} \cup (IF id = "root" THEN {Body(<<"index", lines>>)} ELSE {})

serveBlob(r) == IF r.id = "bad" THEN {BadRequest} ELSE getBlob(r.id)

serveCollection(r) ==
  IF ~r.slash \/ r.name = <<>> \/ r.id = "bad" THEN {BadRequest}
  ELSE serveEntry(r.id, r.name)

serveTicket(r) ==
  IF r.id = "bad" THEN {BadRequest}
  ELSE IF r.slash /\ r.name # <<>> THEN serveEntry(r.id, r.name)
  ELSE IF r.format = "raw" THEN getBlob(r.id)
  ELSE serveIndex(r.id)

ServeHTTP(r) ==
  IF ~r.get THEN {MethodNotAllowed}
  ELSE CASE r.route = "blob" -> serveBlob(r)
         [] r.route = "collection" -> serveCollection(r)
         [] r.route = "ticket" -> serveTicket(r)
         [] OTHER -> {NotFound}

-----------------------------------------------------------------------------
(* The client.                                                             *)

Init ==
  /\ entries \in Collections
  /\ index = <<>>
  /\ followed = 0
  /\ reply = NoRequest

GetRequest(route, id, format, slash, name) ==
  [get |-> TRUE, route |-> route, id |-> id, format |-> format, slash |-> slash, name |-> name]

\* Reading the index of the collection's ticket splits it at white space, so
\* that a link keeps of a name what comes before the first.
GetIndex ==
  /\ \E a \in ServeHTTP(GetRequest("ticket", "root", "seq", FALSE, <<>>)) :
       /\ reply' = a
       /\ index' = IF a.status = 200
                   THEN [i \in DOMAIN lines |-> before(lines[i], Space)] ELSE index
  /\ followed' = 0
  /\ UNCHANGED entries

\* What a path that parses stands for.
unescape(path) ==
  [i \in DOMAIN path |-> IF path[i] \in DOMAIN Decoded THEN Decoded[path[i]] ELSE path[i]]

\* Following a link: its path ends at a mark, must parse, and reaches the
\* gateway with its escapes decoded.
FollowLink(k) ==
  LET path == before(index[k], Mark) IN
  /\ reply' \in IF \E i \in DOMAIN path : path[i] \in Percent THEN {NoRequest}
                ELSE ServeHTTP(GetRequest("ticket", "root", "seq", TRUE, unescape(path)))
  /\ followed' = k
  /\ UNCHANGED <<entries, index>>

\* Any other request.
Get(r) ==
  /\ reply' \in ServeHTTP(r)
  /\ followed' = 0
  /\ UNCHANGED <<entries, index>>

Next ==
  \/ GetIndex
  \/ \E k \in DOMAIN index : FollowLink(k)
  \/ \E r \in Request : Get(r)

Spec == Init /\ [][Next]_vars

-----------------------------------------------------------------------------
\* The collection an index can link to: every name is there, once, and has no
\* character that a line or a URL gives another meaning.
Linkable(c) ==
  /\ \A i \in DOMAIN c : /\ c[i].name # <<>>
                         /\ \A k \in DOMAIN c[i].name :
                              c[i].name[k] \notin Space \cup Mark \cup Percent \cup DOMAIN Decoded
  /\ \A i, j \in DOMAIN c : c[i].name = c[j].name => i = j

\* "serveIndex lists the entries of the collection a hash-sequence ticket
\* names, linking each to the ticket route that serves it": whichever requests
\* came in between, the k-th link is answered with the k-th entry's blob, if
\* the provider can be reached.
LinksLeadToEntries ==
  followed # 0 /\ reply # BadGateway => reply = Body(<<"entry", entries[followed].hash>>)
=============================================================================
