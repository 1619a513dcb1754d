---------------------------- MODULE ClientSession ----------------------------
(***************************************************************************)
(* The session of one IedClient (iec61850_client.go): its timeout options, *)
(* Connect, the loss of the connection, Close, and the two ways of         *)
(* browsing, BrowseModel and BrowseModelToSCL.                             *)
(*                                                                         *)
(* The library retrieves the whole model of a device when it is first      *)
(* asked for any part of it, and answers from that copy for the rest of    *)
(* the client's life.  A browse is many such questions, between which the  *)
(* connection may be lost and made again, to the same device or another,   *)
(* and a device may come back with another model.                          *)
(***************************************************************************)
EXTENDS Integers, Sequences

CONSTANTS
  Host,           \* devices
  Models,         \* models that devices may have: sets of paths
  OptionLists,    \* sequences of timeout options that NewIedClient is called with
  NanosPerMilli,  \* 1e6, or less in small instances
  UintSize        \* 2^32, or less in small instances

Kind == {"connect", "request"}

\* A model is a tree: with a path it has the paths above it.
ASSUME SessionAssumption ==
  /\ Host # {} /\ Models # {}
  /\ \A m \in Models : \A p \in m :
       p \in Seq(STRING) /\ p # <<>> /\ \A n \in 1..Len(p) : SubSeq(p, 1, n) \in m
  /\ OptionLists \subseteq Seq([kind: Kind, d: Int])
  /\ NanosPerMilli \in Nat \ {0}
  /\ UintSize \in Nat \ {0}

VARIABLES
  conn,     \* the ClientState, or "destroyed"
  host,     \* the device that the client is, or was last, connected to
  timeout,  \* the library's two timeouts in milliseconds
  asked,    \* history: the option that set them, if one did
  model,    \* the model that each device has
  buffer,   \* the library's copy of the model of a device, if it has one
  browse,   \* the browse in progress, or the last one
  crashed   \* LinkedList_getNext was called with NULL

vars == <<conn, host, timeout, asked, model, buffer, browse, crashed>>
session == <<conn, host, timeout, asked>>

-----------------------------------------------------------------------------
(* Options                                                                 *)

\* Division of Go integers, towards zero, and the conversion to C.uint.
Quotient(d) == IF d >= 0 THEN d \div NanosPerMilli ELSE -((-d) \div NanosPerMilli)
CUint(n) == n % UintSize

\* Mutants: the duration is not divided; the quotient is not cut to a C.uint.
MillisUndivided(d) == CUint(d)
MillisUncut(d) == Quotient(d)

\* C.uint(timeout/1e6), in ConnectTimeout and RequestTimeout.
Millis(d) == CUint(Quotient(d))

\* The options are applied in order: the last of a kind counts.
LastOption(options, k) ==
  {i \in DOMAIN options : options[i].kind = k /\
     \A j \in DOMAIN options : options[j].kind = k => j <= i}

NewIedClient(options) ==
  /\ conn = "none"
  /\ conn' = "closed"
  /\ asked' = [k \in Kind |-> {options[i].d : i \in LastOption(options, k)}]
  /\ timeout' = [k \in Kind |->
                   IF LastOption(options, k) = {} THEN timeout[k]
                   ELSE Millis(options[CHOOSE i \in LastOption(options, k) : TRUE].d)]
  /\ UNCHANGED <<host, model, buffer, browse, crashed>>

-----------------------------------------------------------------------------
(* Connection                                                              *)

\* Mutant: a new connection starts without a model.
ConnectForgets(h) ==
  /\ conn = "closed"
  /\ conn' = "connected"
  /\ host' = h
  /\ buffer' = {}
  /\ UNCHANGED <<timeout, asked, model, browse, crashed>>

\* IED_ERROR_ALREADY_CONNECTED counts as success: the call returns nil and the
\* client stays with the device it is connected to.
Connect(h) ==
  \/ conn = "connected" /\ UNCHANGED vars
  \/ /\ conn = "closed"
     /\ conn' = "connected"
     /\ host' = h
     /\ UNCHANGED <<timeout, asked, model, buffer, browse, crashed>>

\* Mutant: the library drops the model with the connection.
LossForgets ==
  /\ conn = "connected"
  /\ conn' = "closed"
  /\ buffer' = {}
  /\ UNCHANGED <<host, timeout, asked, model, browse, crashed>>

ConnectionLost ==
  /\ conn = "connected"
  /\ conn' = "closed"
  /\ UNCHANGED <<host, timeout, asked, model, buffer, browse, crashed>>

\* A device restarts with another model; this ends its connections.
Reconfigure(h, m) ==
  /\ ~(conn = "connected" /\ host = h)
  /\ m # model[h]
  /\ model' = [model EXCEPT ![h] = m]
  /\ UNCHANGED <<session, buffer, browse, crashed>>

\* The application does not close the client under a browse.
Close ==
  /\ conn \in {"closed", "connected"}
  /\ browse.pc = "idle"
  /\ conn' = "destroyed"
  /\ buffer' = {}
  /\ UNCHANGED <<host, timeout, asked, model, browse, crashed>>

-----------------------------------------------------------------------------
(* Device models                                                           *)

\* The names directly below a path, as the directory services list them.
Children(m, p) == {q \in m : Len(q) = Len(p) + 1 /\ SubSeq(q, 1, Len(p)) = p}

\* What a question to the library leaves in its buffer.  It asks the device if it
\* has no model yet, which may fail; the model is taken as a whole or not at all.
Retrieved == IF buffer # {} THEN {buffer}
             ELSE {{}} \cup (IF conn = "connected" THEN {{model[host]}} ELSE {})

\* The names that the library lists below a path: none if the request fails.
Listing(b, p) == UNION {Children(m, p) : m \in b}

-----------------------------------------------------------------------------
(* Browsing                                                                *)

\* What is listed: where it is and, from its data object on, what it is listed as.
Elements(paths, tags) == {[path |-> p, tags |-> tags] : p \in paths}

\* Functions, or bodies of loops, that are yet to be executed for paths that are
\* listed with these tags.
Calls(fns, paths, tags) == {[fn |-> fn, path |-> p, tags |-> tags] : fn \in fns, p \in paths}

NoBrowse == [pc |-> "idle", kind |-> "print", todo |-> {}, result |-> {}]

Fn == {"device", "node", "BrowseDataAttributes", "BrowseDataAttributesSCL", "BrowseSDISCL"}
Tag == {"LDevice", "LN", "DOI", "DA", "DAI", "SDI"}

\* The browse after call q: what it lists, and the calls it makes.
After(q, listed, calls) ==
  [browse EXCEPT !.todo = (@ \ {q}) \cup calls, !.result = @ \cup listed]

\* getLogicalDeviceList; without a list BrowseModel gives up and BrowseModelToSCL
\* returns an error.
BeginBrowse(kind) ==
  /\ browse.pc = "idle"
  /\ conn \in {"closed", "connected"}
  /\ \E b \in Retrieved :
       /\ buffer' = b
       /\ browse' = IF b = {} THEN NoBrowse
                    ELSE [pc |-> "browsing", kind |-> kind, result |-> {},
                          todo |-> Calls({"device"}, Listing(b, <<>>), <<"LDevice">>)]
  /\ UNCHANGED <<session, model, crashed>>

BrowseModel == BeginBrowse("print")
BrowseModelToSCL == BeginBrowse("scl")

\* getLogicalDeviceDirectory.  If it fails the device is skipped: printed without
\* nodes, left out of the SCL.
BrowseDevice(q) ==
  /\ q.fn = "device"
  /\ \E b \in Retrieved :
       /\ buffer' = b
       /\ browse' =
            IF \E m \in b : q.path \in m
            THEN After(q, Elements({q.path}, q.tags),
                       Calls({"node"}, Listing(b, q.path), <<"LN">>))
            ELSE After(q, IF browse.kind = "print" THEN Elements({q.path}, q.tags) ELSE {}, {})
  /\ UNCHANGED <<session, model, crashed>>

\* getLogicalNodeDirectory, whose error is not looked at.
BrowseNode(q) ==
  /\ q.fn = "node"
  /\ \E b \in Retrieved :
       /\ buffer' = b
       /\ crashed' = ~\E m \in b : q.path \in m
       /\ browse' =
            IF crashed' THEN NoBrowse
            ELSE LET fn == IF browse.kind = "print" THEN "BrowseDataAttributes"
                           ELSE "BrowseDataAttributesSCL"
                     objects == Listing(b, q.path)
                 IN  After(q, Elements({q.path}, q.tags) \cup Elements(objects, <<"DOI">>),
                           Calls({fn}, objects, <<"DOI">>))
  /\ UNCHANGED <<session, model>>

\* getDataDirectory: what is below the path is listed as tag, and for each of the
\* names the functions fns are called.
BrowseData(q, tag, fns) ==
  /\ \E b \in Retrieved :
       /\ buffer' = b
       /\ LET tags == Append(q.tags, tag)
          IN  browse' = After(q, Elements(Listing(b, q.path), tags),
                              Calls(fns, Listing(b, q.path), tags))
  /\ UNCHANGED <<session, model, crashed>>

BrowseDataAttributes(q) ==
  /\ q.fn = "BrowseDataAttributes"
  /\ BrowseData(q, "DA", {"BrowseDataAttributes"})

BrowseDataAttributesSCL(q) ==
  /\ q.fn = "BrowseDataAttributesSCL"
  /\ BrowseData(q, "DAI", {"BrowseSDISCL"})

\* Mutant: what is below an SDI is not asked for.
BrowseSDIFlat(q) ==
  /\ q.fn = "BrowseSDISCL"
  /\ BrowseData(q, "SDI", {})

BrowseSDISCL(q) ==
  /\ q.fn = "BrowseSDISCL"
  /\ BrowseData(q, "SDI", {"BrowseDataAttributesSCL", "BrowseSDISCL"})

\* A call returns when those it makes have returned: the deepest come first.
Deepest(q) == \A r \in browse.todo : Len(r.path) <= Len(q.path)

BrowseStep ==
  \E q \in browse.todo :
    /\ Deepest(q)
    /\ \/ BrowseDevice(q) \/ BrowseNode(q)
       \/ BrowseDataAttributes(q) \/ BrowseDataAttributesSCL(q) \/ BrowseSDISCL(q)

EndBrowse ==
  /\ browse.pc = "browsing"
  /\ browse.todo = {}
  /\ browse' = [browse EXCEPT !.pc = "idle"]
  /\ UNCHANGED <<session, model, buffer, crashed>>

-----------------------------------------------------------------------------

\* CONFIG_MMS_CONNECTION_DEFAULT_CONNECT_TIMEOUT and _TIMEOUT.
Init ==
  /\ conn = "none"
  /\ host \in Host
  /\ timeout = [k \in Kind |-> IF k = "connect" THEN 10000 ELSE 5000]
  /\ asked = [k \in Kind |-> {}]
  /\ model \in [Host -> Models]
  /\ buffer = {}
  /\ browse = NoBrowse
  /\ crashed = FALSE

Terminated == conn = "destroyed" /\ UNCHANGED vars

Next ==
  \/ \E options \in OptionLists : NewIedClient(options)
  \/ \E h \in Host : Connect(h)
  \/ ConnectionLost
  \/ \E h \in Host, m \in Models : Reconfigure(h, m)
  \/ Close
  \/ BrowseModel \/ BrowseModelToSCL
  \/ BrowseStep \/ EndBrowse
  \/ Terminated

Spec == Init /\ [][Next]_vars

-----------------------------------------------------------------------------
(* Properties                                                              *)

\* The paths that the last browse has listed.
Listed == {r.path : r \in browse.result}

\* A browse that has ended with a result has listed the complete model of one
\* device, also if the connection was lost, or Connect was called, in the middle:
\* never a part of it, nor parts of two.
BrowseIsOneModel == browse.pc = "idle" /\ browse.result # {} => Listed \in Models

\* The list of data objects, which BrowseModel and BrowseModelToSCL walk without
\* looking at the error of the request, is never NULL.
WalksNoNullList == ~crashed

\* The paths strictly below another.
Below(m, p) == {q \in m : Len(q) > Len(p) /\ SubSeq(q, 1, Len(p)) = p}

\* In the SCL that BrowseModelToSCL makes, every data object has all attributes of
\* the model, however deep, at the level they have there.  Further down each is
\* found several times, as BrowseSDISCL lists both DAIs and SDIs.
SclHoldsAttributes ==
  LET Attributes(do) == {r \in browse.result :
        Len(r.path) > Len(do) /\ SubSeq(r.path, 1, Len(do)) = do}
  IN  browse.pc = "idle" /\ browse.kind = "scl" =>
        \A r \in browse.result, m \in buffer : r.tags = <<"DOI">> =>
          /\ {a.path : a \in Attributes(r.path)} = Below(m, r.path)
          /\ \A a \in Attributes(r.path) :
               Len(a.tags) = 1 + Len(a.path) - Len(r.path) /\ a.tags[2] = "DAI"

\* An option of a millisecond or more that fits a C.uint sets the timeout to the
\* milliseconds it lasts: not to zero, no longer, and not a millisecond shorter;
\* the last of several options counts.
TimeoutsHonoured ==
  \A k \in DOMAIN asked : \A d \in asked[k] :
    d >= NanosPerMilli /\ d < NanosPerMilli * UintSize =>
      /\ timeout[k] > 0
      /\ timeout[k] * NanosPerMilli <= d
      /\ d < (timeout[k] + 1) * NanosPerMilli

TypeOK ==
  /\ conn \in {"none", "closed", "connected", "destroyed"}
  /\ host \in Host
  /\ timeout \in [Kind -> 0..(UintSize - 1) \cup {5000, 10000}]
  /\ asked \in [Kind -> SUBSET Int]
  /\ model \in [Host -> Models]
  /\ buffer = {} \/ \E m \in Models : buffer = {m}
  /\ browse \in [pc: {"idle", "browsing"}, kind: {"print", "scl"},
                 todo: SUBSET [fn: Fn, path: Seq(STRING), tags: Seq(Tag)],
                 result: SUBSET [path: Seq(STRING), tags: Seq(Tag)]]
  /\ crashed \in BOOLEAN

=============================================================================
