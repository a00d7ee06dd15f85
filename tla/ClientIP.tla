------------------------------ MODULE ClientIP ------------------------------
(***************************************************************************)
(* Client address resolution (httpx/clientip/clientip.go): from the peer   *)
(* of a request and its forwarding headers, the nearest hop that is not a  *)
(* trusted proxy.                                                          *)
(*                                                                         *)
(* A header value is a sequence of symbols: separators, quotes, escapes,   *)
(* "name=", and the text of a node, which is one symbol.  White space,     *)
(* which the code trims everywhere, is left out.  The values of a request  *)
(* are rendered from the hops that wrote them, so that the result can be   *)
(* compared with what the hops meant; the quotes of a value are balanced.  *)
(***************************************************************************)
EXTENDS Naturals, Sequences, SequencesExt, FiniteSetsExt

CONSTANTS
    ClientRequests,  \* the requests, with the resolver they are given to
    MaxHops,         \* maxHops
    MaxHeaderBytes   \* maxHeaderBytes, in symbols

ASSUME LimitsAssumption == MaxHops \in Nat \ {0} /\ MaxHeaderBytes \in Nat

VARIABLES
    request,   \* the request that was resolved, if any
    resolved   \* what Resolve returned for it

clientVars == <<request, resolved>>

Unparsed == "none"  \* netip.Addr{}, and the empty string

-----------------------------------------------------------------------------
(* Addresses, and the texts that stand for them: plain, IPv4-mapped, with   *)
(* a port, in brackets; 0.0.0.0, "unknown" and what is no address at all.  *)

Addresses == {"proxy", "client", "other", "v6"}
Is4(a) == a \in Addresses \ {"v6"}

Text(addr, form) == [addr |-> addr, form |-> form]

Written ==
    [proxy       |-> Text("proxy", "plain"),
     proxyMapped |-> Text("proxy", "mapped"),
     proxyPort   |-> Text("proxy", "port"),
     client      |-> Text("client", "plain"),
     clientPort  |-> Text("client", "port"),
     other       |-> Text("other", "plain"),
     otherMapped |-> Text("other", "mapped"),
     v6          |-> Text("v6", "plain"),
     bracketed   |-> Text("other", "bracketed"),  \* IPv4-mapped
     v6Bracketed |-> Text("v6", "bracketed"),
     v6Port      |-> Text("v6", "bracketed port"),
     unspecified |-> Text("unspecified", "plain"),
     unknown     |-> Text(Unparsed, "unknown"),
     malformed   |-> Text(Unparsed, "malformed")]

Texts == DOMAIN Written

\* netip.ParseAddr and Unmap.
ParseAddr(text) == Written[text].addr

\* parseBareAddr: an address without port or brackets, not 0.0.0.0.
ParseBareAddr(text) ==
    IF Written[text].form \in {"plain", "mapped"} /\ Written[text].addr \in Addresses
    THEN ParseAddr(text) ELSE Unparsed

\* parseRemoteAddr: with or without a port.
ParseRemoteAddr(text) ==
    IF Written[text].form \in {"plain", "mapped", "port", "bracketed port"}
    THEN ParseAddr(text) ELSE Unparsed

-----------------------------------------------------------------------------
(* The Forwarded header.                                                   *)

\* One symbol of the scan of splitOutsideQuotes.
ScanSymbol(scan, c, sep) ==
    LET taken == [scan EXCEPT !.part = Append(@, c)] IN
    CASE c = "control" -> [scan EXCEPT !.ok = FALSE]
      [] c # "control" /\ scan.escaped -> [taken EXCEPT !.escaped = FALSE]
      [] c = "escape" /\ scan.quoted /\ ~scan.escaped -> [taken EXCEPT !.escaped = TRUE]
      [] c = "quote" /\ ~scan.escaped -> [taken EXCEPT !.quoted = ~@]
      [] c = sep /\ ~scan.quoted /\ ~scan.escaped ->
            [scan EXCEPT !.parts = Append(@, scan.part), !.part = <<>>,
                         !.ok = @ /\ scan.part # <<>>]
      [] OTHER -> taken

\* strings.Split.
Split(raw, sep) ==
    LET Step(parts, c) == IF c = sep THEN Append(parts, <<>>)
                          ELSE [parts EXCEPT ![Len(parts)] = Append(@, c)]
    IN  FoldLeft(Step, << <<>> >>, raw)

\* The parts between separators that are outside quotes; none if a part is empty,
\* a quote is not closed or there is a control character.
SplitOutsideQuotes(raw, sep) ==
    LET Step(scan, c) == ScanSymbol(scan, c, sep)
        end == FoldLeft(Step, [parts |-> <<>>, part |-> <<>>, quoted |-> FALSE,
                               escaped |-> FALSE, ok |-> TRUE], raw)
    IN  IF end.ok /\ ~end.quoted /\ ~end.escaped /\ end.part # <<>>
        THEN Append(end.parts, end.part) ELSE <<>>

\* The symbols of a quoted string without their escapes; none if the last one
\* escapes nothing.
Unescape(raw) ==
    LET Step(u, c) == IF c = "escape" /\ ~u.escaped
                      THEN [u EXCEPT !.escaped = TRUE]
                      ELSE [out |-> Append(u.out, c), escaped |-> FALSE]
        end == FoldLeft(Step, [out |-> <<>>, escaped |-> FALSE], raw)
    IN  IF end.escaped THEN <<>> ELSE end.out

\* parseForwardedNode: brackets for IPv6, quotes for a port of IPv4.
ParseForwardedNode(value) ==
    LET quoted == Len(value) >= 2 /\ Head(value) = "quote" /\ Last(value) = "quote"
        node == IF quoted THEN Unescape(SubSeq(value, 2, Len(value) - 1)) ELSE value
    IN  IF Len(node) # 1 \/ Range(node) \cap Texts = {} THEN Unparsed
        ELSE LET form == Written[node[1]].form IN
             CASE form \in {"bracketed", "bracketed port"} -> ParseAddr(node[1])
               [] form = "port" /\ quoted -> ParseAddr(node[1])
               [] form \in {"plain", "mapped"} /\ Is4(ParseBareAddr(node[1])) ->
                    ParseBareAddr(node[1])
               [] OTHER -> Unparsed

\* One element of Forwarded: parameters, exactly one of them "for".
ParseElement(element) ==
    LET params == SplitOutsideQuotes(element, ";")
        fors == SelectSeq(params, LAMBDA p : Head(p) = "for=")
    IN  IF /\ params # <<>>
           /\ \A p \in Range(params) : Head(p) \in {"for=", "ext="} /\ Len(p) > 1
           /\ Len(fors) = 1
        THEN ParseForwardedNode(Tail(fors[1])) ELSE Unparsed

-----------------------------------------------------------------------------
(* The resolver.                                                           *)

ChainHeaders == {"Forwarded", "X-Forwarded-For"}
SupportedHeaders == ChainHeaders \cup {"X-Real-IP", "CF-Connecting-IP"}

\* New accepts the configuration: masked prefixes and headers, each once.
NewResolver(cidrs, priority) ==
    /\ priority # <<>>
    /\ IsInjective(cidrs)
    /\ Range(priority) \subseteq SupportedHeaders
    /\ IsInjective(priority)

\* Resolver.contains, a prefix being the set of its addresses.
IsTrusted(r, addr) == \E prefix \in Range(r.cidrs) : addr \in prefix

\* strings.Join with commas.
JoinValues(values) ==
    FlattenSeq([i \in DOMAIN values |-> IF i = 1 THEN values[1] ELSE <<",">> \o values[i]])

ParsePart(part) == IF Len(part) = 1 /\ part[1] \in Texts THEN ParseBareAddr(part[1]) ELSE Unparsed

\* headerBytes.
SymbolCount(values) == Len(FlattenSeq(values))

\* The elements of a header, each a sequence of symbols: a header for one address
\* has one value, and a chain of elements is not too long.
Elements(header, values) ==
    IF header \notin ChainHeaders
    THEN IF Len(values) = 1 /\ ~Contains(values[1], ",") THEN values ELSE <<>>
    ELSE LET parts == IF header = "Forwarded" THEN SplitOutsideQuotes(JoinValues(values), ",")
                                              ELSE Split(JoinValues(values), ",")
         IN  IF SymbolCount(values) > MaxHeaderBytes \/ Len(parts) > MaxHops
             THEN <<>> ELSE parts

\* parseHeader: the chain of addresses, empty if any of it is not valid.
ParseHeader(header, values) ==
    LET elements == Elements(header, values)
        chain == [i \in DOMAIN elements |-> IF header = "Forwarded" THEN ParseElement(elements[i])
                                                                    ELSE ParsePart(elements[i])]
    IN  IF Contains(chain, Unparsed) THEN <<>> ELSE chain

\* Faulty: a malformed header is passed over.
FirstValid(r) == SelectSeq(r.priority, LAMBDA h : ParseHeader(h, r.headers[h]) # <<>>)

\* The headers that are present, in the order of priority; the first one decides.
Present(r) == SelectSeq(r.priority, LAMBDA h : r.headers[h] # <<>>)

\* The untrusted addresses of a chain, from right to left.
Untrusted(r, chain) == SelectSeq(Reverse(chain), LAMBDA a : ~IsTrusted(r, a))

Resolve(r) ==
    LET peer == ParseRemoteAddr(r.peer)
        chain == IF Present(r) = <<>> THEN <<>>
                 ELSE ParseHeader(Head(Present(r)), r.headers[Head(Present(r))])
        hops == Untrusted(r, chain)
    IN  IF peer # Unparsed /\ IsTrusted(r, peer) /\ hops # <<>> THEN Head(hops) ELSE peer

-----------------------------------------------------------------------------
(* Requests.  A hop writes its text, in quotes or not, perhaps followed by  *)
(* other parameters; a line is what the hops of one header value wrote.    *)

Parameters ==
    [none      |-> <<>>,
     plain     |-> <<";", "ext=", "word">>,
     separated |-> <<";", "ext=", "quote", ",", "escape", "quote", ";", "quote">>,
     second    |-> <<";", "for=", "other">>,
     control   |-> <<";", "ext=", "control">>,
     empty     |-> <<";">>]

RenderHop(header, hop) ==
    LET node == IF hop.quoted THEN <<"quote", hop.text, "quote">> ELSE <<hop.text>>
    IN  IF header = "Forwarded" THEN <<"for=">> \o node \o Parameters[hop.params] ELSE node

\* A request [peer, cidrs, priority, lines] with its headers as they arrive.
Received(r) ==
    [peer |-> r.peer, cidrs |-> r.cidrs, priority |-> r.priority, lines |-> r.lines,
     headers |-> [h \in SupportedHeaders |->
        [i \in DOMAIN r.lines[h] |->
            JoinValues([k \in DOMAIN r.lines[h][i] |-> RenderHop(h, r.lines[h][i][k])])]]]

NoRequest == [peer |-> "malformed"]

ClientInit == request = NoRequest /\ resolved = Unparsed

ResolveRequest(r) ==
    /\ NewResolver(r.cidrs, r.priority)
    /\ request' = Received(r)
    /\ resolved' = Resolve(request')

\* The resolver is immutable, so that requests do not depend on each other.
ClientNext == request = NoRequest /\ \E r \in ClientRequests : ResolveRequest(r)

-----------------------------------------------------------------------------
(* Properties.                                                             *)

\* The address a hop stands for, if the header may carry it.  "Forwarded accepts
\* literal IPv4 nodes and quoted, bracketed IPv6 nodes, with an optional numeric
\* port" (docs/client-ip.md); a port has to be quoted, by the header's syntax.
Meant(header, hop) ==
    LET text == Written[hop.text]
        forms == IF header # "Forwarded" THEN IF hop.quoted THEN {} ELSE {"plain", "mapped"}
                 ELSE (IF text.addr = "v6" THEN {} ELSE {"plain"})
                        \cup (IF hop.quoted THEN {"port", "bracketed", "bracketed port"} ELSE {})
    IN  IF /\ text.addr \in Addresses
           /\ text.form \in forms
           /\ header = "Forwarded" => hop.params \in {"none", "plain", "separated"}
        THEN text.addr ELSE Unparsed

\* What that sentence does not admit in Forwarded and parseForwardedNode accepts:
\* IPv6 in brackets without quotes, and an IPv4-mapped address without brackets.
Unlisted(header, hop) ==
    /\ header = "Forwarded"
    /\ \/ Written[hop.text].form \in {"bracketed", "bracketed port"} /\ ~hop.quoted
       \/ Written[hop.text].form = "mapped"

Hops(header) == FlattenSeq(request.lines[header])

\* The hops of a header that meant an untrusted address.
Far(header) == {i \in DOMAIN Hops(header) : ~IsTrusted(request, Meant(header, Hops(header)[i]))}

\* Every hop of every line meant an address, and they are not too many.
WellFormed(header) ==
    /\ <<>> \notin Range(request.lines[header])
    /\ \A hop \in Range(Hops(header)) : Meant(header, hop) # Unparsed
    /\ IF header \in ChainHeaders
       THEN Len(Hops(header)) <= MaxHops /\ SymbolCount(request.headers[header]) <= MaxHeaderBytes
       ELSE Len(Hops(header)) = 1

\* The header that is present and before which, by priority, none is.
FirstPresent ==
    LET Absent(i) == request.lines[request.priority[i]] = <<>>
    IN  {request.priority[i] : i \in
            {j \in DOMAIN request.priority : ~Absent(j) /\ \A k \in 1..(j - 1) : Absent(k)}}

\* Resolve returns the last hop that meant an untrusted address, provided that the
\* peer is trusted and that every hop of the first header present meant an address;
\* else it returns the peer.
BoundaryReturned ==
    LET peer == ParseRemoteAddr(request.peer)
        deciding == {h \in FirstPresent : WellFormed(h) /\ Far(h) # {}}
    IN  IF IsTrusted(request, peer) /\ deciding # {}
        THEN \A h \in deciding : resolved = Meant(h, Hops(h)[Max(Far(h))])
        ELSE resolved = peer

\* "The first present header wins.  If it is malformed, resolution fails closed to
\* the direct peer ...  Chain headers are validated completely and walked from
\* right to left; the nearest untrusted hop is the client boundary"
\* (docs/client-ip.md): however the hops wrote their addresses, on however many
\* lines, and whatever other headers say, unless a hop of the deciding header is
\* in a form that is unlisted.
NearestUntrustedHop ==
    (/\ request # NoRequest
     /\ \A h \in FirstPresent : \A hop \in Range(Hops(h)) : ~Unlisted(h, hop))
    => BoundaryReturned

\* The same with no exception: a node that docs/client-ip.md does not admit in
\* Forwarded makes the header malformed, and the peer is returned.
NearestDocumentedHop == request # NoRequest => BoundaryReturned
=============================================================================
