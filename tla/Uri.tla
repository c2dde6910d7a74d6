-------------------------------- MODULE Uri ---------------------------------
(***************************************************************************)
(* Uri of the http extension. The regular expressions (std::regex) cut a   *)
(* text into the parts below; the module is what doParse makes of them,    *)
(* what toString prints, and what parsing the print gives again. A part is *)
(* a view; "" is the empty one.                                            *)
(***************************************************************************)
EXTENDS StringView

CONSTANTS
  UriPortMod,   \* uint16_t wraps here
  DefaultPort   \* scheme -> its port; a scheme outside has none

ASSUME UriAssumption ==
  /\ UriPortMod \in Nat \ {0}
  /\ \A s \in DOMAIN DefaultPort : DefaultPort[s] \in 1..(UriPortMod - 1)

Empty == <<>>
NoScheme == "noscheme"
Schemes == DOMAIN DefaultPort \cup {"other", NoScheme}
NoPort == -1

VARIABLES
  given,   \* the parts of the text parsed
  uri,     \* the Uri parsed from it
  again    \* the Uri parsed from uri's toString

urivars == <<given, uri, again>>

Cleared ==
  [valid |-> FALSE, secure |-> FALSE, scheme |-> NoScheme, hasAuthority |-> FALSE, custom |-> FALSE,
   user |-> Empty, pass |-> Empty, host |-> Empty, port |-> 0, authority |-> Empty,
   path |-> Empty, query |-> Empty]

(* The authority rebuilt from its parts with cxx17::append: characters 7,  *)
(* 8 and 9 stand for the delimiters and the printed port.                  *)
Authority(user, pass, host, port) ==
  LET named == IF user = Empty /\ pass = Empty THEN Empty
               ELSE LET u == AppendView(Empty, user)
                    IN (IF pass = Empty THEN u ELSE AppendView(u \o <<7>>, pass)) \o <<8>>
      hosted == AppendView(named, host)
  IN IF port = 0 THEN hosted ELSE hosted \o <<7, 9>>

(* atoi, cast to uint16_t.                                                 *)
PortOf(p) == IF p.port = NoPort THEN 0 ELSE p.port % UriPortMod

(* Whether the port is worth printing: a scheme without a default never    *)
(* sets _isCustomPort.                                                     *)
IsCustom(scheme, port) ==
  CASE scheme = NoScheme -> port # 0
    [] scheme \in DOMAIN DefaultPort -> port # DefaultPort[scheme]
    [] OTHER -> FALSE

DoParse(p) ==
  LET raw == IF p.hasAuthority THEN PortOf(p) ELSE 0
      port == IF raw = 0 /\ p.scheme \in DOMAIN DefaultPort THEN DefaultPort[p.scheme] ELSE raw
      Of(part) == IF p.hasAuthority THEN part ELSE Empty
  IN [valid |-> TRUE, secure |-> p.scheme = "https", scheme |-> p.scheme,
      hasAuthority |-> p.hasAuthority, custom |-> IsCustom(p.scheme, port),
      user |-> Of(p.user), pass |-> Of(p.pass), host |-> Of(p.host), port |-> port,
      authority |-> Authority(Of(p.user), Of(p.pass), Of(p.host), raw),
      path |-> IF p.path = Empty THEN <<1>> ELSE p.path, query |-> p.query]

(* toString, as the parts the regular expressions find in it. A Uri        *)
(* without a scheme prints "://host", which has a "://" and no scheme: it  *)
(* does not match.                                                         *)
Printable(u) == u.valid /\ u.scheme # NoScheme

UriToString(u) ==
  [scheme |-> u.scheme, hasAuthority |-> u.hasAuthority, path |-> u.path, query |-> u.query, host |-> u.host,
   user |-> u.user, pass |-> u.pass, port |-> IF u.custom THEN u.port ELSE NoPort]

-----------------------------------------------------------------------------
UriPart == {Empty, <<1>>}
UriParts ==
  [scheme : Schemes, hasAuthority : BOOLEAN, user : UriPart, pass : UriPart, host : UriPart,
   port : {NoPort} \cup 0..(UriPortMod + 1), path : UriPart, query : UriPart]

(* A text without "://" is read as an authority.                           *)
Readable(p) == p.scheme = NoScheme => p.hasAuthority

UriInit == given = Empty /\ uri = Cleared /\ again = Cleared

Parse ==
  \E p \in UriParts :
    /\ Readable(p)
    /\ given' = p /\ uri' = DoParse(p)
    /\ UNCHANGED again

ParsePrinted ==
  /\ Printable(uri) /\ again = Cleared
  /\ again' = DoParse(UriToString(uri))
  /\ UNCHANGED <<given, uri>>

UriNext == (given = Empty /\ Parse) \/ ParsePrinted

-----------------------------------------------------------------------------
(* What a request is sent with is what was written: user, host, path and   *)
(* query, and the written port, or the scheme's where none or 0 (65536     *)
(* included) was written.                                                  *)
ParsedExact ==
  (uri.valid /\ given.hasAuthority) =>
    /\ uri.user = given.user /\ uri.pass = given.pass /\ uri.host = given.host /\ uri.query = given.query
    /\ uri.port \in 0..(UriPortMod - 1)
    /\ given.port \in 1..(UriPortMod - 1) => uri.port = given.port
    /\ (given.port \in {NoPort, 0} /\ given.scheme \in DOMAIN DefaultPort) =>
         uri.port = DefaultPort[given.scheme]

(* Parsing the print of a Uri with one of the known schemes gives the same *)
(* Uri: all that operator== compares, but the authority, which keeps a     *)
(* default port only when it was written.                                  *)
PrintParses ==
  (again.valid /\ uri.scheme \in DOMAIN DefaultPort) =>
    /\ [again EXCEPT !.authority = uri.authority] = uri
    /\ uri.custom => again.authority = uri.authority
=============================================================================
