----------------------------- MODULE HttpCookie -----------------------------
(***************************************************************************)
(* The cookie jar of the http client: what a Set-Cookie header stores,     *)
(* what a request sends, and the file written when the client ends. Hosts, *)
(* domains and paths are views, matched with EndsWith and StartsWith.      *)
(* secure and tailmatch are stored and never looked at: left out.          *)
(***************************************************************************)
EXTENDS StringView

CONSTANTS
  Hosts,     \* hosts of requests, and domains servers ask for
  Paths,     \* paths of requests, and paths servers ask for
  Names, Values,
  LastTime   \* the clock stops here

ASSUME CookieAssumption == LastTime \in Nat

Eternal == LastTime + 1    \* numeric_limits<time_t>::max()
RootPath == <<1>>
EmptyView == <<>>

VARIABLES
  jar,       \* _cookies
  clock,     \* time_now()
  sent,      \* the last request: its uri and the cookies it carried
  issued     \* what servers have asked this client to keep, last word each

jarvars == <<jar, clock, sent, issued>>

Nothing == [host |-> EmptyView, path |-> EmptyView, cookies |-> {}]

(* isSame looks at name and domain; updateValue replaces the rest.         *)
IsSame(c, d) == c.name = d.name /\ c.domain = d.domain

(* updateOrAddCookie of a CookieInfo: the first cookie with that name.     *)
UpdateOrAdd(cookies, c) ==
  IF \E i \in DOMAIN cookies : IsSame(c, cookies[i])
  THEN LET i == CHOOSE i \in DOMAIN cookies :
                  IsSame(c, cookies[i]) /\ \A j \in 1..(i - 1) : ~IsSame(c, cookies[j])
       IN [cookies EXCEPT ![i] = c]
  ELSE Append(cookies, c)

(* updateOrAddCookie(string_view, Uri): the attributes, an empty one being *)
(* no attribute, with the defaults. An expires that is missing, cannot be  *)
(* read or is not after the epoch is 0 or less here, and never expires.    *)
Parsed(a, host) ==
  [domain |-> IF a.domain = EmptyView THEN AppendView(EmptyView, host) ELSE a.domain,
   path |-> IF a.path = EmptyView THEN RootPath ELSE a.path,
   name |-> a.name, value |-> a.value,
   expires |-> IF a.expires <= 0 THEN Eternal ELSE a.expires]

(* getMatchCookie's test, and that of checkAndGetFormatedMatchCookies.     *)
Matches(c, host, path) == EndsWith(host, c.domain) = 1 /\ StartsWith(path, c.path) = 1

SkipsAfterErase(cookies, host, path, now) ==
  LET gone == {i \in DOMAIN cookies : Matches(cookies[i], host, path) /\ now >= cookies[i].expires}
  IN {cookies[i] : i \in {i \in DOMAIN cookies : Matches(cookies[i], host, path) /\ i \notin gone
                                                 /\ (i = 1 \/ i - 1 \notin gone)}}

(* checkAndGetFormatedMatchCookies: what is sent and what is left, the     *)
(* expired cookies that match being erased on the way.                     *)
Sends(cookies, host, path, now) ==
  {cookies[i] : i \in {i \in DOMAIN cookies : Matches(cookies[i], host, path) /\ now < cookies[i].expires}}
Keeps(cookies, host, path, now) ==
  LET left[i \in 0..Len(cookies)] ==
        IF i = 0 THEN <<>>
        ELSE IF Matches(cookies[i], host, path) /\ now >= cookies[i].expires THEN left[i - 1]
        ELSE Append(left[i - 1], cookies[i])
  IN left[Len(cookies)]

JarInit == jar = <<>> /\ clock = 1 /\ sent = Nothing /\ issued = {}

SetCookie ==
  \E host \in Hosts, a \in [domain : Hosts \cup {EmptyView}, path : Paths \cup {EmptyView},
                            name : Names, value : Values, expires : 0..LastTime] :
    LET c == Parsed(a, host) IN
      /\ jar' = UpdateOrAdd(jar, c)
      /\ issued' = {d \in issued : ~IsSame(c, d)} \cup {c}
      /\ sent' = Nothing
      /\ UNCHANGED clock

SendRequest ==
  \E host \in Hosts, path \in Paths :
    /\ sent' = [host |-> host, path |-> path, cookies |-> Sends(jar, host, path, clock)]
    /\ jar' = Keeps(jar, host, path, clock)
    /\ UNCHANGED <<clock, issued>>

ClockTick == clock < LastTime /\ clock' = clock + 1 /\ sent' = Nothing /\ UNCHANGED <<jar, issued>>

(* readFile of a file writeFile has written: read_text_file passes the     *)
(* direction end where seekg takes a position, sees a file of two bytes,   *)
(* and those begin the comment at its head. No cookie is read.             *)
Reloaded == <<>>

(* ~HttpClient writes the file and the next enableCookies reads it.        *)
Restart == jar' = Reloaded /\ issued' = {} /\ sent' = Nothing /\ UNCHANGED clock

JarNext == SetCookie \/ SendRequest \/ ClockTick \/ Restart

-----------------------------------------------------------------------------
(* One cookie for a name and domain, the last the server set, until it has *)
(* expired: updates, erasures in the middle and lookups keep it so.        *)
JarLatest ==
  /\ \A i, j \in DOMAIN jar : IsSame(jar[i], jar[j]) => i = j
  /\ \A i \in DOMAIN jar : jar[i] \in issued
  /\ \A c \in issued : clock < c.expires => \E i \in DOMAIN jar : jar[i] = c

(* A request carries exactly the live cookies for its host and path,       *)
(* whatever was erased during that walk or an earlier one.                 *)
SentExact ==
  sent # Nothing =>
    sent.cookies = {c \in issued : /\ Matches(c, sent.host, sent.path)
                                   /\ clock < c.expires}

(* The jar holds the latest cookies and a request carries the right ones.  *)
CookiesExact == JarLatest /\ SentExact
=============================================================================
