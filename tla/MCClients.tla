----------------------------- MODULE MCClients -----------------------------
(***************************************************************************)
(* The scripts that talk to a server and must know afterwards what they    *)
(* have done, side by side as TLC checks them: program is chosen at the    *)
(* start, its module says what it does, and the variables of the other     *)
(* stay Off.                                                               *)
(***************************************************************************)
EXTENDS Integers, Sequences

CONSTANTS NULL,
          Series, Commons,                               \* SendSerie
          Urls, Contents, Has, Pages, Bases, FCounts,    \* XfCrawl
          MaxPages, MaxRuns

VARIABLES
  program, pc,
  mbox, login, patchbase, patches, common, asked, p, todo, exit, lines, eof, rcpts, accepted,
  fcount, base, uar, ucount, rdb, stop, db, files, runs, lost, kept, damaged

Serie == INSTANCE SendSerie
Crawl == INSTANCE XfCrawl

\* What is on a command line and in a file, and what a search may find
ASSUME SerieAssumption ==
  Series \subseteq Seq(Serie!Patches) /\ Commons \subseteq Serie!Patches \cup {NULL}

ASSUME CrawlAssumption ==
  /\ Has \in [Urls -> Contents] /\ Pages \subseteq Seq(Crawl!Links)
  /\ Contents \cap Crawl!Marks = {} /\ NULL \notin {"dropped", "torn"}

serie == <<mbox, login, patchbase, patches, common, asked, p, todo, exit, lines, eof,
           rcpts, accepted>>
crawl == <<fcount, base, uar, ucount, rdb, stop, db, files, runs, lost, kept, damaged>>

Off == 0

SerieOff ==
  /\ mbox = Off /\ login = Off /\ patchbase = Off /\ patches = Off /\ common = Off
  /\ asked = Off /\ p = Off /\ todo = Off /\ exit = Off /\ lines = Off /\ eof = Off
  /\ rcpts = Off /\ accepted = Off
CrawlOff ==
  /\ fcount = Off /\ base = Off /\ uar = Off /\ ucount = Off /\ rdb = Off /\ stop = Off
  /\ db = Off /\ files = Off /\ runs = Off /\ lost = Off /\ kept = Off /\ damaged = Off

Init ==
  \/ program = "send-serie" /\ Serie!Init /\ CrawlOff
  \/ program = "xfcrawl" /\ Crawl!Init /\ SerieOff

\* A step of one program
InSerie(A) == program = "send-serie" /\ A /\ UNCHANGED <<program, crawl>>
InCrawl(A) == program = "xfcrawl" /\ A /\ UNCHANGED <<program, serie>>

Next == InSerie(Serie!Next) \/ InCrawl(Crawl!Next)

vars == <<program, pc, serie, crawl>>

Spec == Init /\ [][Next]_vars

\* A few series, good ones and ones that fail on the way
Patch(file, subject, to, cc, bcc, data) ==
  [file |-> file, subject |-> subject, from |-> <<"me">>,
   to |-> to, cc |-> cc, bcc |-> bcc, data |-> data]

Good == Patch("ok", TRUE, <<"a", "b">>, NULL, <<"c">>, <<"text", "dot", "from", "dots">>)
Short == Patch("ok", TRUE, <<"a">>, <<"b">>, NULL, <<"dotted", "dot">>)

MCSeries ==
  {<<>>, <<Good, Short, Good>>,
   <<Short, Patch("ok", FALSE, <<"a">>, NULL, NULL, <<>>)>>,
   <<Short, Patch("ok", TRUE, NULL, NULL, NULL, <<"text">>), Short>>,
   <<Short, Patch("ok", TRUE, <<"a">>, <<>>, NULL, <<"text">>)>>,
   <<Short, Patch("wrong", TRUE, <<"a">>, NULL, NULL, <<>>)>>}

MCCommons ==
  {NULL, [Patch("ok", FALSE, <<"d">>, NULL, <<"e">>, <<>>) EXCEPT !.from = NULL],
   [Patch("ok", TRUE, NULL, <<"d">>, NULL, <<"dot">>) EXCEPT !.from = <<"you">>],
   Patch("wrong", TRUE, NULL, NULL, NULL, <<>>)}

\* Three URLs, two of them with the same document
Link(u, http, dtype, near) == [url |-> u, http |-> http, dtype |-> dtype, near |-> near]

MCHas == [u \in Urls |-> IF u = "u3" THEN "c2" ELSE "c1"]
MCPages ==
  {<<>>,
   <<Link("u1", TRUE, TRUE, FALSE), Link("u2", FALSE, TRUE, FALSE), Link("u1", TRUE, TRUE, FALSE)>>,
   <<Link("u2", TRUE, TRUE, FALSE), Link("u1", TRUE, TRUE, TRUE), Link("u3", TRUE, TRUE, FALSE)>>,
   <<Link("u3", TRUE, FALSE, FALSE), Link("u3", TRUE, TRUE, FALSE)>>}
MCFCounts == {-1, 1}

-----------------------------------------------------------------------------
(* Properties *)

\* send-serie: what was sent is at any time a beginning of the series, whole and to
\* its recipients, whatever the server does.
SentInOrder == program = "send-serie" => Serie!SentInOrder

\* send-serie: the exit status tells how much of the series was sent.
StatusTells == program = "send-serie" => Serie!StatusTells

\* xfcrawl: the DB file tells what is on disk, and what save_db wrote stays in it as
\* long as it can be read.
DbTells == program = "xfcrawl" => Crawl!DbTells

\* xfcrawl: fetch_file is never called for a URL that is already recorded, unless its
\* record could not be read.
NeverTwice == program = "xfcrawl" => Crawl!NeverTwice
=============================================================================
