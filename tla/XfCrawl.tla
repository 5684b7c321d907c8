------------------------------ MODULE XfCrawl ------------------------------
(***************************************************************************)
(* xfcrawl.pl: pages of search results are fetched, the links on them that *)
(* are not yet in the DB are looked at and their documents stored under    *)
(* the hash of their content, and the DB is written at the end.            *)
(*                                                                         *)
(* The DB file and the documents outlive the process, which may be killed  *)
(* at any point, end by itself, or be told to by SIGINT; it is then        *)
(* started again.                                                          *)
(***************************************************************************)
EXTENDS Integers, Sequences, FiniteSets

CONSTANTS NULL,
          Urls,
          Contents,  \* documents, as their hashes
          Has,       \* the document at every URL
          Pages,     \* what a search may find: sequences of links
          Bases,     \* values of option -b, in pages of results
          FCounts,   \* values of option -c, in pages; -1: no limit
          MaxPages,  \* bound: pages with links
          MaxRuns    \* bound: how often the program is started

Links == [url : Urls, http : BOOLEAN, dtype : BOOLEAN, near : BOOLEAN]
Marks == {NULL, "dropped", "torn"}

VARIABLES
  fcount,   \* option -c
  pc,       \* "idle", "search", "peek", "fetch", "write", "save" or "saving"
  base,     \* the result page
  uar,      \* the URLs still to be fetched, by their place on the page
  ucount,   \* what fetch_search returned
  rdb,      \* what is known of every URL: NULL, "dropped", "torn" or a hash
  stop,     \* $stop
  db,       \* the DB file, as what load_db makes of it
  files,    \* the documents on disk: "none", "whole" or "part"
  runs,     \* starts so far
  lost,     \* history: URLs of which load_db did not bring what the file says
  kept,     \* history: what save_db wrote and neither a save_db that was cut short
            \* nor a run that had lost it has replaced
  damaged   \* history: documents hit by a kill or a full disk

disk == <<db, files, kept, damaged>>
vars == <<fcount, pc, base, uar, ucount, rdb, stop, runs, lost, disk>>

Unknown == [u \in Urls |-> NULL]

Init ==
  /\ fcount = 0
  /\ pc = "idle" /\ base = 0 /\ uar = <<>> /\ ucount = 0
  /\ rdb = Unknown /\ stop = FALSE /\ runs = 0 /\ lost = {}
  /\ db = Unknown /\ files = [c \in Contents |-> "none"]
  /\ kept = Unknown /\ damaged = {}

-----------------------------------------------------------------------------
(* The program *)

\* The top of the loop over the pages
Round(b, c) == IF c < 0 \/ b < c THEN "search" ELSE "save"

\* What is left of the records f when their reading or writing ends early: some of
\* them, in the order of a hash, and one more that ends inside its value.
Parts(f) ==
  {[u \in Urls |-> IF u \in S THEN f[u] ELSE IF u \in T THEN "torn" ELSE NULL] :
     S \in SUBSET {u \in Urls : f[u] # NULL},
     T \in {{}} \cup {{u} : u \in {v \in Urls : f[v] # NULL}}}

\* load_db: what the file tells, nothing of it if it cannot be opened, or what comes
\* before a read error.  Its result is not looked at.
Loaded == Parts(db)

Start ==
  /\ pc = "idle" /\ runs < MaxRuns
  /\ runs' = runs + 1
  /\ fcount' \in FCounts /\ base' \in Bases
  /\ rdb' \in Loaded
  /\ lost' = {u \in Urls : rdb'[u] # db[u]}
  /\ stop' = FALSE /\ uar' = <<>> /\ ucount' = 0
  /\ pc' = Round(base', fcount')
  /\ UNCHANGED disk

\* The loop of extract_urls ends at a link that another one follows too closely
\* (within five characters of its start), with what came before.
Looked(links) ==
  LET near == {i \in DOMAIN links : links[i].near}
  IN IF near = {} THEN links
     ELSE SubSeq(links, 1, CHOOSE i \in near : \A j \in near : i <= j)

\* Links with a scheme are counted; those to a document of the type that is neither
\* in the DB nor earlier on the page are to be fetched.  The variant forgets the page.
New(l) == l.http /\ l.dtype /\ rdb[l.url] = NULL
NewLinksAny(links) == [i \in {j \in DOMAIN links : New(links[j])} |-> links[i].url]
NewLinks(links) ==
  LET first(i) == \A j \in 1 .. i - 1 : New(links[j]) => links[j].url # links[i].url
  IN [i \in {j \in DOMAIN links : New(links[j]) /\ first(j)} |-> links[i].url]

\* After a page: on to the next one, after a pause, unless it was empty or a SIGINT
\* came.
AfterPage(count, b) == IF count = 0 \/ stop THEN "save" ELSE Round(b, fcount)

Search ==
  /\ pc = "search"
  /\ \E page \in IF base < MaxPages THEN Pages ELSE {<<>>} :
     LET links == Looked(page)
         count == Cardinality({i \in DOMAIN links : links[i].http})
         new == NewLinks(links)
     IN /\ uar' = new /\ ucount' = count
        /\ IF DOMAIN new # {} THEN pc' = "peek" /\ UNCHANGED base
           ELSE pc' = AfterPage(count, base + 1) /\ base' = base + 1
  /\ UNCHANGED <<fcount, rdb, stop, runs, lost, disk>>

\* The search fails: fatal() ends the program, the DB is not written.
SearchFails ==
  /\ pc = "search"
  /\ pc' = "idle"
  /\ UNCHANGED <<fcount, base, uar, ucount, rdb, stop, runs, lost, disk>>

\* The URL fetch_file is called for, and those after it
First == CHOOSE i \in DOMAIN uar : \A j \in DOMAIN uar : i <= j
Url == uar[First]
Rest == [i \in DOMAIN uar \ {First} |-> uar[i]]

\* fetch_file returns, with v as the new record of its URL or without one.
Return(v) ==
  /\ rdb' = IF v = NULL THEN rdb ELSE [rdb EXCEPT ![Url] = v]
  /\ IF DOMAIN Rest # {} /\ ~stop
     THEN pc' = "peek" /\ uar' = Rest /\ UNCHANGED base
     ELSE pc' = AfterPage(ucount, base + 1) /\ uar' = <<>> /\ base' = base + 1
  /\ UNCHANGED <<fcount, ucount, stop, runs, lost>>

\* The document is there, of an allowed type and not too big, ...
Peek ==
  /\ pc = "peek"
  /\ pc' = "fetch"
  /\ UNCHANGED <<fcount, base, uar, ucount, rdb, stop, runs, lost, disk>>

\* ... or the URL is recorded as one to leave alone, before or after the GET.
Drop ==
  /\ pc \in {"peek", "fetch"}
  /\ Return("dropped")
  /\ UNCHANGED disk

Document == Has[Url]

\* The file is created, or emptied if it is already there.
Open ==
  /\ pc = "fetch"
  /\ files' = [files EXCEPT ![Document] = "part"]
  /\ pc' = "write"
  /\ UNCHANGED <<fcount, base, uar, ucount, rdb, stop, runs, lost, db, kept, damaged>>

\* Without the directory or the file the URL is not recorded; the variant does.
UnableRecorded == Document
Unable == NULL

OpenFails ==
  /\ pc = "fetch"
  /\ Return(Unable)
  /\ UNCHANGED disk

\* Nobody looks at the result of print and close: the document may be short.
Write ==
  /\ pc = "write"
  /\ \/ /\ files' = [files EXCEPT ![Document] = "whole"]
        /\ damaged' = damaged \ {Document}
     \/ damaged' = damaged \cup {Document} /\ UNCHANGED files
  /\ Return(Document)
  /\ UNCHANGED <<db, kept>>

\* save_db empties the file ...
Save ==
  /\ pc = "save"
  /\ db' = Unknown
  /\ pc' = "saving"
  /\ UNCHANGED <<fcount, base, uar, ucount, rdb, stop, runs, lost, files, kept, damaged>>

\* ... and writes it, all of it or, on a full disk, a part of it.
Saved ==
  /\ pc = "saving"
  /\ \/ /\ db' = rdb
        /\ kept' = [u \in Urls |-> IF rdb[u] = NULL /\ u \notin lost THEN kept[u] ELSE rdb[u]]
     \/ db' \in Parts(rdb) /\ kept' = db'
  /\ pc' = "idle"
  /\ UNCHANGED <<fcount, base, uar, ucount, rdb, stop, runs, lost, files, damaged>>

\* The DB file cannot be created: fatal().
SaveFails ==
  /\ pc = "save"
  /\ pc' = "idle"
  /\ UNCHANGED <<fcount, base, uar, ucount, rdb, stop, runs, lost, disk>>

\* INT_handler
Interrupt ==
  /\ pc # "idle" /\ ~stop
  /\ stop' = TRUE
  /\ UNCHANGED <<fcount, pc, base, uar, ucount, rdb, runs, lost, disk>>

-----------------------------------------------------------------------------
(* The program is killed *)

Kill ==
  /\ pc # "idle"
  /\ pc' = "idle"
  /\ IF pc = "saving" THEN db' \in Parts(rdb) /\ kept' = db' ELSE UNCHANGED <<db, kept>>
  /\ damaged' = IF pc = "write" THEN damaged \cup {Document} ELSE damaged
  /\ UNCHANGED <<fcount, base, uar, ucount, rdb, stop, runs, lost, files>>

Program ==
  \/ Search \/ SearchFails \/ Peek \/ Drop \/ Open \/ OpenFails \/ Write
  \/ Save \/ Saved \/ SaveFails

Next == Start \/ Program \/ Interrupt \/ Kill

-----------------------------------------------------------------------------
(* Properties *)

\* The DB file tells what is on disk: a hash in it names a document that is there
\* and whole, unless a kill or a full disk hit the writing of it, for the same URL
\* or for another one with the same content (fetch_file empties the file first).
\* And what save_db wrote stays there whatever happens to later runs, as long as no
\* save_db is itself cut short and no run saves that could not load it.
DbTells ==
  /\ \A u \in Urls : db[u] \in Contents =>
       files[db[u]] = "whole" \/ db[u] \in damaged \/ (pc = "write" /\ Document = db[u])
  /\ pc # "saving" => \A u \in Urls : kept[u] # NULL => db[u] = kept[u]

\* A document is asked for once: fetch_file is never called for a URL that this run
\* has recorded, on this page or an earlier one, nor for one that is in the DB file,
\* unless load_db could not read its record.
NeverTwice == pc = "peek" => rdb[Url] = NULL /\ (db[Url] = NULL \/ Url \in lost)
=============================================================================
