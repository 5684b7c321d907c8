------------------------------- MODULE Mkdvd -------------------------------
(***************************************************************************)
(* mkdvd.sh from the transcoding on: a run makes the .mpg and the DVD tree *)
(* unless it finds them, burns the tree and cleans up.  A run may be       *)
(* killed in any command, and the next one finds what it left behind.      *)
(***************************************************************************)
EXTENDS Integers

CONSTANTS Movies,  \* INFILEs with one BNAME
          MaxRuns  \* bound on the runs

VARIABLES
  program, pc,
  infile, opts,  \* of this run; opts is [mkdvd, burn, clean]
  mpg, tree,     \* OUTFILE and ODIR: None, or [of, whole]
  disc,          \* what was burnt last: [of, whole, want, clean]
  nruns, code,   \* runs started, and the exit code of the last
  clean          \* history: no run since the last clean-up was killed where it does
                 \* harm or had another INFILE

vars == <<program, pc, infile, opts, mpg, tree, disc, nruns, code, clean>>

Programs == {"mkdvd"}

None == [of |-> "none", whole |-> FALSE]
Whole(f) == [of |-> f, whole |-> TRUE]
Partial(f) == [of |-> f, whole |-> FALSE]

Options == {o \in [mkdvd : BOOLEAN, burn : BOOLEAN, clean : BOOLEAN] : o.burn => o.mkdvd}

Init ==
  /\ program \in Programs
  /\ pc = "ffmpeg" /\ infile \in Movies /\ opts \in Options
  /\ mpg = None /\ tree = None
  /\ disc = [of |-> "none", whole |-> FALSE, want |-> "none", clean |-> FALSE]
  /\ nruns = 1 /\ code = 0 /\ clean = TRUE

run == <<program, infile, opts, nruns, clean>>

Exit(c) == pc' = "exited" /\ code' = c

\* The transcoding; a failure removes the file, and the variant does not.
FailedMpgKept == Partial(infile)
FailedMpg == None

Ffmpeg ==
  /\ pc = "ffmpeg"
  /\ \/ /\ mpg' = IF mpg = None THEN Whole(infile) ELSE mpg
        /\ pc' = "mkdir" /\ UNCHANGED code
     \/ mpg = None /\ mpg' = FailedMpg /\ Exit(4)
  /\ UNCHANGED <<run, tree, disc>>

Mkdir ==
  /\ pc = "mkdir"
  /\ IF opts.mkdvd /\ tree = None
     THEN tree' = Partial(mpg.of) /\ pc' = "dvdauthor"
     ELSE pc' = "burn" /\ UNCHANGED tree
  /\ UNCHANGED <<run, mpg, disc, code>>

\* The titles, and then the table of contents, without which the tree is not whole
Dvdauthor ==
  /\ pc = "dvdauthor"
  /\ \/ pc' = "dvdauthor -T" /\ UNCHANGED <<tree, code>>
     \/ tree' = None /\ Exit(5)
  /\ UNCHANGED <<run, mpg, disc>>

DvdauthorT ==
  /\ pc = "dvdauthor -T"
  /\ \/ tree' = mpg /\ pc' = "burn" /\ UNCHANGED code
     \/ tree' = None /\ Exit(6)
  /\ UNCHANGED <<run, mpg, disc>>

Growisofs ==
  /\ pc = "burn"
  /\ IF ~opts.burn THEN pc' = "clean" /\ UNCHANGED <<disc, code>>
     ELSE IF tree = None THEN Exit(7) /\ UNCHANGED disc
     ELSE \/ /\ disc' = [of |-> tree.of, whole |-> tree.whole, want |-> infile,
                         clean |-> clean]
             /\ pc' = "clean" /\ UNCHANGED code
          \/ Exit(8) /\ UNCHANGED disc
  /\ UNCHANGED <<run, mpg, tree>>

Clean ==
  /\ pc = "clean"
  /\ mpg' = IF opts.clean THEN None ELSE mpg
  /\ tree' = IF opts.clean THEN None ELSE tree
  /\ clean' = (clean \/ opts.clean)
  /\ Exit(0)
  /\ UNCHANGED <<program, infile, opts, nruns, disc>>

Main == Ffmpeg \/ Mkdir \/ Dvdauthor \/ DvdauthorT \/ Growisofs \/ Clean

\* Where a run must not be killed: while it writes the .mpg or the tree, or removes them
Harmful == \/ pc = "ffmpeg" /\ mpg = None
           \/ pc \in {"dvdauthor", "dvdauthor -T"}
           \/ pc = "clean" /\ opts.clean

\* The machine or the user ends the script in a command: ffmpeg leaves what it has
\* written, rm -rf what it has not got to, the directory last.
Kill ==
  /\ pc # "exited"
  /\ IF pc = "clean" /\ opts.clean
     THEN \/ UNCHANGED <<mpg, tree>>
          \/ mpg' = None /\ tree' \in {tree, Partial(tree.of), None}
     ELSE /\ mpg' = IF pc = "ffmpeg" /\ mpg = None THEN Partial(infile) ELSE mpg
          /\ UNCHANGED tree
  /\ clean' = (clean /\ ~Harmful)
  /\ Exit(-1)
  /\ UNCHANGED <<program, infile, opts, disc, nruns>>

Again ==
  /\ pc = "exited" /\ nruns < MaxRuns
  /\ nruns' = nruns + 1
  /\ infile' \in Movies /\ opts' \in Options
  /\ clean' = (clean /\ (infile' = infile \/ (mpg = None /\ tree = None)))
  /\ pc' = "ffmpeg" /\ code' = 0
  /\ UNCHANGED <<program, mpg, tree, disc>>

Next == Main \/ Kill \/ Again

-----------------------------------------------------------------------------
(* What the script is held to *)

\* Unless a run was killed where it does harm, or left files to a run with another
\* INFILE, a run leaves whole files or none, however its commands failed, and burns the
\* whole of its INFILE.  A run that cleans up ends the harm of those before it.  Burning
\* never lacks a tree.
Accounted ==
  /\ clean /\ pc = "exited"
       => mpg \in {None, Whole(infile)} /\ tree \in {None, Whole(infile)}
  /\ disc.clean => disc.whole /\ disc.of = disc.want
  /\ code # 7

Ended == pc = "exited"
=============================================================================
