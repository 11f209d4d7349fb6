----------------------------- MODULE MC_Startup -----------------------------
(***************************************************************************)
(* Command lines for Startup.  The usual one of do_coverage (a             *)
(* configuration file and executables) with every choice of unreadable     *)
(* files and of damaged lines in up to two configuration files, the same   *)
(* without a configuration file, a single executable with several coverage *)
(* files, and command lines that must be refused.                          *)
(***************************************************************************)
EXTENDS Startup

Opt(l, a)  == [letter |-> l, arg |-> a, file |-> 0]
File(k)    == [letter |-> "C", arg |-> NULL, file |-> k]
Set(n, v)  == [newline |-> TRUE, name |-> n, blank |-> TRUE, equals |-> TRUE, value |-> v]
Damaged(l) == {l, [l EXCEPT !.newline = FALSE], [l EXCEPT !.blank = FALSE],
               [l EXCEPT !.equals = FALSE], [l EXCEPT !.value = NULL],
               [l EXCEPT !.name = "bad_option"], [l EXCEPT !.name = "dynamicLibrary"]}

\* Three executables a.x, b.x and c.x, and what may be missing.
Exe(n)    == << n, "x" >>
Cov(n)    == << n, "v", "c" >>
Names     == << Exe("a"), Exe("b"), Exe("c") >>
Missing3  == SUBSET {Exe("a"), Cov("a"), Exe("b"), Cov("b"), Cov("c")}
All       == {<< "syms" >>} \cup {Exe(n) : n \in {"a", "b", "c"}}
               \cup {Cov(n) : n \in {"a", "b", "c"}}
Words     == << "f", "lib1", "g", "lib1", "f", "lib2" >>

Usual == << Set("format", << "QEMU" >>), Set("target", << "i386", "rtems" >>),
            Set("symbolsFile", << "syms" >>), Set("executableExtension", << "x" >>),
            Set("coverageExtension", << "v", "c" >>), Set("verbose", << "yes" >>) >>
Given == << Opt("f", << "TSIM" >>), Opt("T", << "sparc" >>), Opt("s", << "syms" >>),
            Opt("e", << "x" >>), Opt("c", << "v", "c" >>), Opt("v", NULL) >>

Line(opts, confs, args, gone, words) ==
  [options |-> opts, configs |-> confs, args |-> args, readable |-> All \ gone,
   words |-> words]

MCInputs ==
  {Line(<< File(1) >>, << Usual >>, Names, gone, Words) : gone \in Missing3}
  \cup {Line(<< File(1) >> \o Given, << << l >> >>, Names, {}, Words) :
          l \in Damaged(Set("target", << "arm" >>)) \cup Damaged(Set("coverageExtension", << "c" >>))}
  \cup {Line(<< File(1), File(2) >> \o Given, << << l, k >>, << k, l >> >>, Names, {}, << "f" >>) :
          l \in Damaged(Set("format", << "RTEMS" >>)), k \in Damaged(Set("format", << "GCOV" >>))}
  \cup {Line(Given \o << Opt("1", Exe("a")) >>, << >>,
             << Cov("a"), Cov("b"), Cov("c") >>, gone, Words) : gone \in Missing3}
  \cup {Line(RemoveAt(Given, k), << >>, Names, {}, Words) : k \in DOMAIN Given}
  \cup {Line(Given \o << o >>, << >>, Names, {}, << >>) :
          o \in {Opt("?", NULL), Opt("T", << "TBD" >>), Opt("T", << "vax" >>), File(0),
                 Opt("e", << "l", "o", "n", "g" >>), Opt("s", << "none" >>),
                 Opt("O", << "out" >>), Opt("L", << "lib" >>), Opt("e", << "w" >>)}}
=============================================================================
