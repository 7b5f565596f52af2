------------------------------ MODULE MCShell ------------------------------
(* A small archive, and lines in which every command and every error occurs. *)
EXTENDS Shell

SmallNames == {"=", "x=", "y=", "PATH=", "PS1="}
SmallDirs == {<< >>, <<"bin">>}
SmallPrograms == {<<"bin", "run">>, <<"lib", "tool">>}
SmallHome == <<"bin">>
SmallEntries ==
    [e \in {"/bin/", "/lib/", "/lib"} |->
        CASE e = "/bin/" -> [dir |-> <<"bin">>, slash |-> TRUE]
          [] e = "/lib/" -> [dir |-> <<"lib">>, slash |-> TRUE]
          [] OTHER       -> [dir |-> <<"lib">>, slash |-> FALSE]]
SmallEnvPath == <<SmallEntries["/bin/"], SmallEntries["/lib/"]>>

\* Every short mixture of words, spaces, quotes and '#'.
Mixtures == SeqOf({"run", "sp", "q", "#"}, 3)

Commands ==
    { <<"q", "run", "q", "run">>, <<"q", "sp", "q", "sp">>, <<"run", "q", "sp", "q">>,
      <<"q", "q", "q", "q">>, <<"q", "#", "q", "run">>, <<"q", "q", "sp", "#">>,
      <<"run", "sp", "q", "run", "sp", "#", "q">>, <<"q", "run", "sp", "run", "q">>,
      <<"run", "sp", "run", "sp", "run">>, <<"run", "sp", "q", "run", "q", "run">>,
      <<"cd">>, <<"cd", "sp", "bin">>, <<"cd", "sp", "..">>, <<"cd", "sp", "~">>,
      <<"cd", "sp", "/", "tmp">>, <<"ls">>, <<"ls", "sp", "/", "bin">>, <<"ls", "sp", "tmp">>,
      <<"ls", "sp", "/", "bin", "run">>, <<"/", "bin">>,
      <<"exit">>, <<"exit", "sp", "run">>,
      <<"run", "sp", "&">>, <<"run", "sp", "&", "run">>, <<"run", "sp", "&", "sp", "#">>,
      <<"/", "bin", "run">>, <<"tool">>, <<"nothing">>,
      <<"x=", "v">>, <<"x=", "q", "v", "sp", "v", "q">>, <<"x=", "q">>, <<"x=", "v", "sp", "v">>,
      <<"y=">>, <<"=", "v">>,
      <<"PATH=", "/lib">>, <<"PATH=", "$PATH", "/lib">>, <<"PATH=", "$", "v">>,
      <<"PS1=", "\\w">>, <<"PS1=", "\\x">> }

SmallLines == Mixtures \cup Commands

SmallScripts ==
    { <<<<"x=", "v", "nl">>, <<"run", "sp", "run", "nl">>, << >>>>,
      <<<<"q", "run", "q", "run", "nl">>, <<"run">>>>,
      <<<<"sp", "#", "run", "nl">>, <<"q", "run", "nl">>, <<"q", "v", "q", "nl">>, <<"cd", "sp", "bin">>>> }
=============================================================================
