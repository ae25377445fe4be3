------------------------------- MODULE Params -------------------------------
(***************************************************************************)
(* What the library makes of MPITS_PARAMS.  The variable is a sequence of  *)
(* words, of more than one character each, and perhaps a space at its end; *)
(* the value of a key is the sequence of what stands between its "@"s.     *)
(* A word is an option with a name (clock-sync), with pairs of key and     *)
(* value (params), or another one, which both parsers ignore.              *)
(***************************************************************************)
EXTENDS Integers, Sequences, SequencesExt

CONSTANT Numbers    \* the texts that stoi converts

ClockSyncOpt(name) == [opt |-> "clock-sync", name |-> name, pairs |-> <<>>]
ParamsOpt(pairs)   == [opt |-> "params", name |-> "", pairs |-> pairs]
Pair(key, val)     == [key |-> key, val |-> val]

\* What the variable may hold; no check is made of names, keys and values.
Word == [opt : STRING, name : STRING, pairs : Seq([key : STRING, val : Seq(STRING)])]
Value == [words : Seq(Word), trailing : BOOLEAN]

DefaultEnv ==
  [words |-> <<ClockSyncOpt("HCA3O"),
               ParamsOpt(<<Pair("alg", <<"HCA3O", "skampi_offset", "5", "20">>)>>)>>,
   trailing |-> FALSE]

\* compute_argc: a word counts when the next one begins, and the last one if nothing
\* follows it.
CountedWords(env) ==
  IF env.trailing /\ env.words # <<>> THEN Len(env.words) - 1 ELSE Len(env.words)

\* With a space after the only word none is counted, and the word is written past the
\* end of the new argv.
Overruns(env) == env.words # <<>> /\ CountedWords(env) = 0

\* argv from its second entry.
Argv(env) == SubSeq(env.words, 1, CountedWords(env))

Option(argv, opt) == SelectSeq(argv, LAMBDA word : word.opt = opt)

\* The last one counts; no option means no synchronisation.
SelectedName(argv) ==
  LET names == Option(argv, "clock-sync")
  IN  IF names = <<>> THEN "None" ELSE names[Len(names)].name

Pairs(argv) == FlattenSeq([k \in DOMAIN Option(argv, "params") |->
                             Option(argv, "params")[k].pairs])

\* Mutant: keys are compared with those of the same list only, and a key the
\* dictionary has keeps its value.
PairsFailInList(store, argv) ==
  LET pairs == Pairs(argv)
  IN  \E k \in DOMAIN pairs :
        pairs[k].val = <<>> \/ \E j \in DOMAIN pairs \ {k} : pairs[j].key = pairs[k].key

\* parse_keyvalue_list ends the program at a pair without a value, and at a key that
\* is in the dictionary already.
PairsFail(store, argv) ==
  LET pairs == Pairs(argv)
  IN  \E k \in DOMAIN pairs :
        \/ pairs[k].val = <<>>
        \/ pairs[k].key \in DOMAIN store
        \/ \E j \in DOMAIN pairs \ {k} : pairs[j].key = pairs[k].key

StoreWith(store, argv) ==
  LET pairs == Pairs(argv)
      given == {pairs[k].key : k \in DOMAIN pairs}
  IN  [key \in DOMAIN store \cup given |->
         IF key \in DOMAIN store THEN store[key]
         ELSE LET k == CHOOSE k \in DOMAIN pairs : pairs[k].key = key
              IN  pairs[k].val]

-----------------------------------------------------------------------------
(* The loader.  What it may come to: the name of the algorithm it has      *)
(* made, NULL, or the end of the program (exit, or an exception nobody     *)
(* catches).                                                               *)

\* The first of no tokens is read after its destruction: that crashes, or is no
\* algorithm's name.
OffsetAlg(tokens) ==
  IF tokens = <<>> THEN {"crash", "NULL"}
  ELSE IF tokens[1] \notin {"skampi_offset", "pingpong_offset"} \/ Len(tokens) # 3
       THEN {"NULL"}
  ELSE IF {tokens[2], tokens[3]} \subseteq Numbers THEN {"offset"} ELSE {"crash"}

\* alg with the offset algorithm that the tokens after its first n describe; those n
\* are numbers.
Algorithm(alg, tokens, n) ==
  IF \E k \in 1..n : tokens[k] \notin Numbers THEN {"crash"}
  ELSE {IF o = "offset" THEN alg ELSE o :
          o \in OffsetAlg(SubSeq(tokens, n + 1, Len(tokens)))}

Propagation(type) ==
  IF type \notin Numbers THEN "crash" ELSE IF type \in {"0", "1"} THEN "prop" ELSE "exit"

Instantiated(alg, tokens) ==
  CASE alg \in {"HCA2", "HCA3"} /\ Len(tokens) >= 2 -> Algorithm(alg, tokens, 2)
    [] alg \in {"HCA", "JK"} /\ tokens # <<>>       -> Algorithm(alg, tokens, 1)
    [] alg \in {"SKaMPI", "HCA3O"} /\ tokens # <<>> -> Algorithm(alg, tokens, 0)
    [] alg = "prop" /\ tokens # <<>>                -> {Propagation(tokens[1])}
    [] OTHER                                        -> {"NULL"}

Instantiate(store, key) ==
  IF key \in DOMAIN store
  THEN Instantiated(Head(store[key]), Tail(store[key]))
  ELSE {"NULL"}
=============================================================================
