---------------------------- MODULE LifecycleMC -----------------------------
EXTENDS Lifecycle

Env(words) == [words |-> words, trailing |-> FALSE]
Cut(words) == [words |-> words, trailing |-> TRUE]
Skampi == <<"skampi_offset", "10", "100">>
Alg(tokens) == ParamsOpt(<<Pair("alg", tokens)>>)

MCEnvs == {
  DefaultEnv,
  Env(<<>>),
  Env(<<ClockSyncOpt("HCA")>>),
  Env(<<ClockSyncOpt("HCA3")>>),
  Cut(<<ClockSyncOpt("JK")>>),
  Env(<<ClockSyncOpt("Topo2")>>),
  Env(<<ClockSyncOpt("TOPO1")>>),
  Env(<<ClockSyncOpt("JK"), ClockSyncOpt("SKaMPI"), Alg(<<"SKaMPI">> \o Skampi)>>),
  Env(<<ClockSyncOpt("HCA"), Alg(<<"HCA2", "1", "500">> \o Skampi)>>),
  Cut(<<ClockSyncOpt("HCA2"), Alg(<<"HCA2", "1", "500">> \o Skampi)>>),
  Env(<<ClockSyncOpt("HCA2"), Alg(<<"HCA2", "500">> \o Skampi)>>),
  Env(<<ClockSyncOpt("JK"), Alg(<<"JK", "500">>)>>),
  Env(<<ClockSyncOpt("Topo1"),
        ParamsOpt(<<Pair("topoalg1", <<"HCA3", "0", "500">> \o Skampi),
                    Pair("topoalg2", <<"SKaMPI">> \o Skampi),
                    Pair("topoalg3", <<"prop", "1">>)>>)>>),
  Env(<<ClockSyncOpt("Topo1"),
        ParamsOpt(<<Pair("topoalg1", <<"HCA3", "0", "500">> \o Skampi),
                    Pair("topoalg3", <<"prop", "2">>)>>)>>),
  Env(<<ParamsOpt(<<Pair("topoalg2", <<"prop", "2">>)>>)>>) }

MCNumbers == {"0", "1", "2", "5", "10", "20", "100", "500"}
=============================================================================
