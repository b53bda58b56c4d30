----------------------------- MODULE MCMarshal -----------------------------
(***************************************************************************)
(* Binary and scalar signals.  They do not interact, so a behaviour is one *)
(* of a single part, chosen in the initial state.                          *)
(***************************************************************************)
EXTENDS Marshal, Scalars

CONSTANT str

VARIABLE part

(* Two entries, and the one signal.  Between the tables every direction    *)
(* meets both types; the entries share the signal or one has none, and are *)
(* in one container or in two.                                             *)
Pair(dir, type, name, container) ==
  [dir |-> dir, type |-> type, name |-> <<"x", name>>, container |-> <<1, container>>,
   signal |-> <<"x">>]

MCTables == {
  Pair(<<"TXONLY", "RXONLY">>, <<"string", "binary">>, "x", 2),
  Pair(<<"TXRX", "TXONLY">>, <<"string", "binary">>, "x", 1),
  Pair(<<"RXONLY", "LOCAL">>, <<"string", "binary">>, "y", 2),
  Pair(<<"LOCAL", "PARAMETER">>, <<"string", "binary">>, "y", 2),
  Pair(<<"PARAMETER", "TXRX">>, <<"string", "binary">>, "y", 1)}
MCPieces == {str, Empty}
MCBlocks == 1..5

(* Two sources in every direction and of every size, in one group and in   *)
(* two; links that cross, and share a signal; values with a fraction, and  *)
(* beyond an int32.                                                        *)
Group(dir, type, offset, count) ==
  [dir |-> dir, type |-> type, offset |-> offset, count |-> count]
To(signals) == [i \in DOMAIN signals |-> [signal |-> signals[i], source |-> i]]
MCInterfaces == {
  [group |-> <<Group("TXRX", "INT32", 0, 1), Group("TXONLY", "DOUBLE", 1, 1)>>,
   link |-> To(<<"x", "y">>)],
  [group |-> <<Group("RXONLY", "DOUBLE", 0, 1), Group("TXRX", "UINT16", 1, 1)>>,
   link |-> To(<<"x", "y">>)],
  [group |-> <<Group("PARAMETER", "BOOL", 0, 2)>>, link |-> Reverse(To(<<"x", "x">>))],
  [group |-> <<Group("LOCAL", "DOUBLE", 1, 1), Group("TXONLY", "UINT32", 0, 1)>>,
   link |-> To(<<"y", "x">>)]}
MCDoubles == {-3, 0, 4}

-----------------------------------------------------------------------------
MarshalInit ==
  /\ part \in {"binary", "scalar"}
  /\ Init /\ ScalarInit
  /\ part # "binary" => table = CHOOSE t \in Tables : TRUE
  /\ part # "scalar" => interface = CHOOSE t \in Interfaces : TRUE

MarshalNext ==
  /\ UNCHANGED part
  /\ \/ part = "binary" /\ Next /\ UNCHANGED scalarVars
     \/ part = "scalar" /\ ScalarNext /\ UNCHANGED vars

MarshalSpec == MarshalInit /\ [][MarshalNext]_<<part, vars, scalarVars>>

=============================================================================
