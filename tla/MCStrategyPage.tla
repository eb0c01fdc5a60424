--------------------------- MODULE MCStrategyPage ---------------------------
(***************************************************************************)
(* Instances of StrategyPage: one strategy to start from, which was made   *)
(* elsewhere, without a rule.  Others can be created.                      *)
(***************************************************************************)
EXTENDS StrategyPage

MCTables ==
    {<<[name |-> name, symbol |-> symbol, rule |-> NoRule, sizing |-> DefaultSizing]>> :
          name \in Names, symbol \in Symbols}

\* The bound on what is typed: once its symbol is chosen a form has other indicators than
\* the default ones or another sizing, but not both.
Limited ==
    \/ form.fields.rule = DefaultRule /\ form.fields.sizing = DefaultSizing
    \/ /\ form.fields.symbol # NoSymbol
       /\ form.fields.rule = DefaultRule \/ form.fields.sizing = DefaultSizing
=============================================================================
