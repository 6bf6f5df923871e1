--------------------------- MODULE MCManagedFiles ----------------------------
EXTENDS ManagedFiles
CONSTANTS append, retry, rewrite, update, purge, read, backup

MCCalls == {append, retry, rewrite, update, purge, read, backup}
MCKind == [c \in MCCalls |->
  CASE c \in {update, rewrite} -> "update" [] c = purge -> "purge" [] c = read -> "read"
    [] c = backup -> "backup" [] OTHER -> "append"]
\* retry is the second attempt of append, and rewrite another request under its
\* operation id.  What update writes is what append makes of the first, empty
\* revision, and differs from what it makes of a later one.
MCOp == [c \in MCCalls |-> IF c \in {retry, rewrite} THEN append ELSE c]
MCText == [c \in MCCalls |-> "text"]

\* All seven together are too many; these are the calls made in one behaviour.
Together ==
  {{append, update, purge, read, backup}, {append, retry, purge},
   {append, rewrite, purge}, {append, retry, update, backup}}

MCSpec == (\E issued \in Together : InitWith(issued)) /\ [][Next]_vars /\ Fairness
==============================================================================
