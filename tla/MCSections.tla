---------------------------- MODULE MCSections ----------------------------
(* Instances of SectionChannel for TLC. *)
EXTENDS SectionChannel

Table(table, extension, version, lengths) ==
    [table |-> table, extension |-> extension, version |-> version, lengths |-> lengths]

\* Two versions of a table of two sections, a table of one section, and a sub-table that is
\* too long when its sections are put together.
SomeTables == {Table(66, 1, 0, <<9, 20>>), Table(66, 1, 1, <<14, 9>>), Table(70, 0, 0, <<20>>),
               Table(66, 2, 0, <<20, 20>>)}

=============================================================================
