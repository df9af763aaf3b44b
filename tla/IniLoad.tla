------------------------------ MODULE IniLoad -------------------------------
(***************************************************************************)
(* ini_load and ini_save of common/ini_parser.c.  ini_load gives the lines *)
(* of a file one by one to the setters of a program's table of sections:   *)
(* the first wrong line ends the load, and what was set before stays set.  *)
(* ini_save writes the table's parameters in its order.                    *)
(***************************************************************************)
EXTENDS IniFile

CONSTANTS
    table,              \* sequence of sections [title, params]
    setter(_, _, _, _), \* (options, title, key, value) |-> [opts, error]
    getter(_, _)        \* (options, key) |-> value

\* Load's state: the options, the section in force (0: none yet), the keys
\* given so far, and the first error.
StartLoad(opts) ==
    [opts |-> opts, section |-> 0, given |-> {}, error |-> "none"]

EnterSection(st, line) ==
    LET i == SelectInSeq(table, LAMBDA s : s.title = line.title) IN
    IF i = 0 THEN [st EXCEPT !.section = 0, !.error = "section"]
             ELSE [st EXCEPT !.section = i]

\* The first parameter of the section with this key, or with any, is set.
SetParam(st, line) ==
    LET section == table[st.section]
        j  == SelectInSeq(section.params,
                          LAMBDA p : p.key \in {AnyKey, line.key})
        to == setter(st.opts, section.title, line.key, line.value)
    IN  CASE st.section = 0            -> [st EXCEPT !.error = "before"]
          [] st.section # 0 /\ j = 0   -> [st EXCEPT !.error = "key"]
          [] st.section # 0 /\ j # 0   ->
                [st EXCEPT !.opts = to.opts, !.error = to.error,
                    !.given = IF to.error = "none"
                              THEN @ \cup {<<st.section, j>>} ELSE @]

\* Mutant of HasSeparator: the search ends one position early.
HasSeparatorInside(line) == line.kind = "param" /\ line.value # <<"">>

HasSeparator(line) == line.kind = "param"

LoadLine(st, line) ==
    CASE st.error # "none" -> st
      [] st.error = "none" /\ line.kind \in {"skipped", "single"} -> st
      [] st.error = "none" /\ line.kind = "section" ->
            EnterSection(st, line)
      [] st.error = "none" /\ line.kind \in {"param", "ambiguous"} ->
            IF HasSeparator(line) THEN SetParam(st, line)
                                  ELSE [st EXCEPT !.error = "ambiguous"]

\* Mutant of Complete: a parameter may be given in another section.
AnySectionComplete(st) ==
    \A i \in DOMAIN table : \A j \in DOMAIN table[i].params :
        table[i].params[j].expected => \E g \in st.given : g[2] = j

Complete(st) ==
    \A i \in DOMAIN table : \A j \in DOMAIN table[i].params :
        table[i].params[j].expected => <<i, j>> \in st.given

ini_load(file, opts) ==
    LET end == FoldLeft(LAMBDA st, line : LoadLine(st, line),
                        StartLoad(opts), file)
    IN  IF file = NoFile THEN [StartLoad(opts) EXCEPT !.error = "open"]
        ELSE IF end.error = "none" /\ ~Complete(end)
             THEN [end EXCEPT !.error = "required"]
             ELSE end

\* What ini_save has written when it is done; no table with AnyKey is saved.
ini_save(opts) ==
    FlattenSeq([i \in DOMAIN table |->
        <<Section(table[i].title)>>
        \o [j \in DOMAIN table[i].params |->
                Param(table[i].params[j].key,
                      getter(opts, table[i].params[j].key))]])
=============================================================================
