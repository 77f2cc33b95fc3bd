----------------------------- MODULE NodesFile -----------------------------
(***************************************************************************)
(* setup_nodes_fs (server/node_func.c): the reader of the legacy "nodes"   *)
(* file of server_priv, called twice by the migration: with preprocess set *)
(* to turn old-style properties into boolean resources, and with it clear  *)
(* to create the vnodes.                                                   *)
(*                                                                         *)
(* A file is a sequence of lines as parse_node_token splits them (the      *)
(* tokenizer is not in this repository).  A line is                       *)
(*   kind    "skip" for a comment (#), a $ line or a blank line, else      *)
(*           "node";                                                       *)
(*   hdr     the number after "node_file_ver " when the line starts with   *)
(*           it, NoHdr otherwise;                                          *)
(*   name    its first token, nameOk whether that token is legal and       *)
(*           starts with an alphanumeric;                                  *)
(*   toks    the remaining tokens.                                         *)
(* A token is [t, ok, id]: t is "ts" ([ts] and its value), "sharing"       *)
(* ([sharing] and its value), "attr" (keyword[.resource]=value), "prop"    *)
(* (an old-style property id) or "bad" (a token parse_node_token rejects); *)
(* ok says whether its value parsed and, for [sharing], was a known        *)
(* sharing value.                                                          *)
(***************************************************************************)
EXTENDS Integers, Sequences, TLC

CONSTANT NonBoolResc   \* resources already defined as non-boolean or not node level

NoHdr == -1

Tok(t, ok, id) == [t |-> t, ok |-> ok, id |-> id]

SkipLine == [kind |-> "skip", hdr |-> NoHdr, name |-> "", nameOk |-> TRUE, toks |-> <<>>]

NodeLine(n, ok, toks) == [kind |-> "node", hdr |-> NoHdr, name |-> n, nameOk |-> ok, toks |-> toks]

\* "node_file_ver v": after the version check the code goes on to read the
\* line as a node line, whose name is node_file_ver and whose one token is
\* the number.
VersionLine(v) ==
    [kind |-> "node", hdr |-> v, name |-> "node_file_ver", nameOk |-> TRUE,
     toks |-> <<Tok("prop", TRUE, ToString(v))>>]

\* A token of a node line is accepted.  In the preprocess pass an old-style
\* property becomes add_resource_def(id, ATR_TYPE_BOOL, ...), which returns
\* -2 for a resource already defined otherwise; in the second pass it
\* becomes resources_available.id=True.
TokOk(tok, preprocess) ==
    IF tok.t = "prop" THEN ~(preprocess /\ tok.id \in NonBoolResc) ELSE tok.ok

\* The ways a node line makes setup_nodes_fs return -1, given the version
\* read so far and the vnodes created so far: a second version line or a
\* version other than 2, a bad first token, a bad token, or (second pass)
\* create_pbs_node2 returning PBSE_NODEEXIST.
LineError(l, preprocess, ver, created) ==
    \/ l.hdr # NoHdr /\ (ver # 0 \/ l.hdr # 2)
    \/ ~l.nameOk
    \/ \E k \in DOMAIN l.toks : ~TokOk(l.toks[k], preprocess)
    \/ ~preprocess /\ l.name \in created

\* The loop over the lines from line i on: [rc, created].  An error
\* returns at once; the vnodes created before it stay in the table.
RECURSIVE SetupNodesFsFrom(_, _, _, _, _)
SetupNodesFsFrom(lines, i, preprocess, ver, created) ==
    IF i > Len(lines) THEN [rc |-> 0, created |-> created]
    ELSE LET l == lines[i] IN
         CASE l.kind = "skip" ->
                SetupNodesFsFrom(lines, i + 1, preprocess, ver, created)
           [] LineError(l, preprocess, ver, created) ->
                [rc |-> -1, created |-> created]
           [] OTHER ->
                SetupNodesFsFrom(lines, i + 1, preprocess,
                                 IF l.hdr # NoHdr THEN l.hdr ELSE ver,
                                 IF preprocess THEN created ELSE created \cup {l.name})

\* setup_nodes_fs(preprocess): no file is an empty node list and returns 0;
\* file_version starts at 0 on every call.
SetupNodesFs(lines, preprocess) == SetupNodesFsFrom(lines, 1, preprocess, 0, {})

\* Reference: the vnodes a nodes file names, one per node line.
FileNodeNames(lines) == {lines[i].name : i \in {k \in DOMAIN lines : lines[k].kind = "node"}}

=============================================================================
