------------------------------- MODULE MCMbox -------------------------------
EXTENDS Mbox

MCImport(mo, id, ex, he, un, wo) ==
    [mode |-> mo, ids |-> id, excluded |-> ex, headerless |-> he, unrouted |-> un, workers |-> wo]
MCImports == {MCImport("watch", <<1, 2, 1>>, {}, TRUE, {}, 2),
              MCImport("oneshot", <<0, 1>>, {}, FALSE, {}, 2),
              MCImport("watch", <<1, 2, 3, 4>>, {}, TRUE, {2}, 1),
              MCImport("oneshot", <<1, 2, 1>>, {2}, TRUE, {}, 1)}
=============================================================================
