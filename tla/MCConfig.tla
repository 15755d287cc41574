------------------------------ MODULE MCConfig -----------------------------
(* Instances of Config for TLC.  Files vary in one section at a time.      *)
EXTENDS Config

\* Two spellings of one type: hashes are padded with zero bytes.
MCHashOf == [s \in {"", "pmw", "pmw0", "web", "btc", "long"} |->
               CASE s = "" -> 0 [] s \in {"pmw", "pmw0"} -> 1 [] s = "web" -> 2
                 [] s = "btc" -> 3 [] OTHER -> 99]
MCRequests == {<<1, 3>>, <<2, 3>>}

Server(u) == [url |-> u, keyName |-> "", key |-> ""]
Entry(t, u, q) == [type |-> t, source |-> "btc", server |-> Server(u), queue |-> q]
Queue(n, off) == [maxAttempts |-> n, timeOff |-> off]

Base == [manager |-> "A", chainId |-> 14, startInterval |-> << >>,
         queues |-> [fast |-> Queue(1, 0), slow |-> Queue(3, 2)],
         disabled |-> FALSE, port |-> << >>, maxIndexerLag |-> << >>,
         cosigner |-> TRUE, local |-> FALSE, keyVariable |-> "",
         signer |-> [url |-> "s", keyName |-> "X-API-KEY", key |-> "k"],
         verifiers |-> [one |-> Entry("pmw", "u1", "fast")]]

Entries == {Entry(t, u, q) : t \in {"pmw", "web"}, u \in {"u1", "u2"}, q \in {"fast", "slow"}}
           \cup {Entry("pmw0", "u2", "slow"), Entry("long", "u2", "slow"),
                 Entry("", "u2", "slow"), Entry("web", "bad", "slow"), Entry("web", "u2", "none")}
Tabled == {[Base EXCEPT !.verifiers = [one |-> v, two |-> w]] : v \in Entries, w \in Entries}
Addressed == {[Base EXCEPT !.manager = m] : m \in {"0", "A", "B"}}
Valued == {[Base EXCEPT !.chainId = 0], [Base EXCEPT !.startInterval = <<-1>>],
           [Base EXCEPT !.startInterval = <<0>>], [Base EXCEPT !.port = <<0>>],
           [Base EXCEPT !.port = <<65536>>], [Base EXCEPT !.maxIndexerLag = <<0>>],
           [Base EXCEPT !.maxIndexerLag = <<0>>, !.disabled = TRUE],
           [Base EXCEPT !.queues = [fast |-> Queue(0, 1)]],
           [Base EXCEPT !.queues = [fast |-> Queue(2, 0)]],
           [Base EXCEPT !.queues = << >>, !.verifiers = << >>]}
Signers == {[Base EXCEPT !.signer = [url |-> u, keyName |-> n, key |-> k], !.cosigner = c] :
              u \in {"", "bad", "s"}, n \in {"", "bad", "X-API-KEY"}, k \in {"", "bad", "k"},
              c \in BOOLEAN}
           \cup {[Base EXCEPT !.local = TRUE, !.keyVariable = v, !.signer = Server("")] :
                    v \in {"", "MY_KEY"}}
MCFiles == Tabled \cup Addressed \cup Valued \cup Signers
MCEnvs == [manager : {"unset", "bad", "0", "A"}, keys : {<< >>, [PRIVATE_KEY |-> "k"], [MY_KEY |-> "bad"]}]
=============================================================================
