---------------------------- MODULE MCEnvConfig -----------------------------
(* Requests for TLC: those of run_ray.py (complete but for parallel_envs), *)
(* of test_scalability.py (hosts, and more bit/s than the word holds), of  *)
(* run_basic.py (no topo_conf) and of gym.make (nothing).                  *)
EXTENDS EnvConfig

Ray(topo, agent, mbit) ==
    [topo |-> topo, agent |-> agent, output_dir |-> <<agent>>, tf_index |-> 0,
     topo_conf |-> [max_capacity |-> mbit * Mega]]
Parallel(r) == [parallel_envs |-> TRUE] @@ r
Basic(agent) ==
    [topo |-> "dumbbell", agent |-> agent, output_dir |-> <<agent>>, tf_index |-> 0]

Scalability ==
    [topo |-> "dumbbell", agent |-> "tcp", output_dir |-> <<"8_hosts">>, tf_index |-> 0,
     topo_conf |-> [num_hosts |-> 8, max_capacity |-> 2000 * Mega]]
Serial(r) == [parallel_envs |-> FALSE] @@ r

Names == {"tcp", "dctcp", "tcp_nv", "pg", "ppo", "a3c"}
Mixed ==
    {Ray("dumbbell", "dctcp", 10), Ray("fattree", "ppo", 1000),
     Parallel(Ray("dumbbell", "a3c", 1000)), Parallel(Ray("fattree", "dctcp", 1)),
     Basic("tcp"), Serial(Basic("tcp")), Scalability, << >>, [tf_index |-> -1] @@ Ray("nonblock", "tcp_nv", 10)}

Nonblock == {Ray("nonblock", "pg", 10)}
=============================================================================
