SPECIFICATION Spec
CONSTANTS
  time_chunk_length = 100
  timeline_depth = 100000
  planning_step = 100
  pulse_planning_depth = 3
  pulse_train_planning_depth = 15
  phase_delay = 2700
  au_command_delay = 5000
  blank_delay = 31
  frequency_delay = 31
  channel_switch_delay = 30
  reserve_time = 50
  duty_factor = 8
  frequency_factor = 1
  second = 10000000
  speed <- RealSpeed
  threshold <- RealThreshold
  Scenarios <- EngineScenarios
  stop_time = 12000000
INVARIANTS PlanValid DueScansServed
CHECK_DEADLOCK FALSE
