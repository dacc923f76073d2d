SPECIFICATION SoundingSpec
CONSTANTS
  time_chunk_length = 10000
  timeline_depth = 100000
  planning_step = 100
  pulse_planning_depth = 3
  pulse_train_planning_depth = 15
  phase_delay = 270000
  au_command_delay = 500000
  blank_delay = 3100
  frequency_delay = 3100
  channel_switch_delay = 3000
  reserve_time = 5000
  duty_factor = 8
  frequency_factor = 100
  second = 1000000000
  speed <- AnyPriority
  threshold <- AnyPriority
  Taus <- BoundaryTaus
  Delays <- SampleDelays
INVARIANTS SoundingTimeReached TrackedAsCaptured
